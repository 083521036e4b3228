---------------------------- MODULE StreamProofs ----------------------------
(***************************************************************************)
(* Theorems about Stream, for every number of requests, databases, rows,   *)
(* every credit window and every way the batches grow: first the protocol  *)
(* of requests, workers and readers, then the rows and the credits, none   *)
(* of which is lost or made up, and last that Stream implements what Calls *)
(* promises.                                                               *)
(***************************************************************************)
EXTENDS StreamInv, TLAPS, FiniteSetTheorems, FunctionTheorems

-----------------------------------------------------------------------------
(* Sequences.                                                              *)

(* Append adds one element, at the end.                                    *)
LEMMA AppendFacts ==
    ASSUME NEW S, NEW s \in Seq(S), NEW e \in S
    PROVE  /\ Append(s, e) \in Seq(S)
           /\ Len(Append(s, e)) = Len(s) + 1
           /\ \A i \in 1..Len(s) : Append(s, e)[i] = s[i]
           /\ Append(s, e)[Len(s) + 1] = e
BY SMT

(* Tail drops the head and moves the rest one place forward.               *)
LEMMA TailFacts ==
    ASSUME NEW S, NEW s \in Seq(S), s # <<>>
    PROVE  /\ Tail(s) \in Seq(S)
           /\ Len(s) \in Nat /\ Len(s) >= 1
           /\ Len(Tail(s)) = Len(s) - 1
           /\ \A i \in 1..Len(Tail(s)) : Tail(s)[i] = s[i + 1]
           /\ Head(s) = s[1] /\ Head(s) \in S
BY SMT

(* The entries of t are those of s but r, and distinct.                    *)
Forgot(t, s, r) ==
    /\ \A x : (\E i \in 1..Len(t) : t[i] = x) <=> x # r /\ \E i \in 1..Len(s) : s[i] = x
    /\ \A i, j \in 1..Len(t) : t[i] = t[j] => i = j

(* Forget (abortedBeforeStart.delete) keeps everything but r.              *)
LEMMA ForgetFacts ==
    ASSUME NEW S, NEW s \in Seq(S), NEW r,
           \A i, j \in 1..Len(s) : s[i] = s[j] => i = j
    PROVE  /\ Forget(s, r) \in Seq(S)
           /\ Len(Forget(s, r)) <= Len(s)
           /\ Forgot(Forget(s, r), s, r)
<1>1. CASE ~ \E i \in 1..Len(s) : s[i] = r
  <2>1. Forgot(s, s, r)
    BY <1>1 DEF Forgot
  <2> QED
    BY <1>1, <2>1 DEF Forget
<1>2. CASE \E i \in 1..Len(s) : s[i] = r
  <2> DEFINE n == CHOOSE i \in 1..Len(s) : s[i] = r
             t == [j \in 1..(Len(s) - 1) |-> IF j < n THEN s[j] ELSE s[j + 1]]
  <2>1. n \in 1..Len(s) /\ s[n] = r
    BY <1>2
  <2>2. Forget(s, r) = t
    BY <1>2 DEF Forget
  <2> HIDE DEF n
  <2>3. Len(s) \in Nat /\ Len(s) >= 1 /\ Len(s) - 1 \in Nat
    BY <2>1
  <2>4. \A j \in 1..(Len(s) - 1) : t[j] \in S
    BY <2>1, <2>3
  <2>5. t \in Seq(S) /\ Len(t) = Len(s) - 1
    BY <2>3, <2>4
  <2>6. \A j \in 1..(Len(s) - 1) :
           t[j] = IF j < n THEN s[j] ELSE s[j + 1]
    OBVIOUS
  <2> HIDE DEF t
  <2>7. ASSUME NEW x
        PROVE  (\E i \in 1..Len(t) : t[i] = x)
               <=> x # r /\ \E i \in 1..Len(s) : s[i] = x
    <3>1. ASSUME NEW i \in 1..Len(t), t[i] = x
          PROVE  x # r /\ \E j \in 1..Len(s) : s[j] = x
      <4>1. CASE i < n
        <5>1. i \in 1..Len(s) /\ i # n /\ s[i] = x
          BY <4>1, <3>1, <2>1, <2>3, <2>5, <2>6
        <5> QED
          BY <5>1, <2>1
      <4>2. CASE ~ (i < n)
        <5>1. i + 1 \in 1..Len(s) /\ i + 1 # n /\ s[i + 1] = x
          BY <4>2, <3>1, <2>1, <2>3, <2>5, <2>6
        <5> QED
          BY <5>1, <2>1
      <4> QED
        BY <4>1, <4>2
    <3>2. ASSUME x # r, NEW i \in 1..Len(s), s[i] = x
          PROVE  \E j \in 1..Len(t) : t[j] = x
      <4>1. i # n
        BY <3>2, <2>1
      <4>2. CASE i < n
        BY <4>2, <3>2, <2>1, <2>3, <2>5, <2>6
      <4>3. CASE i > n
        <5>1. i - 1 \in 1..Len(t) /\ ~ (i - 1 < n) /\ (i - 1) + 1 = i
          BY <4>3, <2>1, <2>3, <2>5
        <5> QED
          BY <5>1, <3>2, <2>5, <2>6
      <4> QED
        BY <4>1, <4>2, <4>3, <2>1, <2>3
    <3> QED
      BY <3>1, <3>2
  <2>8. \A i, j \in 1..Len(t) : t[i] = t[j] => i = j
    BY <2>1, <2>3, <2>5, <2>6
  <2>9. Forgot(t, s, r)
    BY <2>7, <2>8 DEF Forgot
  <2> QED
    BY <2>2, <2>3, <2>5, <2>9
<1> QED
  BY <1>1, <1>2

(* Remember (rememberAbort) never holds more than MAX_EARLY_ABORTS ids and *)
(* never the same one twice.                                               *)
LEMMA RememberFacts ==
    ASSUME NEW s \in Seq(Id), NEW r \in Id, Len(s) <= MaxEarlyAborts,
           \A i, j \in 1..Len(s) : s[i] = s[j] => i = j
    PROVE  /\ Remember(s, r) \in Seq(Id)
           /\ Len(Remember(s, r)) <= MaxEarlyAborts
           /\ \A i, j \in 1..Len(Remember(s, r)) :
                 Remember(s, r)[i] = Remember(s, r)[j] => i = j
           /\ \A i \in 1..Len(Remember(s, r)) :
                 Remember(s, r)[i] = r
                 \/ \E j \in 1..Len(s) : s[j] = Remember(s, r)[i]
<1> USE EarlyAssumption
<1>1. CASE \E i \in 1..Len(s) : s[i] = r
  BY <1>1 DEF Remember
<1> DEFINE t == Append(s, r)
<1>2. /\ t \in Seq(Id) /\ Len(t) = Len(s) + 1 /\ t # <<>>
      /\ \A i \in 1..Len(s) : t[i] = s[i]
      /\ t[Len(s) + 1] = r
  BY AppendFacts
<1>3. CASE /\ ~ \E i \in 1..Len(s) : s[i] = r
           /\ Len(s) < MaxEarlyAborts
  <2>1. Remember(s, r) = t
    BY <1>3 DEF Remember
  <2> HIDE DEF t
  <2>2. ASSUME NEW i \in 1..Len(t), NEW j \in 1..Len(t), t[i] = t[j]
        PROVE  i = j
    <3>1. CASE i \in 1..Len(s) /\ j \in 1..Len(s)
      BY <3>1, <2>2, <1>2
    <3>2. CASE i = Len(s) + 1 \/ j = Len(s) + 1
      BY <3>2, <2>2, <1>2, <1>3
    <3> QED
      BY <3>1, <3>2, <1>2
  <2>3. \A i \in 1..Len(t) : t[i] = r \/ \E j \in 1..Len(s) : s[j] = t[i]
    BY <1>2
  <2> QED
    BY <2>1, <2>2, <2>3, <1>2, <1>3
<1>4. CASE /\ ~ \E i \in 1..Len(s) : s[i] = r
           /\ ~ (Len(s) < MaxEarlyAborts)
  <2>1. Remember(s, r) = Tail(t)
    BY <1>4 DEF Remember
  <2> HIDE DEF t
  <2>2. /\ Tail(t) \in Seq(Id)
        /\ Len(Tail(t)) = Len(s)
        /\ \A i \in 1..Len(s) : Tail(t)[i] = t[i + 1]
    BY <1>2, TailFacts
  <2>3. \A i, j \in 1..Len(t) : t[i] = t[j] => i = j
    BY <1>2, <1>4
  <2>4. \A i \in 1..Len(s) : i \in 1..Len(t) /\ i + 1 \in 1..Len(t)
    BY <1>2
  <2>5. ASSUME NEW i \in 1..Len(s), NEW j \in 1..Len(s), Tail(t)[i] = Tail(t)[j]
        PROVE  i = j
    <3>1. i + 1 = j + 1
      BY <2>2, <2>3, <2>4, <2>5
    <3> QED
      BY <3>1
  <2>6. ASSUME NEW i \in 1..Len(s)
        PROVE  Tail(t)[i] = r \/ \E j \in 1..Len(s) : s[j] = Tail(t)[i]
    <3>1. CASE i = Len(s)
      BY <3>1, <2>2, <1>2
    <3>2. CASE i # Len(s)
      <4>1. i + 1 \in 1..Len(s)
        BY <3>2
      <4> QED
        BY <4>1, <2>2, <1>2
    <3> QED
      BY <3>1, <3>2
  <2> QED
    BY <2>1, <2>2, <2>5, <2>6
<1> QED
  BY <1>1, <1>3, <1>4

-----------------------------------------------------------------------------
(* The ways a request ends in the worker, as one step.                     *)

AtHead(r) == /\ ChainKey(r) \in Db \cup {0}
             /\ chain[ChainKey(r)] # <<>>
             /\ chain[ChainKey(r)][1] = r

(* Why it ends as it does: with the rows left over or with none, and with  *)
(* ABORTED only where somebody asked for it.                               *)
Ending(r, op, n) ==
    /\ IF op = "ROWS" THEN run[r] = "running" /\ req[r].op = "QUERY" /\ n = left[r]
                      ELSE n = 0
    /\ op = "ABORTED" => aborted[r] \/ HandlerFires(r)

EndStep(r) ==
    /\ AtHead(r)
    /\ run[r] \in {"queued", "running"}
    /\ \E op \in {"ROWS", "ERROR", "ABORTED", "EXEC_RESULT"}, n \in 0..MaxRows :
          Finish(r, op, n) /\ Ending(r, op, n)
    /\ UNCHANGED <<goVars, toWorker, word, aborted, rowVars>>

(* The request at the head of a chain has that chain for its own.          *)
LEMMA HeadFacts ==
    ASSUME TypeOK, ChainInv, NEW k \in Db \cup {0}, Ahead(k)
    PROVE  /\ Head(chain[k]) \in Id
           /\ AtHead(Head(chain[k]))
           /\ ChainKey(Head(chain[k])) = k
           /\ run[Head(chain[k])] = "queued"
<1>1. chain[k] \in Seq(Id) /\ chain[k] # <<>>
  BY DEF TypeOK, WorkerTypeOK, Ahead
<1>2. /\ Head(chain[k]) = chain[k][1]
      /\ Head(chain[k]) \in Id
      /\ 1 \in 1..Len(chain[k])
  BY <1>1, TailFacts
<1>3. req[chain[k][1]].db = k
  BY <1>2 DEF ChainInv
<1> QED
  BY <1>1, <1>2, <1>3 DEF AtHead, ChainKey, Ahead

(* A request that has begun is at the head of its chain.                   *)
LEMMA BegunAtHead ==
    ASSUME TypeOK, IssuedInv, ChainInv, NEW r \in Id, Begun(r)
    PROVE  AtHead(r)
<1>1. req[r] \in Request
  BY DEF TypeOK, CallTypeOK, IssuedInv, Begun
<1>2. ChainKey(r) \in Db \cup {0} /\ ChainKey(r) = req[r].db
  BY <1>1 DEF ChainKey, Request
<1>3. chain[ChainKey(r)] \in Seq(Id)
  BY <1>2 DEF TypeOK, WorkerTypeOK
<1>4. PICK i \in 1..Len(chain[ChainKey(r)]) : chain[ChainKey(r)][i] = r
  BY <1>2 DEF ChainInv
<1>5. ~ (i > 1)
  BY <1>2, <1>4 DEF ChainInv, Begun
<1>6. i = 1 /\ chain[ChainKey(r)] # <<>>
  BY <1>3, <1>4, <1>5
<1> QED
  BY <1>2, <1>4, <1>6 DEF AtHead

(* What a step of Next can be.                                             *)
LEMMA NextCases ==
    ASSUME TypeOK, IssuedInv, ChainInv, Next
    PROVE  \/ \E op \in {"EXEC", "QUERY"}, d \in Db : Issue(op, d)
           \/ \E r \in Id : CtxDone(r) \/ WatchStore(r) \/ WatchStop(r)
           \/ Receive
           \/ \E r \in Id : \/ TakeReply(r) \/ TakeRows(r) \/ TakeFailure(r)
                            \/ CtxReturn(r)
                            \/ NextRow(r) \/ NextBatch(r) \/ NextEnd(r)
                            \/ Close(r)
           \/ DispatchCredit \/ DispatchAbort \/ DispatchRequest
           \/ \E k \in Db \cup {0} : StartExec(k) \/ StartQuery(k)
           \/ \E r \in Id : EndStep(r)
           \/ \E r \in Id, n \in 1..MaxRows : Flush(r, n)
           \/ Resume
<1> USE RowsAssumption
<1>1. ASSUME NEW k \in Db \cup {0}, FailQuery(k)
      PROVE  \E r \in Id : EndStep(r)
  <2> DEFINE r == Head(chain[k])
  <2>1. r \in Id /\ AtHead(r) /\ run[r] = "queued"
    BY <1>1, HeadFacts DEF FailQuery
  <2>2. Finish(r, "ERROR", 0) /\ Ending(r, "ERROR", 0) /\ 0 \in 0..MaxRows
    BY <1>1 DEF FailQuery, Ending
  <2> QED
    BY <1>1, <2>1, <2>2 DEF EndStep, FailQuery
<1>2. ASSUME NEW r \in Id,
             \/ ExecDone(r) \/ Fail(r) \/ AbortSeen(r) \/ Interrupted(r)
             \/ FlushEof(r)
      PROVE  EndStep(r)
  <2>1. run[r] = "running"
    BY <1>2 DEF ExecDone, Fail, AbortSeen, Interrupted, FlushEof
  <2>2. AtHead(r)
    BY <2>1, BegunAtHead DEF Begun
  <2>3. left[r] \in 0..MaxRows /\ 0 \in 0..MaxRows
    BY DEF TypeOK, RowTypeOK
  <2>4. \E op \in {"ROWS", "ERROR", "ABORTED", "EXEC_RESULT"}, n \in 0..MaxRows :
           Finish(r, op, n) /\ Ending(r, op, n)
    BY <1>2, <2>1, <2>3 DEF ExecDone, Fail, AbortSeen, Interrupted, FlushEof, Ending
  <2>5. UNCHANGED <<goVars, toWorker, word, aborted, rowVars>>
    BY <1>2 DEF ExecDone, Fail, AbortSeen, Interrupted, FlushEof
  <2> QED
    BY <2>1, <2>2, <2>4, <2>5 DEF EndStep
<1> QED
  BY <1>1, <1>2 DEF Next, TakeFrame, ReaderStep, Dispatch, Start, Segment

(* Flush moves to the next batch target, or stays at the last one.         *)
LEMMA NextStage ==
    ASSUME NEW n \in Nat, NEW i \in 1..n
    PROVE  (IF i < n THEN i + 1 ELSE i) \in 1..n
OBVIOUS

-----------------------------------------------------------------------------
(* Type correctness.                                                       *)

(* Every step keeps every variable in its type, and abortedBeforeStart     *)
(* within MAX_EARLY_ABORTS.                                                *)
LEMMA TypeStep ==
    ASSUME TypeOK, IssuedInv, ChainInv, EarlyInv, [Next]_vars
    PROVE  TypeOK'
<1> USE RowsAssumption DEF TypeOK, CallTypeOK, ReadTypeOK, SharedTypeOK,
        WorkerTypeOK, RowTypeOK
<1>0. <<>> \in Seq(ToGo)
  OBVIOUS
<1>1. ASSUME NEW op \in {"EXEC", "QUERY"}, NEW d \in Db, Issue(op, d)
      PROVE  TypeOK'
  <2>1. nextId \in Id /\ Frame(op, nextId) \in ToWorker
    BY <1>1 DEF Issue, Frame, ToWorker
  <2>2. toWorker' \in Seq(ToWorker)
    BY <1>1, <2>1 DEF Issue
  <2>3. [op |-> op, db |-> d] \in Request
    BY DEF Request
  <2>4. nextId' \in 1..(MaxId + 1)
    BY <1>1, MaxIdAssumption DEF Issue, Id
  <2>5. CallTypeOK'
    BY <1>1, <2>1, <2>3, <2>4, CancellableAssumption DEF Issue
  <2> QED
    BY <1>1, <2>2, <2>5 DEF Issue, readVars, workerVars, rowVars
<1>2. ASSUME NEW r \in Id, CtxDone(r) \/ WatchStore(r) \/ WatchStop(r)
      PROVE  TypeOK'
  <2>1. CASE CtxDone(r)
    BY <2>1 DEF CtxDone, callVars, readVars, workerVars, rowVars
  <2>2. CASE WatchStore(r)
    BY <2>2 DEF WatchStore, callVars, readVars, workerVars, rowVars
  <2>3. CASE WatchStop(r)
    BY <2>3 DEF WatchStop, callVars, readVars, workerVars, rowVars
  <2> QED
    BY <1>2, <2>1, <2>2, <2>3
<1>3. CASE Receive
  <2>1. toGo # <<>> /\ Head(toGo) \in ToGo /\ Tail(toGo) \in Seq(ToGo)
    BY <1>3, TailFacts DEF Receive
  <2>2. Head(toGo).id \in Id
    BY <2>1 DEF ToGo
  <2>3. Append(frames[Head(toGo).id], Head(toGo)) \in Seq(ToGo)
    BY <2>1, <2>2, AppendFacts DEF TypeOK
  <2>4. frames' \in [Id -> Seq(ToGo)]
    BY <1>3, <2>2, <2>3 DEF Receive
  <2> QED
    BY <1>3, <2>1, <2>4 DEF Receive,
       callVars, readVars, workerVars, rowVars
<1>4. ASSUME NEW r \in Id, TakeReply(r)
      PROVE  TypeOK'
  <2>1. CallTypeOK'
    BY <1>4, <1>0 DEF TakeReply, End, callVars
  <2>2. ReadTypeOK'
    BY <1>4 DEF TakeReply
  <2> QED
    BY <1>4, <2>1, <2>2 DEF TakeReply, workerVars, rowVars
<1>5. ASSUME NEW r \in Id, TakeRows(r) \/ TakeFailure(r)
      PROVE  TypeOK'
  <2>1. /\ Head(frames[r]) \in ToGo
        /\ Tail(frames[r]) \in Seq(ToGo)
    BY <1>5, TailFacts DEF TakeRows, TakeFailure
  <2>2. Head(frames[r]).n \in 0..MaxRows /\ Head(frames[r]).eof \in BOOLEAN
    BY <2>1 DEF ToGo
  <2>3. CASE TakeRows(r)
    <3>1. CallTypeOK'
      BY <2>1, <2>3 DEF TakeRows, callVars
    <3>2. ReadTypeOK'
      BY <2>2, <2>3 DEF TakeRows, EndsStream
    <3> QED
      BY <2>3, <3>1, <3>2 DEF TakeRows, workerVars, rowVars
  <2>4. CASE TakeFailure(r)
    <3>1. CallTypeOK'
      BY <2>4, <1>0 DEF TakeFailure, End, callVars
    <3>2. ReadTypeOK'
      BY <2>4 DEF TakeFailure
    <3> QED
      BY <2>4, <3>1, <3>2 DEF TakeFailure, workerVars, rowVars
  <2> QED
    BY <1>5, <2>3, <2>4
<1>6. ASSUME NEW r \in Id,
             CtxReturn(r) \/ NextBatch(r) \/ NextEnd(r) \/ Close(r)
      PROVE  TypeOK'
  <2>1. Frame("ABORT", r) \in ToWorker /\ Frame("CREDIT", r) \in ToWorker
    BY DEF Frame, ToWorker
  <2>2. /\ Append(toWorker, Frame("ABORT", r)) \in Seq(ToWorker)
        /\ Append(toWorker, Frame("CREDIT", r)) \in Seq(ToWorker)
    BY <2>1, AppendFacts DEF TypeOK
  <2>3. SharedTypeOK'
    <3>1. \/ toWorker' = toWorker
          \/ toWorker' = Append(toWorker, Frame("ABORT", r))
          \/ toWorker' = Append(toWorker, Frame("CREDIT", r))
      BY <1>6 DEF CtxReturn, NextBatch, NextEnd, Close, CloseWith
    <3>2. UNCHANGED <<toGo, word>>
      BY <1>6 DEF CtxReturn, NextBatch, NextEnd, Close
    <3> QED
      BY <2>2, <3>1, <3>2
  <2>4. CASE CtxReturn(r)
    <3>1. End(r) /\ outcome' = [outcome EXCEPT ![r] = "error"]
      BY <2>4 DEF CtxReturn, CloseWith
    <3>2. UNCHANGED <<callVars, done, watch, pending, eof, got, workerVars>>
      BY <2>4 DEF CtxReturn
    <3> QED
      BY <2>3, <3>1, <3>2, <1>0 DEF End, callVars, workerVars, rowVars
  <2>5. CASE NextBatch(r)
    BY <2>3, <2>5 DEF NextBatch, callVars, readVars, workerVars, rowVars
  <2>6. CASE NextEnd(r)
    <3>1. End(r) /\ outcome' = [outcome EXCEPT ![r] = "eof"]
      BY <2>6 DEF NextEnd, CloseWith
    <3>2. UNCHANGED <<callVars, done, watch, pending, eof, got, workerVars>>
      BY <2>6 DEF NextEnd
    <3> QED
      BY <2>3, <3>1, <3>2, <1>0 DEF End, callVars, workerVars, rowVars
  <2>7. CASE Close(r)
    <3>1. /\ End(r)
          /\ outcome' = [outcome EXCEPT ![r] =
                           IF done[r] THEN "error" ELSE "closed"]
      BY <2>7 DEF Close, CloseWith
    <3>2. UNCHANGED <<callVars, done, watch, pending, eof, got, workerVars>>
      BY <2>7 DEF Close
    <3> QED
      BY <2>3, <3>1, <3>2, <1>0 DEF End, callVars, workerVars, rowVars
  <2> QED
    BY <1>6, <2>4, <2>5, <2>6, <2>7
<1>7. ASSUME NEW r \in Id, NextRow(r)
      PROVE  TypeOK'
  <2>1. pending[r] - 1 \in 0..MaxRows /\ got[r] + 1 \in Nat
    BY <1>7 DEF NextRow
  <2>2. ReadTypeOK'
    BY <1>7, <2>1 DEF NextRow
  <2> QED
    BY <1>7, <2>2 DEF NextRow, callVars, workerVars, rowVars
<1>8. CASE DispatchCredit \/ DispatchAbort \/ DispatchRequest
  <2> DEFINE r == Head(toWorker).id
  <2>1. toWorker # <<>> /\ toWorker' = Tail(toWorker)
    BY <1>8 DEF DispatchCredit, DispatchAbort, DispatchRequest
  <2>2. toWorker' \in Seq(ToWorker) /\ Head(toWorker) \in ToWorker
    BY <2>1, TailFacts DEF TypeOK
  <2>3. r \in Id
    BY <2>2 DEF ToWorker
  <2>4. Wake(r) \in [Id -> {"none", "queued", "running", "parked",
                            "yielded", "done"}]
    BY <2>3 DEF Wake
  <2>5. CASE DispatchCredit
    <3>1. UNCHANGED <<left, stage, total, chain, aborted, early>>
      BY <2>5 DEF DispatchCredit
    <3>2. /\ credit' = [credit EXCEPT ![r] = @ + 1] \/ credit' = credit
          /\ run' = Wake(r) \/ run' = run
      BY <2>5 DEF DispatchCredit
    <3>3. credit' \in [Id -> Int]
      <4>1. credit \in [Id -> Int]
        OBVIOUS
      <4>2. credit[r] + 1 \in Int
        BY <2>3, <4>1
      <4>3. [credit EXCEPT ![r] = credit[r] + 1] \in [Id -> Int]
        BY <4>1, <4>2
      <4> QED
        BY <3>2, <4>1, <4>3
    <3>4. RowTypeOK'
      BY <3>1, <3>3
    <3>5. WorkerTypeOK'
      BY <2>4, <3>1, <3>2
    <3> QED
      BY <2>2, <2>5, <3>4, <3>5 DEF DispatchCredit, goVars, callVars, readVars
  <2>6. CASE DispatchAbort
    <3>1. Remember(early, r) \in Seq(Id) /\ Len(Remember(early, r)) <= MaxEarlyAborts
      BY <2>3, RememberFacts DEF TypeOK, EarlyInv
    <3> QED
      BY <2>2, <2>3, <2>4, <2>6, <3>1
      DEF DispatchAbort, goVars, callVars, readVars, rowVars
  <2>7. CASE DispatchRequest
    <3>1. \A k \in Db \cup {0} : Append(chain[k], r) \in Seq(Id)
      BY <2>3, AppendFacts DEF TypeOK
    <3>2. chain' \in [Db \cup {0} -> Seq(Id)]
      BY <2>7, <3>1 DEF DispatchRequest
    <3> QED
      BY <2>2, <2>3, <2>7, <3>2
      DEF DispatchRequest, goVars, callVars, readVars, rowVars
  <2> QED
    BY <1>8, <2>5, <2>6, <2>7
<1>9. ASSUME NEW k \in Db \cup {0}, StartExec(k) \/ StartQuery(k)
      PROVE  TypeOK'
  <2>1. Head(chain[k]) \in Id
    BY <1>9, HeadFacts DEF StartExec, StartQuery
  <2>2. /\ Forget(early, Head(chain[k])) \in Seq(Id)
        /\ Len(Forget(early, Head(chain[k]))) <= MaxEarlyAborts
    BY ForgetFacts, EarlyAssumption DEF TypeOK, EarlyInv
  <2>3. CASE StartExec(k)
    BY <2>1, <2>3 DEF StartExec, goVars, callVars, readVars, rowVars
  <2>4. CASE StartQuery(k)
    <3>1. InEarly(Head(chain[k])) \in BOOLEAN
      BY DEF InEarly
    <3>2. WorkerTypeOK'
      <4>1. /\ UNCHANGED chain /\ run' = [run EXCEPT ![Head(chain[k])] = "running"]
            /\ aborted' = [aborted EXCEPT ![Head(chain[k])] = InEarly(Head(chain[k]))]
            /\ early' = Forget(early, Head(chain[k]))
        BY <2>4 DEF StartQuery
      <4>2. run' \in [Id -> {"none", "queued", "running", "parked", "yielded", "done"}]
        BY <4>1, <2>1
      <4>3. aborted' \in [Id -> BOOLEAN]
        BY <4>1, <2>1, <3>1
      <4> QED
        BY <4>1, <4>2, <4>3, <2>2
    <3>3. RowTypeOK'
      BY <2>1, <2>4, WindowAssumption DEF StartQuery
    <3> QED
      BY <2>4, <3>2, <3>3 DEF StartQuery, goVars, callVars, readVars
  <2> QED
    BY <1>9, <2>3, <2>4
<1>10. ASSUME NEW r \in Id, EndStep(r)
       PROVE  TypeOK'
  <2>1. PICK op \in {"ROWS", "ERROR", "ABORTED", "EXEC_RESULT"},
             n \in 0..MaxRows : Finish(r, op, n)
    BY <1>10 DEF EndStep
  <2>2. [op |-> op, id |-> r, n |-> n, eof |-> TRUE] \in ToGo
    BY DEF ToGo
  <2>3. toGo' \in Seq(ToGo)
    BY <2>1, <2>2, AppendFacts DEF Finish
  <2>4. /\ Forget(early, r) \in Seq(Id)
        /\ Len(Forget(early, r)) <= MaxEarlyAborts
    BY ForgetFacts, EarlyAssumption DEF TypeOK, EarlyInv
  <2>5. Tail(chain[ChainKey(r)]) \in Seq(Id)
    BY <1>10, TailFacts DEF EndStep, AtHead
  <2>6. chain' \in [Db \cup {0} -> Seq(Id)]
    BY <2>1, <2>5 DEF Finish
  <2>7. run' \in [Id -> {"none", "queued", "running", "parked", "yielded", "done"}]
    BY <2>1 DEF Finish
  <2>8. early' \in Seq(Id) /\ Len(early') <= MaxEarlyAborts
    BY <2>1, <2>4 DEF Finish
  <2>9. /\ UNCHANGED <<nextId, req, go, frames, done, watch, pending, eof, outcome, got,
                        toWorker, word, aborted>>
        /\ RowTypeOK'
    BY <1>10 DEF EndStep, goVars, callVars, readVars, rowVars
  <2> QED
    BY <2>3, <2>6, <2>7, <2>8, <2>9
<1>11. ASSUME NEW r \in Id, NEW n \in 1..MaxRows, Flush(r, n)
       PROVE  TypeOK'
  <2>1. n \in 0..MaxRows
    OBVIOUS
  <2>2. [op |-> "ROWS", id |-> r, n |-> n, eof |-> FALSE] \in ToGo
    BY <2>1 DEF ToGo
  <2>3. toGo' \in Seq(ToGo)
    BY <1>11, <2>2, AppendFacts DEF Flush
  <2>4. left[r] - n \in 0..MaxRows
    <3>1. n <= left[r] /\ left[r] \in 0..MaxRows
      BY <1>11 DEF Flush
    <3> QED
      BY <3>1
  <2>5. Len(BatchTargets) \in Nat
    OBVIOUS
  <2>6. stage' \in [Id -> 1..Len(BatchTargets)]
    <3>1. stage \in [Id -> 1..Len(BatchTargets)]
      OBVIOUS
    <3> DEFINE next == IF stage[r] < Len(BatchTargets) THEN stage[r] + 1
                                                       ELSE stage[r]
    <3>2. stage[r] \in 1..Len(BatchTargets)
      BY <3>1
    <3>3. next \in 1..Len(BatchTargets)
      BY <2>5, <3>2, NextStage
    <3>4. stage' = [stage EXCEPT ![r] = next]
      BY <1>11, <3>1 DEF Flush
    <3> HIDE DEF next
    <3> QED
      BY <3>1, <3>3, <3>4
  <2>7. RowTypeOK'
    <3>1. credit' \in [Id -> Int]
      <4>1. credit \in [Id -> Int] /\ credit[r] - 1 \in Int
        OBVIOUS
      <4> QED
        BY <1>11, <4>1 DEF Flush
    <3>2. left' \in [Id -> 0..MaxRows]
      BY <1>11, <2>4 DEF Flush
    <3>3. total' \in [Id -> 0..MaxRows]
      BY <1>11 DEF Flush
    <3> QED
      BY <2>6, <3>1, <3>2, <3>3
  <2>8. WorkerTypeOK'
    BY <1>11 DEF Flush
  <2> QED
    BY <1>11, <2>3, <2>7, <2>8 DEF Flush, goVars, callVars, readVars
<1>12. CASE Resume
  BY <1>12 DEF Resume, goVars, callVars, readVars, rowVars
<1>13. CASE UNCHANGED vars
  BY <1>13 DEF vars, goVars, callVars, readVars, workerVars, rowVars
<1> QED
  BY <1>1, <1>2, <1>3, <1>4, <1>5, <1>6, <1>7, <1>8, <1>9, <1>10, <1>11,
     <1>12, <1>13, NextCases

-----------------------------------------------------------------------------
(* Order.                                                                  *)

(* A request posted to the worker is one the Go side issued.               *)
LEMMA PostedIssued ==
    ASSUME TypeOK, IssuedInv, WireInv, DispatchRequest
    PROVE  /\ Head(toWorker).id \in Id
           /\ Issued(Head(toWorker).id)
           /\ run[Head(toWorker).id] = "none"
           /\ Head(toWorker) = Frame(req[Head(toWorker).id].op, Head(toWorker).id)
           /\ req[Head(toWorker).id] \in Request
<1>1. toWorker \in Seq(ToWorker) /\ toWorker # <<>>
  BY DEF TypeOK, SharedTypeOK, DispatchRequest
<1>2. /\ Head(toWorker) = toWorker[1] /\ 1 \in 1..Len(toWorker)
      /\ Head(toWorker) \in ToWorker
  BY <1>1, TailFacts
<1>3. Requests(toWorker[1])
  BY <1>2 DEF DispatchRequest, Requests
<1>4. /\ toWorker[1].op = req[toWorker[1].id].op
      /\ run[toWorker[1].id] = "none"
  BY <1>2, <1>3 DEF WireInv
<1>5. Head(toWorker).id \in Id
  BY <1>2 DEF ToWorker
<1>6. req[toWorker[1].id] # NoRequest
  BY <1>3, <1>4 DEF NoRequest, Requests
<1>7. req[toWorker[1].id] \in Request
  BY <1>2, <1>5, <1>6 DEF TypeOK, CallTypeOK
<1>8. toWorker[1] = Frame(toWorker[1].op, toWorker[1].id)
  BY <1>2 DEF ToWorker, Frame
<1> QED
  BY <1>2, <1>4, <1>5, <1>6, <1>7, <1>8 DEF IssuedInv

(* Only dispatching a request makes it known to the worker.                *)
LEMMA UndispatchedStep ==
    ASSUME TypeOK, IssuedInv, ChainInv, [Next]_vars, ~DispatchRequest,
           NEW r \in Id
    PROVE  run'[r] = "none" <=> run[r] = "none"
<1> USE DEF TypeOK, WorkerTypeOK
<1>1. CASE UNCHANGED run
  BY <1>1
<1>2. CASE DispatchCredit \/ DispatchAbort
  BY <1>2 DEF DispatchCredit, DispatchAbort, Wake
<1>3. ASSUME NEW k \in Db \cup {0}, StartExec(k) \/ StartQuery(k)
      PROVE  run'[r] = "none" <=> run[r] = "none"
  <2>1. Head(chain[k]) \in Id /\ run[Head(chain[k])] = "queued"
    BY <1>3, HeadFacts DEF StartExec, StartQuery
  <2> QED
    BY <1>3, <2>1 DEF StartExec, StartQuery
<1>4. ASSUME NEW q \in Id, EndStep(q)
      PROVE  run'[r] = "none" <=> run[r] = "none"
  BY <1>4 DEF EndStep, Finish
<1>5. ASSUME NEW q \in Id, NEW n \in 1..MaxRows, Flush(q, n)
      PROVE  run'[r] = "none" <=> run[r] = "none"
  BY <1>5 DEF Flush
<1>6. CASE Resume
  BY <1>6 DEF Resume
<1>7. CASE UNCHANGED vars
  BY <1>7 DEF vars, workerVars
<1>8. ASSUME NEW op \in {"EXEC", "QUERY"}, NEW d \in Db, Issue(op, d)
      PROVE  UNCHANGED run
  BY <1>8 DEF Issue, workerVars
<1>9. ASSUME NEW q \in Id, CtxDone(q) \/ WatchStore(q) \/ WatchStop(q)
      PROVE  UNCHANGED run
  BY <1>9 DEF CtxDone, WatchStore, WatchStop, workerVars
<1>10. CASE Receive
  BY <1>1, <1>10 DEF Receive, workerVars
<1>11. ASSUME NEW q \in Id,
              \/ TakeReply(q) \/ TakeRows(q) \/ TakeFailure(q) \/ CtxReturn(q)
              \/ NextRow(q) \/ NextBatch(q) \/ NextEnd(q) \/ Close(q)
       PROVE  UNCHANGED run
  BY <1>11 DEF TakeReply, TakeRows, TakeFailure, CtxReturn, NextRow, NextBatch,
     NextEnd, Close, workerVars
<1> QED
  BY <1>1, <1>2, <1>3, <1>4, <1>5, <1>6, <1>7, <1>8, <1>9, <1>10, <1>11,
     NextCases

(* Every step keeps IssuedInv: an id means nothing before Worker.begin has  *)
(* handed it out.                                                          *)
LEMMA IssuedStep ==
    ASSUME TypeOK, IssuedInv, WireInv, ChainInv, [Next]_vars
    PROVE  IssuedInv'
<1>1. CASE DispatchRequest
  <2>1. /\ Head(toWorker).id \in Id /\ Issued(Head(toWorker).id)
        /\ run' = [run EXCEPT ![Head(toWorker).id] = "queued"]
    BY <1>1, PostedIssued DEF DispatchRequest
  <2>2. UNCHANGED <<nextId, req, go>>
    BY <1>1 DEF DispatchRequest, goVars, callVars
  <2> QED
    BY <2>1, <2>2 DEF IssuedInv, Issued, TypeOK, WorkerTypeOK
<1>2. CASE ~ DispatchRequest
  <2>1. \A r \in Id : run'[r] = "none" <=> run[r] = "none"
    BY <1>2, UndispatchedStep
  <2>2. CASE UNCHANGED <<nextId, req, go>>
    BY <2>1, <2>2 DEF IssuedInv, Issued
  <2>3. ASSUME NEW op \in {"EXEC", "QUERY"}, NEW d \in Db, Issue(op, d)
        PROVE  IssuedInv'
    <3>1. nextId \in Id /\ nextId' = nextId + 1
      BY <2>3 DEF Issue
    <3>2. \A r \in Id : Issued(r)' <=> Issued(r) \/ r = nextId
      BY <3>1, MaxIdAssumption DEF Issued, Id
    <3>3. ~ Issued(nextId)
      BY <3>1, MaxIdAssumption DEF Issued, Id
    <3>4. [op |-> op, db |-> d] # NoRequest
      BY DEF NoRequest
    <3> QED
      BY <2>1, <2>3, <3>1, <3>2, <3>3, <3>4 DEF Issue, IssuedInv, TypeOK, CallTypeOK
  <2>4. ASSUME NEW q \in Id,
               \/ TakeReply(q) \/ TakeRows(q) \/ TakeFailure(q) \/ CtxReturn(q)
               \/ NextBatch(q) \/ NextEnd(q) \/ Close(q)
        PROVE  IssuedInv'
    <3>1. UNCHANGED <<nextId, req>>
      BY <2>4 DEF TakeReply, TakeRows, TakeFailure, CtxReturn, NextBatch,
         NextEnd, Close, callVars
    <3>2. \/ go[q] # "unused" /\ go' = [go EXCEPT ![q] = "closed"]
          \/ /\ go[q] \in {"first", "open", "pull"}
             /\ go' = [go EXCEPT ![q] = "open"] \/ go' = [go EXCEPT ![q] = "pull"]
      BY <2>4 DEF TakeReply, TakeRows, TakeFailure, CtxReturn, NextBatch,
         NextEnd, Close, CloseWith, End
    <3> QED
      BY <2>1, <3>1, <3>2 DEF IssuedInv, Issued, TypeOK, CallTypeOK
  <2>5. ASSUME NEW q \in Id,
               CtxDone(q) \/ WatchStore(q) \/ WatchStop(q) \/ NextRow(q)
        PROVE  UNCHANGED <<nextId, req, go>>
    BY <2>5 DEF CtxDone, WatchStore, WatchStop, NextRow, callVars
  <2>6. ASSUME \/ Receive \/ DispatchCredit \/ DispatchAbort \/ Resume
               \/ \E k \in Db \cup {0} : StartExec(k) \/ StartQuery(k)
               \/ \E q \in Id : EndStep(q)
               \/ \E q \in Id, n \in 1..MaxRows : Flush(q, n)
               \/ UNCHANGED vars
        PROVE  UNCHANGED <<nextId, req, go>>
    BY <2>6 DEF Receive, DispatchCredit, DispatchAbort, Resume, StartExec,
       StartQuery, EndStep, Flush, vars, goVars, callVars
  <2> QED
    BY <1>2, <2>2, <2>3, <2>4, <2>5, <2>6, NextCases
<1> QED
  BY <1>1, <1>2

(* The requests in flight after a step that posts no request.              *)
LEMMA WireAppend ==
    ASSUME TypeOK, WireInv, NEW m \in ToWorker, ~ Requests(m),
           toWorker' = Append(toWorker, m), UNCHANGED <<nextId, req, run>>
    PROVE  WireInv'
<1>1. /\ Len(toWorker) \in Nat
      /\ Len(toWorker') = Len(toWorker) + 1
      /\ \A i \in 1..Len(toWorker) : toWorker'[i] = toWorker[i]
      /\ toWorker'[Len(toWorker) + 1] = m
  BY AppendFacts DEF TypeOK, SharedTypeOK
<1>2. \A i \in 1..Len(toWorker') :
         Requests(toWorker'[i]) => i \in 1..Len(toWorker)
  BY <1>1
<1>3. \A i \in 1..Len(toWorker) : i \in 1..Len(toWorker')
  BY <1>1
<1>4. /\ \A i \in 1..Len(toWorker') :
            Requests(toWorker'[i]) => /\ toWorker'[i].op = req'[toWorker'[i].id].op
                                      /\ run'[toWorker'[i].id] = "none"
      /\ \A i, j \in 1..Len(toWorker') :
            i < j /\ Requests(toWorker'[i]) /\ Requests(toWorker'[j])
            => toWorker'[i].id < toWorker'[j].id
  BY <1>1, <1>2 DEF WireInv
<1>5. ASSUME NEW r \in Id, Issued(r)', run'[r] = "none"
      PROVE  \E i \in 1..Len(toWorker') : toWorker'[i] = Frame(req'[r].op, r)
  BY <1>1, <1>3, <1>5 DEF WireInv, Issued
<1> QED
  BY <1>4, <1>5 DEF WireInv, Requests

(* Every step keeps WireInv: the requests posted and not yet dispatched    *)
(* are in flight, in the order of their ids.                               *)
LEMMA WireStep ==
    ASSUME TypeOK, IssuedInv, WireInv, ChainInv, [Next]_vars
    PROVE  WireInv'
<1>1. CASE DispatchRequest
  <2> DEFINE r == Head(toWorker).id
  <2>1. /\ r \in Id /\ run[r] = "none"
        /\ run' = [run EXCEPT ![r] = "queued"]
        /\ Head(toWorker) = Frame(req[r].op, r)
        /\ UNCHANGED <<nextId, req>>
    BY <1>1, PostedIssued DEF DispatchRequest, goVars, callVars
  <2>2. /\ toWorker \in Seq(ToWorker) /\ toWorker # <<>>
        /\ toWorker' = Tail(toWorker) /\ Requests(Head(toWorker))
    BY <1>1 DEF DispatchRequest, TypeOK, SharedTypeOK, Requests
  <2>3. /\ Len(toWorker) \in Nat /\ Len(toWorker) >= 1
        /\ Len(toWorker') = Len(toWorker) - 1
        /\ \A i \in 1..Len(toWorker') : toWorker'[i] = toWorker[i + 1]
        /\ Head(toWorker) = toWorker[1]
    BY <2>2, TailFacts
  <2>4. \A i \in 1..Len(toWorker') :
           i + 1 \in 1..Len(toWorker) /\ 1 < i + 1 /\ 1 \in 1..Len(toWorker)
    BY <2>3
  <2>5. \A i \in 1..Len(toWorker') : toWorker'[i] \in ToWorker
    BY <2>2, <2>3, <2>4
  <2>6. ASSUME NEW i \in 1..Len(toWorker'), Requests(toWorker'[i])
        PROVE  /\ toWorker'[i].op = req'[toWorker'[i].id].op
               /\ run'[toWorker'[i].id] = "none"
    <3>1. r < toWorker'[i].id
      BY <2>2, <2>3, <2>4, <2>6 DEF WireInv
    <3>2. toWorker'[i].id \in Id
      BY <2>5 DEF ToWorker
    <3>3. toWorker'[i].id # r
      BY <2>1, <3>1, <3>2, MaxIdAssumption DEF Id
    <3> QED
      BY <2>1, <2>3, <2>4, <2>6, <3>2, <3>3 DEF WireInv, TypeOK, WorkerTypeOK
  <2>7. ASSUME NEW i \in 1..Len(toWorker'), NEW j \in 1..Len(toWorker'),
               i < j, Requests(toWorker'[i]), Requests(toWorker'[j])
        PROVE  toWorker'[i].id < toWorker'[j].id
    <3>1. i + 1 < j + 1
      BY <2>7
    <3> QED
      BY <2>3, <2>4, <2>7, <3>1 DEF WireInv
  <2>8. ASSUME NEW q \in Id, Issued(q)', run'[q] = "none"
        PROVE  \E i \in 1..Len(toWorker') : toWorker'[i] = Frame(req'[q].op, q)
    <3>1. q # r /\ run[q] = "none" /\ Issued(q)
      BY <2>1, <2>8 DEF TypeOK, WorkerTypeOK, Issued
    <3>2. PICK i \in 1..Len(toWorker) : toWorker[i] = Frame(req[q].op, q)
      BY <3>1 DEF WireInv
    <3>3. i # 1
      BY <2>1, <2>3, <3>1, <3>2 DEF Frame
    <3>4. i - 1 \in 1..Len(toWorker') /\ (i - 1) + 1 = i
      BY <2>3, <3>3
    <3> QED
      BY <2>1, <2>3, <3>2, <3>4
  <2> QED
    BY <2>6, <2>7, <2>8 DEF WireInv, Requests
<1>2. CASE ~ DispatchRequest
  <2>1. \A r \in Id : run'[r] = "none" <=> run[r] = "none"
    BY <1>2, UndispatchedStep
  <2>2. \A i \in 1..Len(toWorker) : toWorker[i].id \in Id
    <3>1. \A i \in 1..Len(toWorker) : toWorker[i] \in ToWorker
      BY DEF TypeOK, SharedTypeOK
    <3> QED
      BY <3>1 DEF ToWorker
  <2>3. CASE UNCHANGED <<nextId, req, toWorker>>
    BY <2>1, <2>2, <2>3 DEF WireInv, Issued
  <2>4. ASSUME NEW op \in {"EXEC", "QUERY"}, NEW d \in Db, Issue(op, d)
        PROVE  WireInv'
    <3> DEFINE m == Frame(op, nextId)
               req1 == [op |-> op, db |-> d]
    <3>1. /\ nextId \in Id /\ m \in ToWorker /\ m.op = op /\ m.id = nextId
          /\ Requests(m)
      BY <2>4 DEF Issue, Frame, ToWorker, Requests
    <3>2. /\ Len(toWorker) \in Nat
          /\ Len(toWorker') = Len(toWorker) + 1
          /\ \A i \in 1..Len(toWorker) : toWorker'[i] = toWorker[i]
          /\ toWorker'[Len(toWorker) + 1] = m
      BY <2>4, <3>1, AppendFacts DEF Issue, TypeOK, SharedTypeOK
    <3>3. /\ req' = [req EXCEPT ![nextId] = req1]
          /\ nextId' = nextId + 1
          /\ req' [nextId] = req1
          /\ \A r \in Id : r # nextId => req'[r] = req[r]
      BY <2>4, <3>1 DEF Issue, TypeOK, CallTypeOK
    <3>4. run[nextId] = "none" /\ ~ Issued(nextId) /\ req[nextId] = NoRequest
      BY <3>1, MaxIdAssumption DEF IssuedInv, Issued, Id
    <3>5. \A i \in 1..Len(toWorker) :
             Requests(toWorker[i]) => toWorker[i].id < nextId
      <4>1. ASSUME NEW i \in 1..Len(toWorker), Requests(toWorker[i])
            PROVE  req[toWorker[i].id] # NoRequest
        BY <4>1 DEF WireInv, Requests, NoRequest
      <4> QED
        BY <2>2, <4>1 DEF IssuedInv, Issued
    <3> HIDE DEF m, req1
    <3>6. ASSUME NEW i \in 1..Len(toWorker'), Requests(toWorker'[i])
          PROVE  /\ toWorker'[i].op = req'[toWorker'[i].id].op
                 /\ run'[toWorker'[i].id] = "none"
      <4>1. CASE i \in 1..Len(toWorker)
        <5>1. toWorker'[i] = toWorker[i] /\ toWorker[i].id # nextId
          BY <3>1, <3>2, <3>5, <3>6, <4>1, <2>2, MaxIdAssumption DEF Id
        <5> QED
          BY <2>1, <2>2, <3>3, <3>6, <4>1, <5>1 DEF WireInv
      <4>2. CASE i = Len(toWorker) + 1
        BY <2>1, <3>1, <3>2, <3>3, <3>4, <4>2 DEF req1
      <4> QED
        BY <4>1, <4>2, <3>2
    <3>7. ASSUME NEW i \in 1..Len(toWorker'), NEW j \in 1..Len(toWorker'),
                 i < j, Requests(toWorker'[i]), Requests(toWorker'[j])
          PROVE  toWorker'[i].id < toWorker'[j].id
      <4>1. i \in 1..Len(toWorker)
        BY <3>2, <3>7
      <4>2. CASE j \in 1..Len(toWorker)
        BY <3>2, <3>7, <4>1, <4>2 DEF WireInv
      <4>3. CASE j = Len(toWorker) + 1
        BY <3>1, <3>2, <3>5, <3>7, <4>1, <4>3
      <4> QED
        BY <3>2, <4>2, <4>3
    <3>8. ASSUME NEW r \in Id, Issued(r)', run'[r] = "none"
          PROVE  \E i \in 1..Len(toWorker') : toWorker'[i] = Frame(req'[r].op, r)
      <4>1. CASE r = nextId
        <5>1. Len(toWorker) + 1 \in 1..Len(toWorker')
          BY <3>2
        <5> QED
          BY <3>2, <3>3, <4>1, <5>1 DEF m, req1
      <4>2. CASE r # nextId
        <5>1. Issued(r) /\ run[r] = "none" /\ req'[r] = req[r]
          BY <2>1, <3>1, <3>3, <3>8, <4>2, MaxIdAssumption DEF Issued, Id
        <5>2. PICK i \in 1..Len(toWorker) : toWorker[i] = Frame(req[r].op, r)
          BY <5>1 DEF WireInv
        <5>3. i \in 1..Len(toWorker')
          BY <3>2
        <5> QED
          BY <3>2, <5>1, <5>2, <5>3
      <4> QED
        BY <4>1, <4>2
    <3> QED
      BY <3>6, <3>7, <3>8 DEF WireInv, Requests
  <2>5. CASE DispatchCredit \/ DispatchAbort
    <3>1. /\ toWorker \in Seq(ToWorker) /\ toWorker # <<>>
          /\ toWorker' = Tail(toWorker) /\ ~ Requests(Head(toWorker))
          /\ UNCHANGED <<nextId, req>>
      BY <2>5 DEF DispatchCredit, DispatchAbort, TypeOK, SharedTypeOK, Requests,
         goVars, callVars
    <3>2. /\ Len(toWorker) \in Nat /\ Len(toWorker) >= 1
          /\ Len(toWorker') = Len(toWorker) - 1
          /\ \A i \in 1..Len(toWorker') : toWorker'[i] = toWorker[i + 1]
          /\ Head(toWorker) = toWorker[1]
      BY <3>1, TailFacts
    <3>3. \A i \in 1..Len(toWorker') : i + 1 \in 1..Len(toWorker)
      BY <3>2
    <3>4. ASSUME NEW i \in 1..Len(toWorker'), Requests(toWorker'[i])
          PROVE  /\ toWorker'[i].op = req'[toWorker'[i].id].op
                 /\ run'[toWorker'[i].id] = "none"
      BY <2>1, <2>2, <3>1, <3>2, <3>3, <3>4 DEF WireInv
    <3>5. ASSUME NEW i \in 1..Len(toWorker'), NEW j \in 1..Len(toWorker'),
                 i < j, Requests(toWorker'[i]), Requests(toWorker'[j])
          PROVE  toWorker'[i].id < toWorker'[j].id
      <4>1. i + 1 < j + 1
        BY <3>5
      <4> QED
        BY <3>2, <3>3, <3>5, <4>1 DEF WireInv
    <3>6. ASSUME NEW r \in Id, Issued(r)', run'[r] = "none"
          PROVE  \E i \in 1..Len(toWorker') : toWorker'[i] = Frame(req'[r].op, r)
      <4>1. Issued(r) /\ run[r] = "none" /\ req[r] \in Request
        BY <2>1, <3>1, <3>6 DEF Issued, IssuedInv, TypeOK, CallTypeOK
      <4>2. PICK i \in 1..Len(toWorker) : toWorker[i] = Frame(req[r].op, r)
        BY <4>1 DEF WireInv
      <4>3. Requests(toWorker[i])
        BY <4>1, <4>2 DEF Requests, Frame, Request
      <4>4. i # 1
        BY <3>1, <3>2, <4>3
      <4>5. i - 1 \in 1..Len(toWorker') /\ (i - 1) + 1 = i
        BY <3>2, <4>4
      <4> QED
        BY <3>1, <3>2, <4>2, <4>5
    <3> QED
      BY <3>4, <3>5, <3>6 DEF WireInv, Requests
  <2>6. ASSUME NEW q \in Id,
               CtxReturn(q) \/ NextBatch(q) \/ NextEnd(q) \/ Close(q)
        PROVE  WireInv'
    <3>1. UNCHANGED <<nextId, req, run>>
      BY <2>6 DEF CtxReturn, NextBatch, NextEnd, Close, callVars, workerVars
    <3>2. \/ toWorker' = toWorker
          \/ toWorker' = Append(toWorker, Frame("ABORT", q))
          \/ toWorker' = Append(toWorker, Frame("CREDIT", q))
      BY <2>6 DEF CtxReturn, NextBatch, NextEnd, Close, CloseWith
    <3>3. /\ Frame("ABORT", q) \in ToWorker /\ ~ Requests(Frame("ABORT", q))
          /\ Frame("CREDIT", q) \in ToWorker /\ ~ Requests(Frame("CREDIT", q))
      BY DEF Frame, ToWorker, Requests
    <3> QED
      BY <2>3, <3>1, <3>2, <3>3, WireAppend
  <2>7. ASSUME \/ Receive \/ Resume
               \/ \E k \in Db \cup {0} : StartExec(k) \/ StartQuery(k)
               \/ \E q \in Id : EndStep(q)
               \/ \E q \in Id, n \in 1..MaxRows : Flush(q, n)
               \/ \E q \in Id : \/ CtxDone(q) \/ WatchStore(q) \/ WatchStop(q)
                                \/ TakeReply(q) \/ TakeRows(q) \/ TakeFailure(q)
                                \/ NextRow(q)
               \/ UNCHANGED vars
        PROVE  UNCHANGED <<nextId, req, toWorker>>
    BY <2>7 DEF Receive, Resume, StartExec, StartQuery, EndStep, Flush, CtxDone,
       WatchStore, WatchStop, TakeReply, TakeRows, TakeFailure, NextRow,
       vars, goVars, callVars
  <2> QED
    BY <1>2, <2>3, <2>4, <2>5, <2>6, <2>7, NextCases
<1> QED
  BY <1>1, <1>2

(* A worker step that moves requests within "queued", or within the states *)
(* of a request that has begun, leaves the chains as they should be.       *)
LEMMA ChainKept ==
    ASSUME TypeOK, ChainInv, UNCHANGED <<chain, req>>,
           \A r \in Id : /\ run'[r] = "queued" <=> run[r] = "queued"
                         /\ Begun(r)' <=> Begun(r)
    PROVE  ChainInv'
<1>1. \A k \in Db \cup {0} : \A i \in 1..Len(chain[k]) : chain[k][i] \in Id
  BY DEF TypeOK, WorkerTypeOK
<1>2. ASSUME NEW k \in Db \cup {0}, NEW i \in 1..Len(chain[k])
      PROVE  /\ req[chain[k][i]].db = k
             /\ run'[chain[k][i]] \in {"queued", "running", "parked", "yielded"}
             /\ i > 1 => run'[chain[k][i]] = "queued"
             /\ \A j \in 1..Len(chain[k]) : i < j => chain[k][i] < chain[k][j]
  BY <1>1, <1>2 DEF ChainInv, Begun
<1>3. ASSUME NEW r \in Id, run'[r] = "queued" \/ Begun(r)'
      PROVE  \E i \in 1..Len(chain[req[r].db]) : chain[req[r].db][i] = r
  BY <1>3 DEF ChainInv
<1> QED
  BY <1>2, <1>3 DEF ChainInv

(* Every step keeps ChainInv: a request joins its chain at the end and     *)
(* leaves it from the head, and nothing else has begun.                    *)
LEMMA ChainStep ==
    ASSUME TypeOK, IssuedInv, WireInv, ChainInv, DispatchInv, [Next]_vars
    PROVE  ChainInv'
<1>0. \A k \in Db \cup {0} : \A i \in 1..Len(chain[k]) : chain[k][i] \in Id
  BY DEF TypeOK, WorkerTypeOK
<1>1. CASE UNCHANGED <<chain, run, req>>
  BY <1>1, ChainKept DEF Begun
<1>2. ASSUME NEW op \in {"EXEC", "QUERY"}, NEW d \in Db, Issue(op, d)
      PROVE  ChainInv'
  <2>1. UNCHANGED <<chain, run>>
    BY <1>2 DEF Issue, workerVars
  <2>2. nextId \in Id /\ run[nextId] = "none"
    BY <1>2, MaxIdAssumption DEF Issue, IssuedInv, Issued, Id
  <2>3. \A r \in Id : r # nextId => req'[r] = req[r]
    BY <1>2 DEF Issue, TypeOK, CallTypeOK
  <2>4. \A k \in Db \cup {0} : \A i \in 1..Len(chain[k]) : chain[k][i] # nextId
    BY <2>2 DEF ChainInv
  <2>5. \A r \in Id : run[r] = "queued" \/ Begun(r) => r # nextId
    BY <2>2 DEF Begun
  <2> QED
    BY <1>0, <2>1, <2>3, <2>4, <2>5 DEF ChainInv, Begun
<1>3. CASE DispatchRequest
  <2> DEFINE r == Head(toWorker).id
             k0 == ChainKey(r)
             n == Len(chain[k0])
  <2>1. /\ r \in Id /\ run[r] = "none" /\ req[r] \in Request /\ req' = req
        /\ run' = [run EXCEPT ![r] = "queued"]
        /\ chain' = [chain EXCEPT ![k0] = Append(@, r)]
    BY <1>3, PostedIssued DEF DispatchRequest, goVars, callVars
  <2>2. k0 \in Db \cup {0} /\ k0 = req[r].db
    BY <2>1 DEF ChainKey, Request
  <2> HIDE DEF r, k0
  <2>3. chain[k0] \in Seq(Id) /\ n \in Nat
    BY <2>2 DEF TypeOK, WorkerTypeOK
  <2>4. /\ Len(chain'[k0]) = n + 1
        /\ \A i \in 1..n : chain'[k0][i] = chain[k0][i]
        /\ chain'[k0][n + 1] = r
        /\ \A k \in Db \cup {0} : k # k0 => chain'[k] = chain[k]
    BY <2>1, <2>2, <2>3, AppendFacts DEF TypeOK, WorkerTypeOK
  <2>5. \A k \in Db \cup {0} : \A i \in 1..Len(chain[k]) :
           /\ chain[k][i] # r
           /\ run[chain[k][i]] # "none"
    BY <2>1 DEF ChainInv
  <2>6. \A i \in 1..n : chain[k0][i] < r
    BY <1>0, <2>1, <2>2, <2>5, MaxIdAssumption DEF DispatchInv, Id
  <2>7. \A q \in Id : q # r => run'[q] = run[q]
    BY <2>1 DEF TypeOK, WorkerTypeOK
  <2>8. run'[r] = "queued"
    BY <2>1 DEF TypeOK, WorkerTypeOK
  <2>9. ASSUME NEW k \in Db \cup {0}, NEW i \in 1..Len(chain'[k])
        PROVE  /\ req[chain'[k][i]].db = k
               /\ run'[chain'[k][i]] \in {"queued", "running", "parked", "yielded"}
               /\ i > 1 => run'[chain'[k][i]] = "queued"
               /\ \A j \in 1..Len(chain'[k]) : i < j => chain'[k][i] < chain'[k][j]
    <3>1. CASE k # k0
      BY <1>0, <2>4, <2>5, <2>7, <2>9, <3>1 DEF ChainInv
    <3>2. CASE k = k0 /\ i = n + 1
      BY <2>2, <2>3, <2>4, <2>8, <3>2
    <3>3. CASE k = k0 /\ i \in 1..n
      <4>1. /\ req[chain'[k][i]].db = k
            /\ run'[chain'[k][i]] \in {"queued", "running", "parked", "yielded"}
            /\ i > 1 => run'[chain'[k][i]] = "queued"
        BY <1>0, <2>4, <2>5, <2>7, <3>3 DEF ChainInv
      <4>2. ASSUME NEW j \in 1..Len(chain'[k]), i < j
            PROVE  chain'[k][i] < chain'[k][j]
        <5>1. CASE j \in 1..n
          BY <2>4, <3>3, <4>2, <5>1 DEF ChainInv
        <5>2. CASE j = n + 1
          BY <2>4, <2>6, <3>3, <5>2
        <5> QED
          BY <2>3, <2>4, <3>3, <5>1, <5>2
      <4> QED
        BY <4>1, <4>2
    <3> QED
      BY <2>3, <2>4, <2>9, <3>1, <3>2, <3>3
  <2>10. ASSUME NEW q \in Id, run'[q] = "queued" \/ Begun(q)'
         PROVE  \E i \in 1..Len(chain'[req[q].db]) : chain'[req[q].db][i] = q
    <3>1. CASE q = r
      <4>1. n + 1 \in 1..Len(chain'[k0])
        BY <2>3, <2>4
      <4> QED
        BY <2>2, <2>4, <3>1, <4>1
    <3>2. CASE q # r
      <4>1. run[q] = "queued" \/ Begun(q)
        BY <2>7, <2>10, <3>2 DEF Begun
      <4>2. PICK i \in 1..Len(chain[req[q].db]) : chain[req[q].db][i] = q
        BY <4>1 DEF ChainInv
      <4>3. req[q].db \in Db \cup {0}
        BY DEF TypeOK, CallTypeOK, Request, NoRequest
      <4>4. i \in 1..Len(chain'[req[q].db])
        BY <2>3, <2>4, <4>2, <4>3
      <4> QED
        BY <2>3, <2>4, <4>2, <4>3, <4>4
    <3> QED
      BY <3>1, <3>2
  <2> QED
    BY <2>1, <2>9, <2>10 DEF ChainInv
<1>4. CASE DispatchCredit \/ DispatchAbort
  <2>1. /\ UNCHANGED <<chain, req>>
        /\ run' = run \/ run' = Wake(Head(toWorker).id)
    BY <1>4 DEF DispatchCredit, DispatchAbort, goVars, callVars
  <2> QED
    BY <2>1, ChainKept DEF Wake, Begun, TypeOK, WorkerTypeOK
<1>5. ASSUME NEW k \in Db \cup {0}, StartExec(k) \/ StartQuery(k)
      PROVE  ChainInv'
  <2> DEFINE r == Head(chain[k])
  <2>1. /\ r \in Id /\ AtHead(r) /\ ChainKey(r) = k /\ run[r] = "queued"
        /\ run' = [run EXCEPT ![r] = "running"]
        /\ UNCHANGED <<chain, req>>
    BY <1>5, HeadFacts DEF StartExec, StartQuery, goVars, callVars
  <2> HIDE DEF r
  <2>2. chain[k][1] = r /\ \A q \in Id : q # r => run'[q] = run[q]
    BY <2>1 DEF AtHead, TypeOK, WorkerTypeOK
  <2>3. run'[r] = "running"
    BY <2>1 DEF TypeOK, WorkerTypeOK
  <2>4. ASSUME NEW l \in Db \cup {0}, NEW i \in 1..Len(chain[l])
        PROVE  /\ req[chain[l][i]].db = l
               /\ run'[chain[l][i]] \in {"queued", "running", "parked", "yielded"}
               /\ i > 1 => run'[chain[l][i]] = "queued"
               /\ \A j \in 1..Len(chain[l]) : i < j => chain[l][i] < chain[l][j]
    <3>1. i > 1 => chain[l][i] # r
      <4>1. ASSUME i > 1, chain[l][i] = r PROVE FALSE
        <5>1. l = k
          BY <2>1, <2>4, <4>1 DEF ChainInv, ChainKey
        <5>2. 1 \in 1..Len(chain[k])
          BY <4>1, <5>1
        <5>3. r < r
          BY <2>2, <2>4, <4>1, <5>1, <5>2 DEF ChainInv
        <5> QED
          BY <2>1, <5>3, MaxIdAssumption DEF Id
      <4> QED
        BY <4>1
    <3> QED
      BY <1>0, <2>2, <2>3, <2>4, <3>1 DEF ChainInv
  <2>5. ASSUME NEW q \in Id, run'[q] = "queued" \/ Begun(q)'
        PROVE  \E i \in 1..Len(chain[req[q].db]) : chain[req[q].db][i] = q
    BY <2>1, <2>2, <2>5 DEF ChainInv, Begun
  <2> QED
    BY <2>1, <2>4, <2>5 DEF ChainInv
<1>6. ASSUME NEW r \in Id, EndStep(r)
      PROVE  ChainInv'
  <2> DEFINE k0 == ChainKey(r)
  <2>1. /\ run' = [run EXCEPT ![r] = "done"]
        /\ chain' = [chain EXCEPT ![k0] = Tail(@)]
        /\ req' = req
        /\ k0 \in Db \cup {0} /\ chain[k0] # <<>> /\ chain[k0][1] = r
    BY <1>6 DEF EndStep, Finish, AtHead, goVars, callVars
  <2>2. k0 = req[r].db
    BY DEF ChainKey
  <2> HIDE DEF k0
  <2>3. /\ Len(chain[k0]) \in Nat /\ Len(chain[k0]) >= 1
        /\ Len(chain'[k0]) = Len(chain[k0]) - 1
        /\ \A i \in 1..Len(chain'[k0]) : chain'[k0][i] = chain[k0][i + 1]
        /\ \A k \in Db \cup {0} : k # k0 => chain'[k] = chain[k]
    <3>1. chain[k0] \in Seq(Id)
      BY <2>1 DEF TypeOK, WorkerTypeOK
    <3>2. chain'[k0] = Tail(chain[k0])
      BY <2>1 DEF TypeOK, WorkerTypeOK
    <3>3. \A k \in Db \cup {0} : k # k0 => chain'[k] = chain[k]
      BY <2>1 DEF TypeOK, WorkerTypeOK
    <3>4. /\ Len(chain[k0]) \in Nat /\ Len(chain[k0]) >= 1
          /\ Len(Tail(chain[k0])) = Len(chain[k0]) - 1
          /\ \A i \in 1..Len(Tail(chain[k0])) :
                Tail(chain[k0])[i] = chain[k0][i + 1]
      BY <2>1, <3>1, TailFacts
    <3> QED
      BY <3>2, <3>3, <3>4
  <2>4. \A q \in Id : q # r => run'[q] = run[q]
    BY <2>1 DEF TypeOK, WorkerTypeOK
  <2>5. run'[r] = "done"
    BY <2>1 DEF TypeOK, WorkerTypeOK
  <2>6. \A i \in 1..Len(chain[k0]) : i > 1 => r < chain[k0][i] /\ chain[k0][i] # r
    <3>1. ASSUME NEW i \in 1..Len(chain[k0]), i > 1
          PROVE  r < chain[k0][i]
      BY <2>1, <2>3, <3>1 DEF ChainInv
    <3> QED
      BY <1>0, <2>1, <3>1, MaxIdAssumption DEF Id
  <2>7. \A i \in 1..Len(chain'[k0]) : i + 1 \in 1..Len(chain[k0]) /\ i + 1 > 1
    BY <2>3
  <2>8. ASSUME NEW k \in Db \cup {0}, NEW i \in 1..Len(chain'[k])
        PROVE  /\ req[chain'[k][i]].db = k
               /\ run'[chain'[k][i]] \in {"queued", "running", "parked", "yielded"}
               /\ i > 1 => run'[chain'[k][i]] = "queued"
               /\ \A j \in 1..Len(chain'[k]) : i < j => chain'[k][i] < chain'[k][j]
    <3>1. CASE k = k0
      <4>1. /\ chain'[k][i] = chain[k0][i + 1] /\ chain[k0][i + 1] # r
            /\ chain[k0][i + 1] \in Id
        BY <1>0, <2>1, <2>3, <2>6, <2>7, <3>1
      <4>2. /\ req[chain[k0][i + 1]].db = k0
            /\ run[chain[k0][i + 1]] = "queued"
        BY <2>1, <2>7, <3>1 DEF ChainInv
      <4>3. ASSUME NEW j \in 1..Len(chain'[k]), i < j
            PROVE  chain'[k][i] < chain'[k][j]
        <5>1. i + 1 < j + 1
          BY <4>3
        <5> QED
          BY <2>1, <2>3, <2>7, <3>1, <4>3, <5>1 DEF ChainInv
      <4> QED
        BY <2>4, <3>1, <4>1, <4>2, <4>3
    <3>2. CASE k # k0
      <4>1. chain'[k] = chain[k]
        BY <2>3, <3>2
      <4>2. chain[k][i] # r
        BY <2>2, <2>8, <3>2, <4>1 DEF ChainInv
      <4> QED
        BY <1>0, <2>4, <2>8, <4>1, <4>2 DEF ChainInv
    <3> QED
      BY <3>1, <3>2
  <2>9. ASSUME NEW q \in Id, run'[q] = "queued" \/ Begun(q)'
        PROVE  \E i \in 1..Len(chain'[req[q].db]) : chain'[req[q].db][i] = q
    <3>1. q # r /\ (run[q] = "queued" \/ Begun(q))
      BY <2>4, <2>5, <2>9 DEF Begun
    <3>2. PICK i \in 1..Len(chain[req[q].db]) : chain[req[q].db][i] = q
      BY <3>1 DEF ChainInv
    <3>3. CASE req[q].db = k0
      <4>1. i # 1
        BY <2>1, <3>1, <3>2, <3>3
      <4>2. i - 1 \in 1..Len(chain'[k0]) /\ (i - 1) + 1 = i
        BY <2>3, <3>2, <3>3, <4>1
      <4> QED
        BY <2>3, <3>2, <3>3, <4>2
    <3>4. CASE req[q].db # k0
      <4>1. req[q].db \in Db \cup {0}
        BY DEF TypeOK, CallTypeOK, Request, NoRequest
      <4> QED
        BY <2>3, <3>2, <3>4, <4>1
    <3> QED
      BY <3>3, <3>4
  <2>10. req' = req
    BY <2>1
  <2> QED
    BY <2>8, <2>9, <2>10 DEF ChainInv
<1>7. ASSUME NEW r \in Id, NEW n \in 1..MaxRows, Flush(r, n)
      PROVE  ChainInv'
  <2>1. /\ UNCHANGED <<chain, req>> /\ run[r] = "running"
        /\ run' = [run EXCEPT ![r] = "parked"] \/ run' = [run EXCEPT ![r] = "yielded"]
    BY <1>7 DEF Flush, goVars, callVars
  <2> QED
    BY <2>1, ChainKept DEF Begun, TypeOK, WorkerTypeOK
<1>8. CASE Resume
  <2>1. /\ UNCHANGED <<chain, req>>
        /\ \A r \in Id : run'[r] = IF run[r] = "yielded" THEN "running" ELSE run[r]
    BY <1>8 DEF Resume, goVars, callVars
  <2> QED
    BY <2>1, ChainKept DEF Begun
<1>9. ASSUME \/ Receive
             \/ \E q \in Id :
                   \/ CtxDone(q) \/ WatchStore(q) \/ WatchStop(q)
                   \/ TakeReply(q) \/ TakeRows(q) \/ TakeFailure(q) \/ CtxReturn(q)
                   \/ NextRow(q) \/ NextBatch(q) \/ NextEnd(q) \/ Close(q)
             \/ UNCHANGED vars
      PROVE  UNCHANGED <<chain, run, req>>
  BY <1>9 DEF Receive, CtxDone, WatchStore, WatchStop, TakeReply, TakeRows,
     TakeFailure, CtxReturn, NextRow, NextBatch, NextEnd, Close, vars, goVars,
     callVars, workerVars
<1> QED
  BY <1>1, <1>2, <1>3, <1>4, <1>5, <1>6, <1>7, <1>8, <1>9, NextCases

(* Every step keeps DispatchInv: requests are dispatched as they came.     *)
LEMMA DispatchStep ==
    ASSUME TypeOK, IssuedInv, WireInv, ChainInv, DispatchInv, [Next]_vars
    PROVE  DispatchInv'
<1>1. CASE DispatchRequest
  <2> DEFINE r == Head(toWorker).id
  <2>1. /\ r \in Id /\ Issued(r)
        /\ run' = [run EXCEPT ![r] = "queued"]
    BY <1>1, PostedIssued DEF DispatchRequest
  <2>2. /\ Head(toWorker) = toWorker[1] /\ 1 \in 1..Len(toWorker)
        /\ Requests(toWorker[1])
    BY <1>1, TailFacts DEF DispatchRequest, TypeOK, SharedTypeOK, Requests
  <2>3. ASSUME NEW q \in Id, q < r
        PROVE  run[q] # "none"
    <3>1. Issued(q)
      BY <2>1, <2>3, MaxIdAssumption DEF Issued, Id, TypeOK, CallTypeOK
    <3>2. ASSUME run[q] = "none" PROVE FALSE
      <4>1. PICK i \in 1..Len(toWorker) : toWorker[i] = Frame(req[q].op, q)
        BY <3>1, <3>2 DEF WireInv
      <4>2. req[q] \in Request
        BY <3>1 DEF IssuedInv, TypeOK, CallTypeOK
      <4>3. Requests(toWorker[i]) /\ toWorker[i].id = q
        BY <4>1, <4>2 DEF Requests, Frame, Request
      <4>4. CASE i = 1
        BY <2>1, <2>2, <2>3, <4>3, <4>4, MaxIdAssumption DEF Id
      <4>5. CASE 1 < i
        <5>1. r < q
          BY <2>2, <4>3, <4>5 DEF WireInv
        <5> QED
          BY <2>1, <2>3, <5>1, MaxIdAssumption DEF Id
      <4> QED
        BY <4>4, <4>5
    <3> QED
      BY <3>2
  <2> QED
    BY <2>1, <2>3 DEF DispatchInv, TypeOK, WorkerTypeOK
<1>2. CASE ~ DispatchRequest
  <2>1. \A r \in Id : run'[r] = "none" <=> run[r] = "none"
    BY <1>2, UndispatchedStep
  <2> QED
    BY <2>1 DEF DispatchInv
<1> QED
  BY <1>1, <1>2

(* Whatever precedes the head of a chain on its database is done.          *)
LEMMA HeadInOrder ==
    ASSUME TypeOK, ChainInv, DispatchInv, NEW r \in Id, AtHead(r),
           NEW q \in Id, q < r, req[q].db = req[r].db
    PROVE  run[q] = "done"
<1> DEFINE k == ChainKey(r)
<1>1. /\ k \in Db \cup {0} /\ k = req[r].db /\ chain[k][1] = r
      /\ chain[k] \in Seq(Id) /\ chain[k] # <<>>
  BY DEF AtHead, ChainKey, TypeOK, WorkerTypeOK
<1>2. 1 \in 1..Len(chain[k])
  BY <1>1
<1>3. run[r] # "none"
  BY <1>1, <1>2 DEF ChainInv
<1>4. run[q] # "none"
  BY <1>3 DEF DispatchInv
<1>5. ASSUME run[q] = "queued" \/ Begun(q) PROVE FALSE
  <2>1. PICK i \in 1..Len(chain[k]) : chain[k][i] = q
    BY <1>1, <1>5 DEF ChainInv
  <2>2. i # 1
    BY <1>1, <2>1, MaxIdAssumption DEF Id
  <2>3. r < q
    BY <1>1, <1>2, <2>1, <2>2 DEF ChainInv
  <2> QED
    BY <2>3, MaxIdAssumption DEF Id
<1> QED
  BY <1>4, <1>5 DEF Begun, TypeOK, WorkerTypeOK

(* A step after which InOrder speaks of no new request keeps it.           *)
LEMMA InOrderKept ==
    ASSUME InOrder, UNCHANGED req,
           \A r \in Id : /\ Begun(r)' \/ run'[r] = "done"
                            => Begun(r) \/ run[r] = "done"
                         /\ run[r] = "done" => run'[r] = "done"
    PROVE  InOrder'
BY DEF InOrder, Begun

(* Every step keeps InOrder: a request begins at the head of its chain,    *)
(* when all that preceded it on its database is done.                      *)
LEMMA InOrderStep ==
    ASSUME TypeOK, IssuedInv, WireInv, ChainInv, DispatchInv, InOrder, [Next]_vars
    PROVE  InOrder'
<1>1. CASE UNCHANGED <<run, req>>
  BY <1>1, InOrderKept DEF Begun
<1>2. ASSUME NEW op \in {"EXEC", "QUERY"}, NEW d \in Db, Issue(op, d)
      PROVE  InOrder'
  <2>1. /\ nextId \in Id /\ UNCHANGED run
        /\ \A r \in Id : r # nextId => req'[r] = req[r]
    BY <1>2 DEF Issue, workerVars, TypeOK, CallTypeOK
  <2>2. \A r \in Id : r >= nextId => run[r] = "none"
    BY <2>1, MaxIdAssumption DEF IssuedInv, Issued, Id
  <2>3. ASSUME NEW q \in Id, NEW r \in Id, q < r, req'[q].db = req'[r].db,
               run[r] \in {"running", "parked", "yielded", "done"}
        PROVE  run[q] = "done"
    <3>1. r < nextId /\ q < nextId
      BY <2>1, <2>2, <2>3, MaxIdAssumption DEF Id
    <3>2. r # nextId /\ q # nextId
      BY <2>1, <3>1, MaxIdAssumption DEF Id
    <3> QED
      BY <2>1, <2>3, <3>2 DEF InOrder
  <2> QED
    BY <2>1, <2>3 DEF InOrder
<1>3. CASE DispatchRequest
  <2>1. /\ Head(toWorker).id \in Id /\ run[Head(toWorker).id] = "none"
        /\ run' = [run EXCEPT ![Head(toWorker).id] = "queued"] /\ req' = req
    BY <1>3, PostedIssued DEF DispatchRequest, goVars, callVars
  <2> QED
    BY <2>1, InOrderKept DEF Begun, TypeOK, WorkerTypeOK
<1>4. CASE DispatchCredit \/ DispatchAbort
  <2>1. /\ req' = req
        /\ run' = run \/ run' = Wake(Head(toWorker).id)
    BY <1>4 DEF DispatchCredit, DispatchAbort, goVars, callVars
  <2> QED
    BY <2>1, InOrderKept DEF Wake, Begun, TypeOK, WorkerTypeOK
<1>5. ASSUME NEW r \in Id, AtHead(r), run[r] \in {"queued", "running"},
             UNCHANGED req,
             \E s \in {"running", "done"} : run' = [run EXCEPT ![r] = s]
      PROVE  InOrder'
  <2>1. /\ \A p \in Id : p # r => run'[p] = run[p]
        /\ run'[r] \in {"running", "done"}
    BY <1>5 DEF TypeOK, WorkerTypeOK
  <2>2. ASSUME NEW q \in Id, NEW p \in Id, q < p, req[q].db = req[p].db,
               run'[p] \in {"running", "parked", "yielded", "done"}
        PROVE  run'[q] = "done"
    <3>1. run[q] = "done"
      <4>1. CASE p = r
        BY <1>5, <2>2, <4>1, HeadInOrder
      <4>2. CASE p # r
        BY <2>1, <2>2, <4>2 DEF InOrder
      <4> QED
        BY <4>1, <4>2
    <3>2. q # r
      BY <1>5, <3>1
    <3> QED
      BY <2>1, <3>1, <3>2
  <2> QED
    BY <1>5, <2>2 DEF InOrder
<1>6. ASSUME NEW k \in Db \cup {0}, StartExec(k) \/ StartQuery(k)
      PROVE  InOrder'
  <2>1. /\ Head(chain[k]) \in Id /\ AtHead(Head(chain[k]))
        /\ run[Head(chain[k])] = "queued"
        /\ run' = [run EXCEPT ![Head(chain[k])] = "running"]
        /\ UNCHANGED req
    BY <1>6, HeadFacts DEF StartExec, StartQuery, goVars, callVars
  <2> QED
    BY <2>1, <1>5
<1>7. ASSUME NEW r \in Id, EndStep(r)
      PROVE  InOrder'
  <2>1. /\ AtHead(r) /\ run[r] \in {"queued", "running"} /\ UNCHANGED req
        /\ run' = [run EXCEPT ![r] = "done"]
    BY <1>7 DEF EndStep, Finish, goVars, callVars
  <2> QED
    BY <2>1, <1>5
<1>8. ASSUME NEW r \in Id, NEW n \in 1..MaxRows, Flush(r, n)
      PROVE  InOrder'
  <2>1. /\ req' = req /\ run[r] = "running"
        /\ run' = [run EXCEPT ![r] = "parked"] \/ run' = [run EXCEPT ![r] = "yielded"]
    BY <1>8 DEF Flush, goVars, callVars
  <2> QED
    BY <2>1, InOrderKept DEF Begun, TypeOK, WorkerTypeOK
<1>9. CASE Resume
  <2>1. /\ req' = req
        /\ \A r \in Id : run'[r] = IF run[r] = "yielded" THEN "running" ELSE run[r]
    BY <1>9 DEF Resume, goVars, callVars
  <2> QED
    BY <2>1, InOrderKept DEF Begun
<1>10. ASSUME \/ Receive
              \/ \E q \in Id :
                    \/ CtxDone(q) \/ WatchStore(q) \/ WatchStop(q)
                    \/ TakeReply(q) \/ TakeRows(q) \/ TakeFailure(q) \/ CtxReturn(q)
                    \/ NextRow(q) \/ NextBatch(q) \/ NextEnd(q) \/ Close(q)
              \/ UNCHANGED vars
       PROVE  UNCHANGED <<run, req>>
  BY <1>10 DEF Receive, CtxDone, WatchStore, WatchStop, TakeReply, TakeRows,
     TakeFailure, CtxReturn, NextRow, NextBatch, NextEnd, Close, vars, goVars,
     callVars, workerVars
<1> QED
  BY <1>1, <1>2, <1>3, <1>4, <1>6, <1>7, <1>8, <1>9, <1>10, NextCases

-----------------------------------------------------------------------------
(* Aborts.                                                                 *)

(* Every step keeps EarlyInv: an abort is applied to a stream that has     *)
(* begun and remembered otherwise, once.                                   *)
LEMMA EarlyStep ==
    ASSUME TypeOK, IssuedInv, WireInv, ChainInv, EarlyInv, [Next]_vars
    PROVE  EarlyInv'
<1>0. /\ early \in Seq(Id) /\ Len(early) <= MaxEarlyAborts
      /\ \A i, j \in 1..Len(early) : early[i] = early[j] => i = j
  BY DEF TypeOK, WorkerTypeOK, EarlyInv
<1>1. CASE UNCHANGED <<run, req, aborted, early>>
  BY <1>1 DEF EarlyInv, Begun, Streaming, InEarly
<1>2. ASSUME NEW op \in {"EXEC", "QUERY"}, NEW d \in Db, Issue(op, d)
      PROVE  EarlyInv'
  <2>1. /\ run' = run /\ aborted' = aborted /\ early' = early
        /\ \A r \in Id : run[r] # "none" => req'[r] = req[r]
    <3>1. nextId \in Id /\ run[nextId] = "none"
      BY <1>2, MaxIdAssumption DEF Issue, IssuedInv, Issued, Id
    <3> QED
      BY <1>2, <3>1 DEF Issue, workerVars, TypeOK, CallTypeOK
  <2>2. \A r \in Id : Streaming(r)' => ~ InEarly(r)'
    BY <2>1 DEF EarlyInv, Streaming, InEarly
  <2>3. \A r \in Id : run'[r] = "parked" => req'[r].op = "QUERY" /\ ~ aborted'[r]
    BY <2>1 DEF EarlyInv
  <2>4. \A r \in Id : aborted'[r] => Begun(r)' \/ run'[r] = "done"
    BY <2>1 DEF EarlyInv, Begun
  <2> QED
    BY <1>0, <2>1, <2>2, <2>3, <2>4 DEF EarlyInv
<1>3. CASE DispatchRequest
  <2>1. /\ Head(toWorker).id \in Id /\ run[Head(toWorker).id] = "none"
        /\ run' = [run EXCEPT ![Head(toWorker).id] = "queued"]
        /\ UNCHANGED <<req, aborted, early>>
    BY <1>3, PostedIssued DEF DispatchRequest, goVars, callVars
  <2> QED
    BY <2>1 DEF EarlyInv, Begun, Streaming, InEarly, TypeOK, WorkerTypeOK
<1>4. CASE DispatchCredit
  <2>1. /\ UNCHANGED <<req, aborted, early>>
        /\ run' = run \/ run' = Wake(Head(toWorker).id)
    BY <1>4 DEF DispatchCredit, goVars, callVars
  <2> QED
    BY <2>1 DEF EarlyInv, Begun, Streaming, InEarly, Wake, TypeOK, WorkerTypeOK
<1>5. CASE DispatchAbort
  <2> DEFINE r == Head(toWorker).id
  <2>1. r \in Id
    <3>1. Head(toWorker) \in ToWorker
      BY <1>5, TailFacts DEF DispatchAbort, TypeOK, SharedTypeOK
    <3> QED
      BY <3>1 DEF ToWorker
  <2> HIDE DEF r
  <2>2. CASE Streaming(r)
    <3>1. /\ UNCHANGED <<req, early>> /\ run' = Wake(r)
          /\ aborted' = [aborted EXCEPT ![r] = TRUE]
      BY <1>5, <2>2 DEF DispatchAbort, goVars, callVars, r
    <3>2. /\ \A q \in Id : q # r => run'[q] = run[q] /\ aborted'[q] = aborted[q]
          /\ run'[r] \in {"running", "yielded"}
      BY <2>1, <2>2, <3>1 DEF Wake, Streaming, TypeOK, WorkerTypeOK
    <3>3. \A q \in Id : Streaming(q)' => ~ InEarly(q)'
      BY <2>2, <3>1, <3>2 DEF EarlyInv, Streaming, InEarly
    <3>4. \A q \in Id : run'[q] = "parked" => req'[q].op = "QUERY" /\ ~ aborted'[q]
      BY <3>1, <3>2 DEF EarlyInv
    <3>5. \A q \in Id : aborted'[q] => Begun(q)' \/ run'[q] = "done"
      BY <3>2 DEF EarlyInv, Begun
    <3> QED
      BY <1>0, <3>1, <3>3, <3>4, <3>5 DEF EarlyInv
  <2>3. CASE ~ Streaming(r)
    <3>1. UNCHANGED <<req, run, aborted>> /\ early' = Remember(early, r)
      BY <1>5, <2>3 DEF DispatchAbort, goVars, callVars, r
    <3>2. /\ \A i, j \in 1..Len(early') : early'[i] = early'[j] => i = j
          /\ \A i \in 1..Len(early') :
                early'[i] = r \/ \E j \in 1..Len(early) : early[j] = early'[i]
      BY <1>0, <2>1, <3>1, RememberFacts
    <3>3. \A q \in Id : InEarly(q)' => q = r \/ InEarly(q)
      BY <3>2 DEF InEarly
    <3>4. \A q \in Id : Streaming(q)' <=> Streaming(q)
      BY <3>1 DEF Streaming
    <3> QED
      BY <2>3, <3>1, <3>2, <3>3, <3>4 DEF EarlyInv, Begun
  <2> QED
    BY <2>2, <2>3
<1>6. ASSUME NEW k \in Db \cup {0}, StartExec(k)
      PROVE  EarlyInv'
  <2>1. /\ Head(chain[k]) \in Id /\ req[Head(chain[k])].op = "EXEC"
        /\ run' = [run EXCEPT ![Head(chain[k])] = "running"]
        /\ UNCHANGED <<req, aborted, early>>
    BY <1>6, HeadFacts DEF StartExec, goVars, callVars
  <2> QED
    BY <2>1 DEF EarlyInv, Begun, Streaming, InEarly, TypeOK, WorkerTypeOK
<1>7. ASSUME NEW r \in Id, early' = Forget(early, r), UNCHANGED req,
             \/ run' = [run EXCEPT ![r] = "done"] /\ UNCHANGED aborted
             \/ run' = [run EXCEPT ![r] = "running"]
                /\ aborted' = [aborted EXCEPT ![r] = InEarly(r)]
      PROVE  EarlyInv'
  <2> DEFINE s == Forget(early, r)
  <2>0. /\ s \in Seq(Id)
        /\ Len(s) <= Len(early)
        /\ \A x : (\E i \in 1..Len(s) : s[i] = x)
                  <=> x # r /\ \E i \in 1..Len(early) : early[i] = x
        /\ \A i, j \in 1..Len(s) : s[i] = s[j] => i = j
    <3>1. early \in Seq(Id) /\ \A i, j \in 1..Len(early) : early[i] = early[j] => i = j
      BY <1>0
    <3>2. s \in Seq(Id) /\ Len(s) <= Len(early) /\ Forgot(s, early, r)
      BY <3>1, ForgetFacts
    <3> QED
      BY <3>2 DEF Forgot
  <2> HIDE DEF s
  <2>1. /\ \A i, j \in 1..Len(early') : early'[i] = early'[j] => i = j
        /\ \A x : (\E i \in 1..Len(early') : early'[i] = x)
                  <=> x # r /\ \E i \in 1..Len(early) : early[i] = x
    <3>1. early' = s
      BY <1>7 DEF s
    <3> QED
      BY <2>0, <3>1
  <2>2. \A q \in Id : InEarly(q)' <=> q # r /\ InEarly(q)
    BY <2>1 DEF InEarly
  <2>3. \A q \in Id : q # r => run'[q] = run[q] /\ aborted'[q] = aborted[q]
    BY <1>7 DEF TypeOK, WorkerTypeOK
  <2>4. run'[r] \in {"running", "done"}
    BY <1>7 DEF TypeOK, WorkerTypeOK
  <2>5. \A q \in Id : Streaming(q)' => ~ InEarly(q)'
    BY <1>7, <2>2, <2>3 DEF EarlyInv, Streaming
  <2>6. \A q \in Id : run'[q] = "parked" => req'[q].op = "QUERY" /\ ~ aborted'[q]
    BY <1>7, <2>3, <2>4 DEF EarlyInv
  <2>7. \A q \in Id : aborted'[q] => Begun(q)' \/ run'[q] = "done"
    BY <2>3, <2>4 DEF EarlyInv, Begun
  <2> QED
    BY <2>1, <2>5, <2>6, <2>7 DEF EarlyInv
<1>8. ASSUME NEW k \in Db \cup {0}, StartQuery(k)
      PROVE  EarlyInv'
  <2>1. /\ Head(chain[k]) \in Id
        /\ early' = Forget(early, Head(chain[k]))
        /\ run' = [run EXCEPT ![Head(chain[k])] = "running"]
        /\ aborted' = [aborted EXCEPT ![Head(chain[k])] = InEarly(Head(chain[k]))]
        /\ UNCHANGED req
    BY <1>8, HeadFacts DEF StartQuery, goVars, callVars
  <2> QED
    BY <2>1, <1>7
<1>9. ASSUME NEW r \in Id, EndStep(r)
      PROVE  EarlyInv'
  <2>1. /\ early' = Forget(early, r) /\ UNCHANGED <<req, aborted>>
        /\ run' = [run EXCEPT ![r] = "done"]
    BY <1>9 DEF EndStep, Finish, goVars, callVars
  <2> QED
    BY <2>1, <1>7
<1>10. ASSUME NEW r \in Id, NEW n \in 1..MaxRows, Flush(r, n)
       PROVE  EarlyInv'
  <2>1. /\ run[r] = "running" /\ req[r].op = "QUERY" /\ ~ aborted[r]
        /\ run' = [run EXCEPT ![r] = "parked"] \/ run' = [run EXCEPT ![r] = "yielded"]
        /\ UNCHANGED <<req, aborted, early>>
    BY <1>10 DEF Flush, goVars, callVars
  <2> QED
    BY <2>1 DEF EarlyInv, Begun, Streaming, InEarly, TypeOK, WorkerTypeOK
<1>11. CASE Resume
  <2>1. /\ \A r \in Id : run'[r] = IF run[r] = "yielded" THEN "running" ELSE run[r]
        /\ UNCHANGED <<req, aborted, early>>
    BY <1>11 DEF Resume, goVars, callVars
  <2> QED
    BY <2>1 DEF EarlyInv, Begun, Streaming, InEarly
<1>12. ASSUME \/ Receive
              \/ \E q \in Id :
                    \/ CtxDone(q) \/ WatchStore(q) \/ WatchStop(q)
                    \/ TakeReply(q) \/ TakeRows(q) \/ TakeFailure(q) \/ CtxReturn(q)
                    \/ NextRow(q) \/ NextBatch(q) \/ NextEnd(q) \/ Close(q)
              \/ UNCHANGED vars
       PROVE  UNCHANGED <<run, req, aborted, early>>
  BY <1>12 DEF Receive, CtxDone, WatchStore, WatchStop, TakeReply, TakeRows,
     TakeFailure, CtxReturn, NextRow, NextBatch, NextEnd, Close, vars, goVars,
     callVars, workerVars
<1> QED
  BY <1>1, <1>2, <1>3, <1>4, <1>5, <1>6, <1>8, <1>9, <1>10, <1>11, <1>12,
     NextCases

-----------------------------------------------------------------------------
(* The first theorems.                                                     *)

(* The invariant holds before the first request.                           *)
LEMMA OrderInit == Init => OrderIInv
<1> SUFFICES ASSUME Init PROVE OrderIInv
  OBVIOUS
<1> USE DEF Init
<1>1. TypeOK
  <2>1. 1 \in 1..Len(BatchTargets)
    BY TargetsAssumption
  <2>2. \A S : <<>> \in Seq(S)
    OBVIOUS
  <2>3. CallTypeOK
    BY <2>2, MaxIdAssumption DEF CallTypeOK
  <2>4. ReadTypeOK /\ RowTypeOK
    BY <2>1, RowsAssumption DEF ReadTypeOK, RowTypeOK
  <2>5. SharedTypeOK /\ WorkerTypeOK
    BY <2>2, EarlyAssumption DEF SharedTypeOK, WorkerTypeOK
  <2> QED
    BY <2>3, <2>4, <2>5 DEF TypeOK
<1>2. \A r \in Id : ~ Issued(r)
  BY MaxIdAssumption DEF Issued, Id
<1>3. IssuedInv /\ WireInv
  BY <1>2 DEF IssuedInv, WireInv
<1>4. ChainInv /\ DispatchInv
  BY DEF ChainInv, DispatchInv, Begun
<1>5. InOrder /\ EarlyInv
  BY DEF InOrder, EarlyInv, Begun, Streaming
<1> QED
  BY <1>1, <1>3, <1>4, <1>5 DEF OrderIInv

(* OrderIInv is inductive: it holds in every state the protocol reaches,   *)
(* for any number of requests, databases, credits and rows.                *)
THEOREM OrderInvariant == Spec => []OrderIInv
<1>1. OrderIInv /\ [Next]_vars => OrderIInv'
  BY TypeStep, IssuedStep, WireStep, ChainStep, DispatchStep, InOrderStep,
     EarlyStep DEF OrderIInv
<1> QED
  BY OrderInit, <1>1, PTL DEF Spec

(* Every variable keeps its type, and the worker never remembers more than *)
(* MAX_EARLY_ABORTS early aborts.                                          *)
THEOREM TypeCorrect == Spec => []TypeOK
<1>1. OrderIInv => TypeOK
  BY DEF OrderIInv
<1> QED
  BY <1>1, OrderInvariant, PTL

(* The requests of a database execute one at a time, in the order issued,  *)
(* for any number of requests and databases: the chains of dispatch.       *)
THEOREM RequestsInOrder == Spec => []InOrder
<1>1. OrderIInv => InOrder
  BY DEF OrderIInv
<1> QED
  BY <1>1, OrderInvariant, PTL

-----------------------------------------------------------------------------
(* No stream waits for ever on a reader that is gone, provided the worker  *)
(* has room to remember every abort.                                       *)

(* A sequence of distinct ids that lacks one is shorter than MaxId.        *)
LEMMA PigeonHole ==
    ASSUME NEW s \in Seq(Id), NEW r \in Id,
           \A i, j \in 1..Len(s) : s[i] = s[j] => i = j,
           \A i \in 1..Len(s) : s[i] # r
    PROVE  Len(s) < MaxId
<1> DEFINE t == Append(s, r)
           n == Len(s) + 1
<1>1. /\ t \in Seq(Id) /\ Len(t) = n /\ Len(s) \in Nat /\ n \in Nat
      /\ \A i \in 1..Len(s) : t[i] = s[i]
      /\ t[n] = r
  BY AppendFacts
<1> HIDE DEF t
<1>2. t \in [1..n -> Id]
  BY <1>1
<1>3. ASSUME NEW i \in 1..n, NEW j \in 1..n, i # j
      PROVE  t[i] # t[j]
  <2>1. CASE i \in 1..Len(s) /\ j \in 1..Len(s)
    BY <1>1, <1>3, <2>1
  <2>2. CASE i = n \/ j = n
    BY <1>1, <1>3, <2>2
  <2> QED
    BY <1>1, <2>1, <2>2
<1>4. /\ IsFiniteSet(1..n) /\ Cardinality(1..n) = n
      /\ IsFiniteSet(Id) /\ Cardinality(Id) = MaxId
  <2>1. n > 0 /\ n \in Int /\ MaxId \in Int /\ n - 1 + 1 = n /\ MaxId - 1 + 1 = MaxId
    BY <1>1, MaxIdAssumption
  <2>2. /\ IsFiniteSet(1..n) /\ Cardinality(1..n) = IF 1 > n THEN 0 ELSE n - 1 + 1
        /\ IsFiniteSet(Id)
        /\ Cardinality(Id) = IF 1 > MaxId THEN 0 ELSE MaxId - 1 + 1
    BY <2>1, FS_Interval DEF Id
  <2>3. 1 > MaxId => MaxId = 0
    BY MaxIdAssumption
  <2> QED
    BY <2>1, <2>2, <2>3
<1>5. ~ (Cardinality(Id) < Cardinality(1..n))
  BY <1>2, <1>3, <1>4, FS_PigeonHole
<1> QED
  BY <1>1, <1>4, <1>5, MaxIdAssumption

(* With room enough rememberAbort evicts nothing.                          *)
LEMMA NothingEvicted ==
    ASSUME MaxEarlyAborts >= MaxId, NEW s \in Seq(Id), NEW r \in Id,
           \A i, j \in 1..Len(s) : s[i] = s[j] => i = j
    PROVE  \A x : (\E i \in 1..Len(Remember(s, r)) : Remember(s, r)[i] = x)
                  <=> x = r \/ \E i \in 1..Len(s) : s[i] = x
<1>1. CASE \E i \in 1..Len(s) : s[i] = r
  BY <1>1 DEF Remember
<1>2. CASE ~ \E i \in 1..Len(s) : s[i] = r
  <2> DEFINE t == Append(s, r)
  <2>1. Len(s) < MaxId
    BY <1>2, PigeonHole
  <2>2. Remember(s, r) = t
    BY <1>2, <2>1, MaxIdAssumption, EarlyAssumption DEF Remember
  <2>3. /\ Len(t) = Len(s) + 1 /\ Len(s) \in Nat
        /\ \A i \in 1..Len(s) : t[i] = s[i]
        /\ t[Len(s) + 1] = r
    BY AppendFacts
  <2> HIDE DEF t
  <2>4. Len(s) + 1 \in 1..Len(t) /\ \A i \in 1..Len(s) : i \in 1..Len(t)
    BY <2>3
  <2>5. \A i \in 1..Len(t) : i \in 1..Len(s) \/ i = Len(s) + 1
    BY <2>3
  <2> QED
    BY <2>2, <2>3, <2>4, <2>5
<1> QED
  BY <1>1, <1>2

(* What the worker has done stays done.                                    *)
LEMMA DoneKept ==
    ASSUME TypeOK, IssuedInv, WireInv, ChainInv, [Next]_vars, NEW r \in Id,
           run[r] = "done"
    PROVE  run'[r] = "done"
<1> USE DEF TypeOK, WorkerTypeOK
<1>1. CASE DispatchRequest
  BY <1>1, PostedIssued DEF DispatchRequest
<1>2. CASE DispatchCredit \/ DispatchAbort
  BY <1>2 DEF DispatchCredit, DispatchAbort, Wake
<1>3. ASSUME NEW k \in Db \cup {0}, StartExec(k) \/ StartQuery(k)
      PROVE  run'[r] = "done"
  BY <1>3, HeadFacts DEF StartExec, StartQuery
<1>4. ASSUME NEW q \in Id, EndStep(q)
      PROVE  run'[r] = "done"
  BY <1>4 DEF EndStep, Finish
<1>5. ASSUME NEW q \in Id, NEW n \in 1..MaxRows, Flush(q, n)
      PROVE  run'[r] = "done"
  BY <1>5 DEF Flush
<1>6. CASE Resume
  BY <1>6 DEF Resume
<1>7. ASSUME \/ \E op \in {"EXEC", "QUERY"}, d \in Db : Issue(op, d)
             \/ Receive
             \/ \E q \in Id :
                   \/ CtxDone(q) \/ WatchStore(q) \/ WatchStop(q)
                   \/ TakeReply(q) \/ TakeRows(q) \/ TakeFailure(q) \/ CtxReturn(q)
                   \/ NextRow(q) \/ NextBatch(q) \/ NextEnd(q) \/ Close(q)
             \/ UNCHANGED vars
      PROVE  UNCHANGED run
  BY <1>7 DEF Issue, Receive, CtxDone, WatchStore, WatchStop, TakeReply,
     TakeRows, TakeFailure, CtxReturn, NextRow, NextBatch, NextEnd, Close, vars,
     workerVars
<1> QED
  BY <1>1, <1>2, <1>3, <1>4, <1>5, <1>6, <1>7, NextCases

(* Every step keeps TerminalInv: a terminal frame is posted when the       *)
(* worker is done with its request, and only then.                         *)
LEMMA TerminalStep ==
    ASSUME TypeOK, IssuedInv, WireInv, ChainInv, TerminalInv, [Next]_vars
    PROVE  TerminalInv'
<1>0. /\ \A r \in Id : run[r] = "done" => run'[r] = "done"
      /\ \A i \in 1..Len(toGo) : toGo[i] \in ToGo
      /\ \A r \in Id : \A i \in 1..Len(frames[r]) : frames[r][i] \in ToGo
  BY DoneKept DEF TypeOK, CallTypeOK, SharedTypeOK
<1>1. \A f \in ToGo : FrameOK(f, run) => FrameOK(f, run')
  <2>1. \A f \in ToGo : f.id \in Id
    BY DEF ToGo
  <2> QED
    BY <1>0, <2>1 DEF FrameOK
<1>2. CASE UNCHANGED <<toGo, frames, eof>>
  BY <1>0, <1>1, <1>2 DEF TerminalInv
<1>3. CASE Receive
  <2> DEFINE f == Head(toGo)
  <2>1. /\ f = toGo[1] /\ 1 \in 1..Len(toGo) /\ f \in ToGo
        /\ Len(toGo') = Len(toGo) - 1
        /\ \A i \in 1..Len(toGo') : toGo'[i] = toGo[i + 1]
        /\ \A i \in 1..Len(toGo') : i + 1 \in 1..Len(toGo)
    BY <1>3, TailFacts DEF Receive, TypeOK, SharedTypeOK
  <2>2. FrameOK(f, run') /\ f.id \in Id
    <3>1. FrameOK(toGo[1], run)
      BY <2>1 DEF TerminalInv
    <3> HIDE DEF f
    <3>2. FrameOK(f, run)
      BY <2>1, <3>1
    <3> QED
      BY <1>1, <2>1, <3>2 DEF ToGo
  <2>3. \A i \in 1..Len(toGo') : FrameOK(toGo'[i], run')
    BY <1>0, <1>1, <2>1 DEF TerminalInv
  <2>4. frames' = frames \/ frames' = [frames EXCEPT ![f.id] = Append(@, f)]
    BY <1>3 DEF Receive
  <2> HIDE DEF f
  <2>5. ASSUME NEW r \in Id, NEW i \in 1..Len(frames'[r])
        PROVE  frames'[r][i].id = r /\ FrameOK(frames'[r][i], run')
    <3>1. CASE frames'[r] = frames[r]
      BY <1>0, <1>1, <3>1, <2>5 DEF TerminalInv
    <3>2. CASE r = f.id /\ frames'[r] = Append(frames[r], f)
      <4>1. /\ frames[r] \in Seq(ToGo) /\ Len(frames[r]) \in Nat
            /\ Len(frames'[r]) = Len(frames[r]) + 1
            /\ \A j \in 1..Len(frames[r]) : frames'[r][j] = frames[r][j]
            /\ frames'[r][Len(frames[r]) + 1] = f
        BY <2>1, <3>2, AppendFacts DEF TypeOK, CallTypeOK
      <4>2. CASE i = Len(frames[r]) + 1
        BY <2>2, <3>2, <4>1, <4>2
      <4>3. CASE i \in 1..Len(frames[r])
        BY <1>0, <1>1, <4>1, <4>3 DEF TerminalInv
      <4> QED
        BY <4>1, <4>2, <4>3
    <3> QED
      BY <2>2, <2>4, <3>1, <3>2 DEF TypeOK, CallTypeOK
  <2>6. eof' = eof
    BY <1>3 DEF Receive, readVars
  <2> QED
    BY <1>0, <2>3, <2>5, <2>6 DEF TerminalInv
<1>4. ASSUME NEW q \in Id, toGo' = toGo,
             frames' = [frames EXCEPT ![q] = <<>>] \/
             (frames[q] # <<>> /\ frames' = [frames EXCEPT ![q] = Tail(@)]),
             eof' = eof \/ \E b : /\ eof' = [eof EXCEPT ![q] = b]
                                  /\ b => run[q] = "done"
      PROVE  TerminalInv'
  <2>1. \A i \in 1..Len(toGo) : FrameOK(toGo[i], run')
    BY <1>0, <1>1 DEF TerminalInv
  <2>2. \A r \in Id : eof'[r] => run'[r] = "done"
    BY <1>0, <1>4 DEF TerminalInv, TypeOK, ReadTypeOK
  <2>3. ASSUME NEW r \in Id, NEW i \in 1..Len(frames'[r])
        PROVE  \E j \in 1..Len(frames[r]) : frames'[r][i] = frames[r][j]
    <3>1. CASE frames'[r] = frames[r]
      BY <2>3, <3>1
    <3>2. CASE frames'[r] = <<>>
      BY <2>3, <3>2
    <3>3. CASE frames[r] # <<>> /\ frames'[r] = Tail(frames[r])
      <4>1. /\ Len(frames[r]) \in Nat
            /\ Len(frames'[r]) = Len(frames[r]) - 1
            /\ frames'[r][i] = frames[r][i + 1]
        BY <2>3, <3>3, TailFacts DEF TypeOK, CallTypeOK
      <4>2. i + 1 \in 1..Len(frames[r])
        BY <2>3, <4>1
      <4> QED
        BY <4>1, <4>2
    <3> QED
      BY <1>4, <3>1, <3>2, <3>3 DEF TypeOK, CallTypeOK
  <2>4. \A r \in Id : \A i \in 1..Len(frames'[r]) :
           frames'[r][i].id = r /\ FrameOK(frames'[r][i], run')
    BY <1>0, <1>1, <2>3 DEF TerminalInv
  <2> QED
    BY <1>4, <2>1, <2>2, <2>4 DEF TerminalInv
<1>5. ASSUME NEW q \in Id, TakeReply(q) \/ CtxReturn(q) \/ NextEnd(q) \/ Close(q)
      PROVE  TerminalInv'
  <2>1. /\ toGo' = toGo /\ eof' = eof
        /\ frames' = [frames EXCEPT ![q] = <<>>]
    BY <1>5 DEF TakeReply, CtxReturn, NextEnd, Close, CloseWith, End
  <2> QED
    BY <2>1, <1>4
<1>6. ASSUME NEW q \in Id, TakeRows(q) \/ TakeFailure(q)
      PROVE  TerminalInv'
  <2> DEFINE f == Head(frames[q])
  <2>1. frames[q] # <<>> /\ f = frames[q][1] /\ 1 \in 1..Len(frames[q])
    BY <1>6, TailFacts DEF TakeRows, TakeFailure, TypeOK, CallTypeOK
  <2>2. FrameOK(f, run) /\ f.id = q
    BY <2>1 DEF TerminalInv
  <2>3. CASE TakeRows(q)
    <3>1. /\ toGo' = toGo /\ frames' = [frames EXCEPT ![q] = Tail(@)]
          /\ eof' = [eof EXCEPT ![q] = eof[q] \/ f.eof]
      BY <2>3 DEF TakeRows, EndsStream, TypeOK, ReadTypeOK
    <3>2. eof[q] \/ f.eof => run[q] = "done"
      BY <2>2 DEF FrameOK, TerminalInv
    <3> QED
      BY <2>1, <3>1, <3>2, <1>4
  <2>4. CASE TakeFailure(q)
    <3>1. /\ toGo' = toGo /\ frames' = [frames EXCEPT ![q] = <<>>]
          /\ eof' = [eof EXCEPT ![q] = TRUE]
          /\ f.op # "ROWS"
      BY <2>4 DEF TakeFailure, End
    <3>2. run[q] = "done"
      BY <2>2, <3>1 DEF FrameOK
    <3> QED
      BY <3>1, <3>2, <1>4
  <2> QED
    BY <1>6, <2>3, <2>4
<1>7. ASSUME NEW f \in ToGo, FrameOK(f, run'), toGo' = Append(toGo, f),
             UNCHANGED <<frames, eof>>
      PROVE  TerminalInv'
  <2>1. /\ Len(toGo) \in Nat /\ Len(toGo') = Len(toGo) + 1
        /\ \A i \in 1..Len(toGo) : toGo'[i] = toGo[i]
        /\ toGo'[Len(toGo) + 1] = f
    BY <1>7, AppendFacts DEF TypeOK, SharedTypeOK
  <2>2. ASSUME NEW i \in 1..Len(toGo')
        PROVE  FrameOK(toGo'[i], run')
    <3>1. CASE i \in 1..Len(toGo)
      BY <1>0, <1>1, <2>1, <3>1 DEF TerminalInv
    <3>2. CASE i = Len(toGo) + 1
      BY <1>7, <2>1, <3>2
    <3> QED
      BY <2>1, <3>1, <3>2
  <2> QED
    BY <1>0, <1>1, <1>7, <2>2 DEF TerminalInv
<1>8. ASSUME NEW r \in Id, EndStep(r)
      PROVE  TerminalInv'
  <2>1. PICK op \in {"ROWS", "ERROR", "ABORTED", "EXEC_RESULT"},
             n \in 0..MaxRows : Finish(r, op, n)
    BY <1>8 DEF EndStep
  <2> DEFINE f == [op |-> op, id |-> r, n |-> n, eof |-> TRUE]
  <2>2. f \in ToGo /\ f.eof /\ f.id = r
    BY DEF ToGo
  <2>3. run'[r] = "done" /\ toGo' = Append(toGo, f)
    BY <2>1 DEF Finish, TypeOK, WorkerTypeOK
  <2>4. UNCHANGED <<frames, eof>>
    BY <1>8 DEF EndStep, goVars, readVars
  <2> HIDE DEF f
  <2> QED
    BY <2>2, <2>3, <2>4, <1>7 DEF FrameOK
<1>9. ASSUME NEW r \in Id, NEW n \in 1..MaxRows, Flush(r, n)
      PROVE  TerminalInv'
  <2> DEFINE f == [op |-> "ROWS", id |-> r, n |-> n, eof |-> FALSE]
  <2>1. f \in ToGo /\ ~ f.eof /\ f.op = "ROWS"
    BY RowsAssumption DEF ToGo
  <2>2. toGo' = Append(toGo, f) /\ UNCHANGED <<frames, eof>>
    BY <1>9 DEF Flush, goVars, readVars
  <2> HIDE DEF f
  <2> QED
    BY <2>1, <2>2, <1>7 DEF FrameOK
<1>10. ASSUME \/ \E op \in {"EXEC", "QUERY"}, d \in Db : Issue(op, d)
              \/ DispatchCredit \/ DispatchAbort \/ DispatchRequest \/ Resume
              \/ \E k \in Db \cup {0} : StartExec(k) \/ StartQuery(k)
              \/ \E q \in Id : \/ CtxDone(q) \/ WatchStore(q) \/ WatchStop(q)
                               \/ NextRow(q) \/ NextBatch(q)
              \/ UNCHANGED vars
       PROVE  UNCHANGED <<toGo, frames, eof>>
  BY <1>10 DEF Issue, DispatchCredit, DispatchAbort, DispatchRequest, Resume,
     StartExec, StartQuery, CtxDone, WatchStore, WatchStop, NextRow, NextBatch,
     vars, goVars, readVars
<1> QED
  BY <1>2, <1>3, <1>5, <1>6, <1>8, <1>9, <1>10, NextCases

(* The frames behind the first stay in the channel.                        *)
LEMMA AbortBehind ==
    ASSUME TypeOK, toWorker # <<>>, toWorker' = Tail(toWorker), NEW r \in Id,
           Head(toWorker).op # "ABORT" \/ Head(toWorker).id # r,
           Posted("ABORT", r)
    PROVE  Posted("ABORT", r)'
<1>1. /\ Head(toWorker) = toWorker[1] /\ Len(toWorker) \in Nat
      /\ Len(toWorker') = Len(toWorker) - 1
      /\ \A i \in 1..Len(toWorker') : toWorker'[i] = toWorker[i + 1]
  BY TailFacts DEF TypeOK, SharedTypeOK
<1>2. PICK j \in 1..Len(toWorker) : toWorker[j] = Frame("ABORT", r)
  BY DEF Posted
<1>3. j # 1
  BY <1>1, <1>2 DEF Frame
<1>4. j - 1 \in 1..Len(toWorker') /\ (j - 1) + 1 = j
  BY <1>1, <1>3
<1>5. toWorker'[j - 1] = Frame("ABORT", r)
  BY <1>1, <1>2, <1>4
<1> QED
  BY <1>4, <1>5 DEF Posted, Frame

(* The other two parts hold before the first request.                      *)
LEMMA RestInit == Init => TerminalInv /\ AbortInv
BY DEF Init, TerminalInv, AbortInv

(* Where nothing is evicted, every step keeps AbortInv: the abort of       *)
(* Rows.Close goes from the channel to the stream or to the set of early   *)
(* aborts, and from there to the stream when it starts.                    *)
LEMMA AbortStep ==
    ASSUME MaxEarlyAborts >= MaxId, TypeOK, IssuedInv, WireInv, ChainInv,
           EarlyInv, AbortInv, [Next]_vars
    PROVE  AbortInv'
<1> DEFINE Forgotten(r) == /\ req[r].op = "QUERY" /\ go[r] = "closed"
                           /\ ~ eof[r] /\ run[r] # "done"
           Told(r) == aborted[r] \/ InEarly(r) \/ Posted("ABORT", r)
<1>1. \A r \in Id : Forgotten(r) => Told(r)
  BY DEF AbortInv
<1>2. \A r \in Id : run'[r] # "done" => run[r] # "done"
  BY DoneKept
<1>3. SUFFICES \A r \in Id : Forgotten(r)' => Told(r)'
  BY DEF AbortInv
<1>4. ASSUME UNCHANGED <<aborted, early>>,
             \A r \in Id : /\ Posted("ABORT", r) => Posted("ABORT", r)'
                           /\ Forgotten(r)' => Forgotten(r) \/ Posted("ABORT", r)'
      PROVE  \A r \in Id : Forgotten(r)' => Told(r)'
  BY <1>1, <1>4 DEF InEarly
<1>5. CASE UNCHANGED <<req, go, eof, aborted, early, toWorker>>
  <2>1. \A r \in Id : /\ Posted("ABORT", r)' <=> Posted("ABORT", r)
                      /\ Forgotten(r)' => Forgotten(r)
    BY <1>2, <1>5 DEF Posted
  <2> QED
    BY <1>4, <1>5, <2>1
<1>6. ASSUME NEW m \in ToWorker, toWorker' = Append(toWorker, m), NEW r \in Id
      PROVE  /\ Posted("ABORT", r) => Posted("ABORT", r)'
             /\ m = Frame("ABORT", r) => Posted("ABORT", r)'
  <2>1. /\ Len(toWorker) \in Nat /\ Len(toWorker') = Len(toWorker) + 1
        /\ \A i \in 1..Len(toWorker) : toWorker'[i] = toWorker[i]
        /\ toWorker'[Len(toWorker) + 1] = m
    BY <1>6, AppendFacts DEF TypeOK, SharedTypeOK
  <2>2. /\ Len(toWorker) + 1 \in 1..Len(toWorker')
        /\ \A i \in 1..Len(toWorker) : i \in 1..Len(toWorker')
    BY <2>1
  <2> QED
    BY <2>1, <2>2 DEF Posted, Frame
<1>7. ASSUME NEW op \in {"EXEC", "QUERY"}, NEW d \in Db, Issue(op, d)
      PROVE  \A r \in Id : Forgotten(r)' => Told(r)'
  <2>1. /\ nextId \in Id /\ UNCHANGED <<aborted, early, eof, run>>
        /\ \A r \in Id : r # nextId => req'[r] = req[r] /\ go'[r] = go[r]
        /\ go'[nextId] # "closed"
        /\ toWorker' = Append(toWorker, Frame(op, nextId))
        /\ Frame(op, nextId) \in ToWorker
    BY <1>7 DEF Issue, readVars, workerVars, TypeOK, CallTypeOK, Frame, ToWorker
  <2>2. \A r \in Id : Posted("ABORT", r) => Posted("ABORT", r)'
    BY <1>6, <2>1
  <2>3. \A r \in Id : Forgotten(r)' => Forgotten(r)
    BY <2>1
  <2> QED
    BY <1>4, <2>1, <2>2, <2>3
<1>8. ASSUME NEW q \in Id, NextBatch(q)
      PROVE  \A r \in Id : Forgotten(r)' => Told(r)'
  <2>1. /\ UNCHANGED <<req, aborted, early, eof>>
        /\ \A r \in Id : r # q => go'[r] = go[r]
        /\ go'[q] # "closed"
        /\ toWorker' = Append(toWorker, Frame("CREDIT", q))
        /\ Frame("CREDIT", q) \in ToWorker
    BY <1>8 DEF NextBatch, callVars, readVars, workerVars, TypeOK, CallTypeOK, Frame,
       ToWorker
  <2>2. \A r \in Id : Posted("ABORT", r) => Posted("ABORT", r)'
    BY <1>6, <2>1
  <2>3. \A r \in Id : Forgotten(r)' => Forgotten(r)
    BY <1>2, <2>1
  <2> QED
    BY <1>4, <2>1, <2>2, <2>3
<1>9. ASSUME NEW q \in Id, NEW result, CloseWith(q, result),
             UNCHANGED <<req, eof, aborted, early>>
      PROVE  \A r \in Id : Forgotten(r)' => Told(r)'
  <2>1. \A r \in Id : r # q => go'[r] = go[r]
    BY <1>9 DEF CloseWith, End, TypeOK, CallTypeOK
  <2>2. CASE eof[q]
    <3>1. toWorker' = toWorker
      BY <1>9, <2>2 DEF CloseWith
    <3>2. \A r \in Id : /\ Posted("ABORT", r) => Posted("ABORT", r)'
                        /\ Forgotten(r)' => Forgotten(r)
      BY <1>2, <1>9, <2>1, <2>2, <3>1 DEF Posted
    <3> QED
      BY <1>4, <1>9, <3>2
  <2>3. CASE ~ eof[q]
    <3>1. /\ toWorker' = Append(toWorker, Frame("ABORT", q))
          /\ Frame("ABORT", q) \in ToWorker
      BY <1>9, <2>3 DEF CloseWith, Frame, ToWorker
    <3>2. \A r \in Id : /\ Posted("ABORT", r) => Posted("ABORT", r)'
                        /\ r = q => Posted("ABORT", r)'
      BY <1>6, <3>1
    <3>3. \A r \in Id : Forgotten(r)' => Forgotten(r) \/ r = q
      BY <1>2, <1>9, <2>1
    <3> QED
      BY <1>4, <1>9, <3>2, <3>3
  <2> QED
    BY <2>2, <2>3
<1>10. ASSUME NEW q \in Id, NextEnd(q) \/ Close(q)
       PROVE  \A r \in Id : Forgotten(r)' => Told(r)'
  <2>1. /\ UNCHANGED <<req, eof, aborted, early>>
        /\ \E result : CloseWith(q, result)
    BY <1>10 DEF NextEnd, Close, callVars, workerVars
  <2> QED
    BY <2>1, <1>9
<1>11. ASSUME NEW q \in Id, UNCHANGED <<req, aborted, early, toWorker>>,
              \A r \in Id : r # q => go'[r] = go[r] /\ eof'[r] = eof[r],
              req[q].op = "EXEC" \/ eof'[q] \/ go'[q] # "closed"
       PROVE  \A r \in Id : Forgotten(r)' => Told(r)'
  <2>1. \A r \in Id : /\ Posted("ABORT", r) => Posted("ABORT", r)'
                      /\ Forgotten(r)' => Forgotten(r)
    BY <1>2, <1>11 DEF Posted
  <2> QED
    BY <1>4, <1>11, <2>1
<1>12. ASSUME NEW q \in Id, CtxReturn(q)
       PROVE  \A r \in Id : Forgotten(r)' => Told(r)'
  <2>1. UNCHANGED <<req, eof, aborted, early>>
    BY <1>12 DEF CtxReturn, callVars, workerVars
  <2>2. CASE CloseWith(q, "error")
    BY <1>9, <2>1, <2>2
  <2>3. CASE go[q] = "call" /\ End(q) /\ UNCHANGED toWorker
    <3>1. /\ req[q].op = "EXEC"
          /\ \A r \in Id : r # q => go'[r] = go[r]
      BY <2>3 DEF IssuedInv, End, TypeOK, CallTypeOK
    <3> QED
      BY <1>11, <2>1, <2>3, <3>1
  <2> QED
    BY <1>12, <2>2, <2>3 DEF CtxReturn
<1>13. ASSUME NEW q \in Id, TakeReply(q)
       PROVE  \A r \in Id : Forgotten(r)' => Told(r)'
  <2>1. UNCHANGED <<req, eof, aborted, early, toWorker>>
    BY <1>13 DEF TakeReply, callVars, workerVars
  <2>2. /\ req[q].op = "EXEC"
        /\ \A r \in Id : r # q => go'[r] = go[r]
    BY <1>13 DEF TakeReply, IssuedInv, End, TypeOK, CallTypeOK
  <2> QED
    BY <1>11, <2>1, <2>2
<1>14. ASSUME NEW q \in Id, TakeRows(q)
       PROVE  \A r \in Id : Forgotten(r)' => Told(r)'
  <2>1. /\ UNCHANGED <<req, aborted, early, toWorker>>
        /\ go' = [go EXCEPT ![q] = "open"]
        /\ eof' = [eof EXCEPT ![q] = @ \/ EndsStream(Head(frames[q]))]
    BY <1>14 DEF TakeRows, callVars, workerVars
  <2>2. /\ go'[q] # "closed"
        /\ \A r \in Id : r # q => go'[r] = go[r] /\ eof'[r] = eof[r]
    BY <2>1 DEF TypeOK, CallTypeOK, ReadTypeOK
  <2> QED
    BY <1>11, <2>1, <2>2
<1>15. ASSUME NEW q \in Id, TakeFailure(q)
       PROVE  \A r \in Id : Forgotten(r)' => Told(r)'
  <2>1. UNCHANGED <<req, aborted, early, toWorker>>
    BY <1>15 DEF TakeFailure, callVars, workerVars
  <2>2. /\ eof'[q]
        /\ \A r \in Id : r # q => go'[r] = go[r] /\ eof'[r] = eof[r]
    BY <1>15 DEF TakeFailure, End, TypeOK, CallTypeOK, ReadTypeOK
  <2> QED
    BY <1>11, <2>1, <2>2
<1>16. CASE DispatchRequest \/ DispatchCredit
  <2>1. /\ UNCHANGED <<req, go, eof, aborted, early>>
        /\ toWorker # <<>> /\ toWorker' = Tail(toWorker)
        /\ Head(toWorker).op # "ABORT"
    BY <1>16 DEF DispatchRequest, DispatchCredit, goVars, callVars, readVars
  <2>2. \A r \in Id : Posted("ABORT", r) => Posted("ABORT", r)'
    BY <2>1, AbortBehind
  <2>3. \A r \in Id : Forgotten(r)' => Forgotten(r)
    BY <1>2, <2>1
  <2> QED
    BY <1>4, <2>1, <2>2, <2>3
<1>17. CASE DispatchAbort
  <2> DEFINE p == Head(toWorker).id
  <2>1. /\ UNCHANGED <<req, go, eof>>
        /\ toWorker # <<>> /\ toWorker' = Tail(toWorker)
    BY <1>17 DEF DispatchAbort, goVars, callVars, readVars
  <2>2. Head(toWorker) \in ToWorker
    BY <2>1, TailFacts DEF TypeOK, SharedTypeOK
  <2>3. /\ p \in Id
        /\ \/ aborted' = [aborted EXCEPT ![p] = TRUE] /\ early' = early
           \/ aborted' = aborted /\ early' = Remember(early, p)
    <3>1. p \in Id
      BY <2>2 DEF ToWorker
    <3>2. CASE Streaming(p)
      BY <1>17, <3>1, <3>2 DEF DispatchAbort
    <3>3. CASE ~ Streaming(p)
      BY <1>17, <3>1, <3>3 DEF DispatchAbort
    <3> QED
      BY <3>2, <3>3
  <2>4. \A r \in Id : r # p /\ Posted("ABORT", r) => Posted("ABORT", r)'
    BY <2>1, AbortBehind
  <2> HIDE DEF p
  <2>5. ASSUME aborted' = aborted, early' = Remember(early, p), NEW r \in Id
        PROVE  InEarly(r)' <=> r = p \/ InEarly(r)
    <3>1. /\ early \in Seq(Id)
          /\ \A i, j \in 1..Len(early) : early[i] = early[j] => i = j
      BY DEF TypeOK, WorkerTypeOK, EarlyInv
    <3> DEFINE t == Remember(early, p)
    <3>2. \A x : (\E i \in 1..Len(t) : t[i] = x)
                 <=> x = p \/ \E i \in 1..Len(early) : early[i] = x
      BY <2>3, <3>1, NothingEvicted
    <3>3. early' = t
      BY <2>5
    <3> HIDE DEF t
    <3> QED
      BY <3>2, <3>3 DEF InEarly
  <2>6. \A r \in Id : r = p \/ aborted[r] \/ InEarly(r)
                      => aborted'[r] \/ InEarly(r)'
    BY <2>3, <2>5 DEF InEarly, TypeOK, WorkerTypeOK
  <2>7. \A r \in Id : Forgotten(r)' => Forgotten(r)
    BY <1>2, <2>1
  <2> QED
    BY <1>1, <2>4, <2>6, <2>7
<1>18. ASSUME NEW q \in Id, UNCHANGED <<req, go, eof, toWorker>>,
              early' = Forget(early, q),
              \A r \in Id : r # q => aborted'[r] = aborted[r],
              run'[q] = "done" \/ (aborted'[q] = InEarly(q) /\ ~ aborted[q])
       PROVE  \A r \in Id : Forgotten(r)' => Told(r)'
  <2>1. \A r \in Id : r # q /\ InEarly(r) => InEarly(r)'
    <3>1. /\ early \in Seq(Id)
          /\ \A i, j \in 1..Len(early) : early[i] = early[j] => i = j
      BY DEF TypeOK, WorkerTypeOK, EarlyInv
    <3>2. \A x : (\E i \in 1..Len(early') : early'[i] = x)
                 <=> x # q /\ \E i \in 1..Len(early) : early[i] = x
      <4> DEFINE t == Forget(early, q)
      <4>1. /\ t \in Seq(Id)
            /\ Len(t) <= Len(early)
            /\ \A x : (\E i \in 1..Len(t) : t[i] = x)
                      <=> x # q /\ \E i \in 1..Len(early) : early[i] = x
            /\ \A i, j \in 1..Len(t) : t[i] = t[j] => i = j
        <5>1. t \in Seq(Id) /\ Len(t) <= Len(early) /\ Forgot(t, early, q)
          BY <3>1, ForgetFacts
        <5> QED
          BY <5>1 DEF Forgot
      <4>2. early' = t
        BY <1>18
      <4> HIDE DEF t
      <4> QED
        BY <4>1, <4>2
    <3> QED
      BY <3>2 DEF InEarly
  <2>2. \A r \in Id : Posted("ABORT", r) => Posted("ABORT", r)'
    BY <1>18 DEF Posted
  <2>3. \A r \in Id : Forgotten(r)' => Forgotten(r) /\ run'[r] # "done"
    BY <1>2, <1>18
  <2> QED
    BY <1>1, <1>18, <2>1, <2>2, <2>3
<1>19. ASSUME NEW k \in Db \cup {0}, StartQuery(k)
       PROVE  \A r \in Id : Forgotten(r)' => Told(r)'
  <2> DEFINE p == Head(chain[k])
  <2>1. /\ p \in Id /\ run[p] = "queued"
        /\ UNCHANGED <<req, go, eof, toWorker>>
        /\ early' = Forget(early, p)
        /\ aborted' = [aborted EXCEPT ![p] = InEarly(p)]
    BY <1>19, HeadFacts DEF StartQuery, goVars, callVars, readVars
  <2> HIDE DEF p
  <2>2. ~ aborted[p]
    BY <2>1 DEF EarlyInv, Begun
  <2>3. /\ aborted'[p] = InEarly(p)
        /\ \A r \in Id : r # p => aborted'[r] = aborted[r]
    BY <2>1 DEF TypeOK, WorkerTypeOK
  <2> QED
    BY <1>18, <2>1, <2>2, <2>3
<1>20. ASSUME NEW q \in Id, EndStep(q)
       PROVE  \A r \in Id : Forgotten(r)' => Told(r)'
  <2>1. /\ UNCHANGED <<req, go, eof, toWorker>> /\ UNCHANGED aborted
        /\ early' = Forget(early, q)
        /\ run'[q] = "done"
    BY <1>20 DEF EndStep, Finish, goVars, callVars, readVars, TypeOK, WorkerTypeOK
  <2>2. \A r \in Id : r # q => aborted'[r] = aborted[r]
    BY <2>1
  <2>3. run'[q] = "done" \/ (aborted'[q] = InEarly(q) /\ ~ aborted[q])
    BY <2>1
  <2>4. UNCHANGED <<req, go, eof, toWorker>> /\ early' = Forget(early, q)
    BY <2>1
  <2> HIDE DEF Forgotten, Told
  <2> QED
    BY <1>18, <2>2, <2>3, <2>4
<1>21. ASSUME \/ Receive \/ Resume
              \/ \E k \in Db \cup {0} : StartExec(k)
              \/ \E q \in Id : \/ CtxDone(q) \/ WatchStore(q) \/ WatchStop(q)
                               \/ NextRow(q)
                               \/ \E n \in 1..MaxRows : Flush(q, n)
              \/ UNCHANGED vars
       PROVE  UNCHANGED <<req, go, eof, aborted, early, toWorker>>
  BY <1>21 DEF Receive, Resume, StartExec, CtxDone, WatchStore, WatchStop,
     NextRow, Flush, vars, goVars, callVars, readVars, workerVars
<1> HIDE DEF Forgotten, Told
<1> QED
  BY <1>5, <1>7, <1>8, <1>10, <1>12, <1>13, <1>14, <1>15, <1>16, <1>17, <1>19,
     <1>20, <1>21, NextCases

(* Inductive where no abort is ever evicted.                               *)
AbortIInv == OrderIInv /\ TerminalInv /\ AbortInv

(* No abort is forgotten while the worker has room to remember every id:   *)
(* with MAX_EARLY_ABORTS no smaller than the number of requests, a stream  *)
(* that waits on a reader that is gone has its ABORT on the way.  (The     *)
(* premise is needed: see the run stream_evicted.)                         *)
THEOREM NoStreamForgotten ==
    ASSUME MaxEarlyAborts >= MaxId
    PROVE  Spec => []AbortNotLost
<1>1. Init => AbortIInv
  BY OrderInit, RestInit DEF AbortIInv
<1>2. AbortIInv /\ [Next]_vars => AbortIInv'
  <2> SUFFICES ASSUME AbortIInv, [Next]_vars PROVE AbortIInv'
    OBVIOUS
  <2> USE DEF AbortIInv, OrderIInv
  <2>1. OrderIInv'
    BY TypeStep, IssuedStep, WireStep, ChainStep, DispatchStep, InOrderStep,
       EarlyStep
  <2>2. TerminalInv'
    BY TerminalStep
  <2>3. AbortInv'
    BY AbortStep
  <2> QED
    BY <2>1, <2>2, <2>3
<1>3. AbortIInv => AbortNotLost
  <2> SUFFICES ASSUME AbortIInv, NEW r \in Id, run[r] = "parked", go[r] = "closed"
               PROVE  Posted("ABORT", r)
    BY DEF AbortNotLost
  <2>1. req[r].op = "QUERY" /\ ~ aborted[r] /\ Streaming(r)
    BY DEF AbortIInv, OrderIInv, EarlyInv, Streaming
  <2>2. ~ InEarly(r)
    BY <2>1 DEF AbortIInv, OrderIInv, EarlyInv
  <2>3. ~ eof[r]
    BY DEF AbortIInv, TerminalInv
  <2> QED
    BY <2>1, <2>2, <2>3 DEF AbortIInv, AbortInv
<1> QED
  BY <1>1, <1>2, <1>3, PTL DEF Spec

-----------------------------------------------------------------------------
(* Counting: how many elements of a sequence are in a set.                 *)

CountIn(s, S) == Cardinality({i \in 1..Len(s) : s[i] \in S})

(* A count is a natural number, and 0 where nothing is counted.            *)
LEMMA CountType ==
    ASSUME NEW T, NEW s \in Seq(T), NEW S
    PROVE  /\ IsFiniteSet({i \in 1..Len(s) : s[i] \in S})
           /\ CountIn(s, S) \in Nat
           /\ (\A i \in 1..Len(s) : s[i] \notin S) => CountIn(s, S) = 0
<1> DEFINE At == {i \in 1..Len(s) : s[i] \in S}
<1>1. IsFiniteSet(1..Len(s))
  <2>1. Len(s) \in Int /\ 1 \in Int
    OBVIOUS
  <2> QED
    BY <2>1, FS_Interval
<1>2. At \in SUBSET (1..Len(s))
  OBVIOUS
<1>3. IsFiniteSet(At)
  BY <1>1, <1>2, FS_Subset
<1>4. ASSUME \A i \in 1..Len(s) : s[i] \notin S
      PROVE  CountIn(s, S) = 0
  <2>1. At = {}
    BY <1>4
  <2> QED
    BY <2>1, FS_EmptySet DEF CountIn
<1> QED
  BY <1>3, <1>4, FS_CardinalityType DEF CountIn

(* Append counts its element.                                              *)
LEMMA CountAppend ==
    ASSUME NEW T, NEW s \in Seq(T), NEW e \in T, NEW S
    PROVE  CountIn(Append(s, e), S) = CountIn(s, S) + (IF e \in S THEN 1 ELSE 0)
<1> DEFINE t == Append(s, e)
           At == {i \in 1..Len(s) : s[i] \in S}
           Then == {i \in 1..Len(t) : t[i] \in S}
<1>1. /\ Len(s) \in Nat /\ Len(t) = Len(s) + 1
      /\ \A i \in 1..Len(s) : t[i] = s[i]
      /\ t[Len(s) + 1] = e
  BY AppendFacts
<1>2. IsFiniteSet(At) /\ Cardinality(At) \in Nat
  BY CountType DEF CountIn
<1>3. CountIn(s, S) = Cardinality(At) /\ CountIn(t, S) = Cardinality(Then)
  BY DEF CountIn
<1> HIDE DEF t
<1>4. CASE e \in S
  <2>1. Then = At \cup {Len(s) + 1} /\ Len(s) + 1 \notin At
    BY <1>1, <1>4
  <2>2. Cardinality(Then) = Cardinality(At) + 1
    BY <1>2, <2>1, FS_AddElement
  <2> HIDE DEF At, Then
  <2> QED
    BY <1>3, <1>4, <2>2 DEF t
<1>5. CASE e \notin S
  <2>1. Then = At
    BY <1>1, <1>5
  <2> HIDE DEF At, Then
  <2> QED
    BY <1>2, <1>3, <1>5, <2>1 DEF t
<1> QED
  BY <1>4, <1>5

(* Taking the head off uncounts it.                                        *)
LEMMA CountTail ==
    ASSUME NEW T, NEW s \in Seq(T), s # <<>>, NEW S
    PROVE  CountIn(s, S) = CountIn(Tail(s), S) + (IF Head(s) \in S THEN 1 ELSE 0)
<1> DEFINE t == Tail(s)
           At == {i \in 1..Len(t) : t[i] \in S}
           Later == {i \in 2..Len(s) : s[i] \in S}
           Before == {i \in 1..Len(s) : s[i] \in S}
<1>1. /\ t \in Seq(T) /\ Len(t) \in Nat /\ Len(s) = Len(t) + 1
      /\ \A i \in 1..Len(t) : t[i] = s[i + 1]
      /\ Head(s) = s[1]
  BY TailFacts
<1>2. IsFiniteSet(At) /\ Cardinality(At) \in Nat
  BY <1>1, CountType DEF CountIn
<1>3. CountIn(t, S) = Cardinality(At) /\ CountIn(s, S) = Cardinality(Before)
  BY DEF CountIn
<1> HIDE DEF t
<1>4. IsFiniteSet(Later) /\ Cardinality(Later) = Cardinality(At)
  <2> DEFINE f == [i \in At |-> i + 1]
  <2>1. f \in [At -> Later]
    BY <1>1
  <2>2. \A i, j \in At : f[i] = f[j] => i = j
    BY <1>1
  <2>3. \A j \in Later : j - 1 \in At /\ f[j - 1] = j
    BY <1>1
  <2>4. \A j \in Later : \E i \in At : f[i] = j
    BY <2>3
  <2> HIDE DEF f, At, Later
  <2>5. ExistsBijection(At, Later)
    BY <2>1, <2>2, <2>4, Fun_IsBij DEF ExistsBijection
  <2> QED
    BY <1>2, <2>5, FS_Bijection
<1>5. CASE Head(s) \in S
  <2>1. Before = Later \cup {1} /\ 1 \notin Later
    BY <1>1, <1>5
  <2>2. Cardinality(Before) = Cardinality(Later) + 1
    BY <1>4, <2>1, FS_AddElement
  <2> HIDE DEF At, Before, Later
  <2> QED
    BY <1>3, <1>4, <1>5, <2>2 DEF t
<1>6. CASE Head(s) \notin S
  <2>1. Before = Later
    BY <1>1, <1>6
  <2> HIDE DEF At, Before, Later
  <2> QED
    BY <1>2, <1>3, <1>4, <1>6, <2>1 DEF t
<1> QED
  BY <1>5, <1>6

-----------------------------------------------------------------------------
(* The rows of a request in a sequence of frames.                          *)

Points(s, r) == {x \in (1..Len(s)) \X (1..MaxRows) :
                    s[x[1]].id = r /\ x[2] <= s[x[1]].n}

(* n rows in one place make n.                                             *)
LEMMA Column ==
    ASSUME NEW k, NEW n \in Nat
    PROVE  IsFiniteSet({k} \X (1..n)) /\ Cardinality({k} \X (1..n)) = n
<1>1. IsFiniteSet(1..n) /\ Cardinality(1..n) = n
  <2>1. 1 \in Int /\ n \in Int /\ (IF 1 > n THEN 0 ELSE n - 1 + 1) = n
    OBVIOUS
  <2> QED
    BY <2>1, FS_Interval
<1>2. IsFiniteSet({k}) /\ Cardinality({k}) = 1
  BY FS_Singleton
<1>3. /\ IsFiniteSet({k} \X (1..n))
      /\ Cardinality({k} \X (1..n)) = Cardinality({k}) * Cardinality(1..n)
  BY <1>1, <1>2, FS_Product
<1>4. 1 * n = n
  OBVIOUS
<1> QED
  BY <1>1, <1>2, <1>3, <1>4

(* Rows are counted by a natural number, 0 where no frame is of r.         *)
LEMMA RowsType ==
    ASSUME NEW s \in Seq(ToGo), NEW r
    PROVE  /\ IsFiniteSet(Points(s, r)) /\ Rows(s, r) = Cardinality(Points(s, r))
           /\ Rows(s, r) \in Nat
           /\ (\A i \in 1..Len(s) : s[i].id # r) => Rows(s, r) = 0
<1>1. IsFiniteSet((1..Len(s)) \X (1..MaxRows))
  <2>1. Len(s) \in Int /\ 1 \in Int /\ MaxRows \in Int
    BY RowsAssumption
  <2>2. IsFiniteSet(1..Len(s)) /\ IsFiniteSet(1..MaxRows)
    BY <2>1, FS_Interval
  <2> QED
    BY <2>2, FS_Product
<1>2. Points(s, r) \in SUBSET ((1..Len(s)) \X (1..MaxRows))
  BY DEF Points
<1>3. IsFiniteSet(Points(s, r))
  BY <1>1, <1>2, FS_Subset
<1>4. Rows(s, r) = Cardinality(Points(s, r))
  BY DEF Rows, Points
<1>5. ASSUME \A i \in 1..Len(s) : s[i].id # r
      PROVE  Rows(s, r) = 0
  <2>1. Points(s, r) = {}
    BY <1>5 DEF Points
  <2> QED
    BY <1>4, <2>1, FS_EmptySet
<1> QED
  BY <1>3, <1>4, <1>5, FS_CardinalityType

(* A frame adds its rows to those of its request.                          *)
LEMMA RowsAppend ==
    ASSUME NEW s \in Seq(ToGo), NEW f \in ToGo, NEW r
    PROVE  Rows(Append(s, f), r) = Rows(s, r) + (IF f.id = r THEN f.n ELSE 0)
<1> DEFINE t == Append(s, f)
<1>1. /\ Len(s) \in Nat /\ Len(t) = Len(s) + 1 /\ t \in Seq(ToGo)
      /\ \A i \in 1..Len(s) : t[i] = s[i]
      /\ t[Len(s) + 1] = f
  BY AppendFacts
<1>2. /\ IsFiniteSet(Points(s, r)) /\ Rows(s, r) = Cardinality(Points(s, r))
      /\ Rows(s, r) \in Nat /\ Rows(t, r) = Cardinality(Points(t, r))
  BY <1>1, RowsType
<1>3. f.n \in Nat /\ f.n \in 0..MaxRows
  BY RowsAssumption DEF ToGo
<1> HIDE DEF t
<1>4. CASE f.id = r
  <2> DEFINE New == {Len(s) + 1} \X (1..f.n)
  <2>1. Points(t, r) = Points(s, r) \cup New
    BY <1>1, <1>3, <1>4, RowsAssumption DEF Points
  <2>2. Points(s, r) \cap New = {}
    BY <1>1 DEF Points
  <2>3. IsFiniteSet(New) /\ Cardinality(New) = f.n
    BY <1>3, Column
  <2> HIDE DEF New
  <2>4. Cardinality(Points(t, r)) = Cardinality(Points(s, r)) + f.n - 0
    BY <1>2, <2>1, <2>2, <2>3, FS_Union, FS_EmptySet
  <2> QED
    BY <1>2, <1>3, <1>4, <2>4 DEF t
<1>5. CASE f.id # r
  <2>1. Points(t, r) = Points(s, r)
    BY <1>1, <1>5 DEF Points
  <2> QED
    BY <1>2, <1>5, <2>1 DEF t
<1> QED
  BY <1>4, <1>5

(* Taking a frame off takes its rows off.                                  *)
LEMMA RowsTail ==
    ASSUME NEW s \in Seq(ToGo), s # <<>>, NEW r
    PROVE  Rows(s, r) = Rows(Tail(s), r) + (IF Head(s).id = r THEN Head(s).n ELSE 0)
<1> DEFINE t == Tail(s)
           Later == {x \in (2..Len(s)) \X (1..MaxRows) :
                        s[x[1]].id = r /\ x[2] <= s[x[1]].n}
<1>1. /\ t \in Seq(ToGo) /\ Len(t) \in Nat /\ Len(s) = Len(t) + 1
      /\ \A i \in 1..Len(t) : t[i] = s[i + 1]
      /\ Head(s) = s[1] /\ Head(s) \in ToGo
  BY TailFacts
<1>2. /\ IsFiniteSet(Points(t, r)) /\ Rows(t, r) = Cardinality(Points(t, r))
      /\ Rows(t, r) \in Nat /\ Rows(s, r) = Cardinality(Points(s, r))
  BY <1>1, RowsType
<1>3. Head(s).n \in Nat /\ Head(s).n \in 0..MaxRows
  BY <1>1, RowsAssumption DEF ToGo
<1> HIDE DEF t
<1>4. IsFiniteSet(Later) /\ Cardinality(Later) = Cardinality(Points(t, r))
  <2> DEFINE f == [x \in Points(t, r) |-> <<x[1] + 1, x[2]>>]
  <2>1. f \in [Points(t, r) -> Later]
    BY <1>1 DEF Points
  <2>2. \A x, y \in Points(t, r) : f[x] = f[y] => x = y
    BY <1>1 DEF Points
  <2>3. \A y \in Later : /\ <<y[1] - 1, y[2]>> \in Points(t, r)
                         /\ f[<<y[1] - 1, y[2]>>] = y
    BY <1>1 DEF Points
  <2>4. \A y \in Later : \E x \in Points(t, r) : f[x] = y
    BY <2>3
  <2> HIDE DEF f, Later
  <2>5. ExistsBijection(Points(t, r), Later)
    BY <2>1, <2>2, <2>4, Fun_IsBij DEF ExistsBijection
  <2> QED
    BY <1>2, <2>5, FS_Bijection
<1>5. CASE Head(s).id = r
  <2> DEFINE First == {1} \X (1..Head(s).n)
  <2>1. Points(s, r) = Later \cup First
    BY <1>1, <1>3, <1>5, RowsAssumption DEF Points
  <2>2. Later \cap First = {}
    OBVIOUS
  <2>3. IsFiniteSet(First) /\ Cardinality(First) = Head(s).n
    BY <1>3, Column
  <2> HIDE DEF First, Later
  <2>4. Cardinality(Points(s, r)) = Cardinality(Points(t, r)) + Head(s).n - 0
    BY <1>2, <1>4, <2>1, <2>2, <2>3, FS_Union, FS_EmptySet
  <2> QED
    BY <1>2, <1>3, <1>5, <2>4 DEF t
<1>6. CASE Head(s).id # r
  <2>1. Points(s, r) = Later
    BY <1>1, <1>6 DEF Points
  <2> HIDE DEF Later
  <2> QED
    BY <1>2, <1>4, <1>6, <2>1 DEF t
<1> QED
  BY <1>5, <1>6

-----------------------------------------------------------------------------
(* The steps, as the rows see them.                                        *)

Reading(r) == go[r] \in {"first", "open", "pull"}

(* The ways a call ends for its caller, as one step.                       *)
Leaves(r, res) ==
    /\ Route(r)
    /\ End(r)
    /\ outcome' = [outcome EXCEPT ![r] = res]
    /\ \/ toWorker' = toWorker
       \/ toWorker' = Append(toWorker, Frame("ABORT", r))
    /\ \/ eof' = eof
       \/ eof' = [eof EXCEPT ![r] = TRUE] /\ frames[r] # <<>> /\ frames[r][1].op # "ROWS"
    /\ res = "ok" => /\ go[r] = "call" /\ frames[r] # <<>>
                     /\ frames[r][1].op = "EXEC_RESULT"
    /\ res = "eof" => \/ go[r] = "open" /\ pending[r] = 0 /\ eof[r]
                      \/ go[r] = "pull" /\ ~done[r] /\ frames[r] # <<>>
                         /\ frames[r][1].op = "ABORTED"
    /\ UNCHANGED <<callVars, done, watch, pending, got, toGo, word, workerVars>>

(* What a step of Next can be, the calls that end taken together.          *)
LEMMA RowCases ==
    ASSUME TypeOK, IssuedInv, ChainInv, [Next]_vars
    PROVE  \/ \E op \in {"EXEC", "QUERY"}, d \in Db : Issue(op, d)
           \/ \E r \in Id : CtxDone(r) \/ WatchStore(r) \/ WatchStop(r)
           \/ Receive
           \/ \E r \in Id, res \in {"ok", "error", "eof", "closed"} : Leaves(r, res)
           \/ \E r \in Id : TakeRows(r) \/ NextRow(r) \/ NextBatch(r)
           \/ DispatchCredit \/ DispatchAbort \/ DispatchRequest
           \/ \E k \in Db \cup {0} : StartExec(k) \/ StartQuery(k)
           \/ \E r \in Id : EndStep(r)
           \/ \E r \in Id, n \in 1..MaxRows : Flush(r, n)
           \/ Resume
           \/ UNCHANGED vars
<1> DEFINE Left(r) == \E res \in {"ok", "error", "eof", "closed"} : Leaves(r, res)
<1>0. \A r \in Id : frames[r] # <<>> => Head(frames[r]) = frames[r][1]
  BY TailFacts DEF TypeOK, CallTypeOK
<1>1. ASSUME NEW r \in Id, TakeReply(r) PROVE Left(r)
  <2> DEFINE res == IF Head(frames[r]).op = "EXEC_RESULT" THEN "ok" ELSE "error"
  <2>1. Leaves(r, res)
    BY <1>0, <1>1 DEF TakeReply, Leaves, Route, readVars
  <2> QED
    BY <2>1
<1>2. ASSUME NEW r \in Id, TakeFailure(r) PROVE Left(r)
  <2> DEFINE res == IF Head(frames[r]).op = "ABORTED" /\ go[r] = "pull" /\ ~done[r]
                    THEN "eof" ELSE "error"
  <2>1. Leaves(r, res)
    BY <1>0, <1>2 DEF TakeFailure, Leaves, Route, readVars
  <2> QED
    BY <2>1
<1>3. ASSUME NEW r \in Id, CtxReturn(r) PROVE Left(r)
  <2>1. Leaves(r, "error")
    BY <1>3 DEF CtxReturn, CloseWith, Leaves, Route, readVars
  <2> QED
    BY <2>1
<1>4. ASSUME NEW r \in Id, NextEnd(r) PROVE Left(r)
  <2>1. Leaves(r, "eof")
    BY <1>4 DEF NextEnd, CloseWith, Leaves, Route, readVars
  <2> QED
    BY <2>1
<1>5. ASSUME NEW r \in Id, Close(r) PROVE Left(r)
  <2> DEFINE res == IF done[r] THEN "error" ELSE "closed"
  <2>1. Leaves(r, res)
    BY <1>5 DEF Close, CloseWith, Leaves, Route, readVars
  <2> QED
    BY <2>1
<1> HIDE DEF Left
<1>6. CASE UNCHANGED vars
  BY <1>6
<1>7. CASE Next
  BY <1>1, <1>2, <1>3, <1>4, <1>5, <1>7, NextCases DEF Left
<1> QED
  BY <1>6, <1>7

(* Receive, for each route.                                                *)
LEMMA ReceiveFacts ==
    ASSUME TypeOK, Receive
    PROVE  /\ toGo # <<>> /\ toGo' = Tail(toGo)
           /\ toGo[1] \in ToGo /\ toGo[1].id \in Id /\ Head(toGo) = toGo[1]
           /\ Len(toGo) \in Nat /\ Len(toGo') = Len(toGo) - 1
           /\ \A i \in 1..Len(toGo') : toGo'[i] = toGo[i + 1]
           /\ 1 \in 1..Len(toGo)
           /\ \A i \in 1..Len(toGo') : i + 1 \in 1..Len(toGo)
           /\ \A r \in Id : frames'[r] = IF r = toGo[1].id /\ Route(r)
                                         THEN Append(frames[r], toGo[1])
                                         ELSE frames[r]
           /\ UNCHANGED <<callVars, go, done, watch, readVars, toWorker, word,
                          workerVars>>
<1>1. /\ toGo # <<>> /\ toGo \in Seq(ToGo) /\ toGo' = Tail(toGo)
      /\ frames \in [Id -> Seq(ToGo)]
  BY DEF Receive, TypeOK, SharedTypeOK, CallTypeOK
<1>2. /\ Head(toGo) = toGo[1] /\ toGo[1] \in ToGo
      /\ Len(toGo) \in Nat /\ Len(toGo) >= 1 /\ Len(toGo') = Len(toGo) - 1
      /\ \A i \in 1..Len(toGo') : toGo'[i] = toGo[i + 1]
  BY <1>1, TailFacts
<1>3. toGo[1].id \in Id
  BY <1>2 DEF ToGo
<1>4. frames' = IF Route(toGo[1].id)
                THEN [frames EXCEPT ![toGo[1].id] = Append(@, toGo[1])]
                ELSE frames
  BY <1>2 DEF Receive
<1>5. \A r \in Id : frames'[r] = IF r = toGo[1].id /\ Route(r)
                                  THEN Append(frames[r], toGo[1])
                                  ELSE frames[r]
  BY <1>1, <1>3, <1>4
<1> QED
  BY <1>1, <1>2, <1>3, <1>5 DEF Receive

(* TakeRows takes the first frame of the route.                            *)
LEMMA TakeRowsFacts ==
    ASSUME TypeOK, TerminalInv, NEW q \in Id, TakeRows(q)
    PROVE  /\ go[q] \in {"first", "pull"} /\ go' = [go EXCEPT ![q] = "open"]
           /\ frames[q] \in Seq(ToGo) /\ frames[q] # <<>>
           /\ Head(frames[q]) = frames[q][1] /\ 1 \in 1..Len(frames[q])
           /\ frames[q][1] \in ToGo
           /\ frames[q][1].op = "ROWS" /\ frames[q][1].id = q
           /\ FrameOK(frames[q][1], run)
           /\ frames' = [frames EXCEPT ![q] = Tail(frames[q])]
           /\ Len(frames[q]) \in Nat
           /\ Len(Tail(frames[q])) = Len(frames[q]) - 1
           /\ \A i \in 1..Len(Tail(frames[q])) :
                 Tail(frames[q])[i] = frames[q][i + 1] /\ i + 1 \in 1..Len(frames[q])
           /\ pending' = [pending EXCEPT ![q] = frames[q][1].n]
           /\ eof' = [eof EXCEPT ![q] = eof[q] \/ frames[q][1].eof]
           /\ UNCHANGED <<callVars, done, watch, outcome, got, toWorker, toGo, word,
                          workerVars>>
<1>1. /\ frames[q] \in Seq(ToGo) /\ frames[q] # <<>>
      /\ frames \in [Id -> Seq(ToGo)] /\ eof \in [Id -> BOOLEAN]
  BY DEF TakeRows, TypeOK, CallTypeOK, ReadTypeOK
<1>2. /\ Head(frames[q]) = frames[q][1] /\ frames[q][1] \in ToGo
      /\ Len(frames[q]) \in Nat /\ Len(frames[q]) >= 1
      /\ Len(Tail(frames[q])) = Len(frames[q]) - 1
      /\ \A i \in 1..Len(Tail(frames[q])) : Tail(frames[q])[i] = frames[q][i + 1]
  BY <1>1, TailFacts
<1>3. frames[q][1].id = q /\ FrameOK(frames[q][1], run)
  BY <1>2 DEF TerminalInv
<1> DEFINE f == frames[q][1]
<1>4. /\ f.op = "ROWS"
      /\ frames' = [frames EXCEPT ![q] = Tail(@)]
      /\ pending' = [pending EXCEPT ![q] = f.n]
      /\ eof' = [eof EXCEPT ![q] = @ \/ f.eof]
  BY <1>2 DEF TakeRows, EndsStream
<1> HIDE DEF f
<1>5. /\ frames' = [frames EXCEPT ![q] = Tail(frames[q])]
      /\ eof' = [eof EXCEPT ![q] = eof[q] \/ f.eof]
  BY <1>1, <1>4
<1>6. \A i \in 1..Len(Tail(frames[q])) : i + 1 \in 1..Len(frames[q])
  BY <1>2
<1>7. 1 \in 1..Len(frames[q])
  BY <1>2
<1> QED
  BY <1>1, <1>2, <1>3, <1>4, <1>5, <1>6, <1>7 DEF TakeRows, f

(* A batch or a terminal frame is posted, by a request that is not done.   *)
LEMMA PostFacts ==
    ASSUME TypeOK, NEW q \in Id,
           EndStep(q) \/ \E n \in 1..MaxRows : Flush(q, n)
    PROVE  \E f \in ToGo :
              /\ f.id = q /\ toGo' = Append(toGo, f)
              /\ Len(toGo) \in Nat /\ Len(toGo') = Len(toGo) + 1
              /\ \A i \in 1..Len(toGo) : toGo'[i] = toGo[i]
              /\ toGo'[Len(toGo) + 1] = f
              /\ run[q] \in {"queued", "running"}
              /\ \A r \in Id : r # q => run'[r] = run[r]
              /\ UNCHANGED <<goVars, toWorker, word, total>>
              /\ \/ /\ EndStep(q) /\ f.eof /\ run'[q] = "done"
                    /\ Ending(q, f.op, f.n)
                    /\ UNCHANGED <<left, credit>>
                 \/ /\ run[q] = "running" /\ req[q].op = "QUERY" /\ ~f.eof
                    /\ f.op = "ROWS" /\ f.n \in 1..MaxRows
                    /\ run'[q] = IF MustWait(credit[q] - 1, aborted[q])
                                 THEN "parked" ELSE "yielded"
                    /\ left' = [left EXCEPT ![q] = left[q] - f.n]
                    /\ credit' = [credit EXCEPT ![q] = credit[q] - 1]
                    /\ UNCHANGED <<aborted, early>> /\ ~aborted[q]
<1>0. toGo \in Seq(ToGo)
  BY DEF TypeOK, SharedTypeOK
<1>1. CASE EndStep(q)
  <2>1. PICK op \in {"ROWS", "ERROR", "ABORTED", "EXEC_RESULT"},
             n \in 0..MaxRows : Finish(q, op, n) /\ Ending(q, op, n)
    BY <1>1 DEF EndStep
  <2> DEFINE f == [op |-> op, id |-> q, n |-> n, eof |-> TRUE]
  <2>2. f \in ToGo /\ f.eof /\ f.id = q /\ Ending(q, f.op, f.n)
    BY <2>1 DEF ToGo
  <2>3. /\ run'[q] = "done" /\ toGo' = Append(toGo, f)
        /\ \A r \in Id : r # q => run'[r] = run[r]
    BY <2>1 DEF Finish, TypeOK, WorkerTypeOK
  <2>4. /\ UNCHANGED <<goVars, toWorker, word, total, left, credit>>
        /\ run[q] \in {"queued", "running"}
    BY <1>1 DEF EndStep, rowVars
  <2> HIDE DEF f
  <2> QED
    BY <1>0, <1>1, <2>2, <2>3, <2>4, AppendFacts
<1>2. ASSUME NEW n \in 1..MaxRows, Flush(q, n)
      PROVE  \E f \in ToGo :
              /\ f.id = q /\ toGo' = Append(toGo, f)
              /\ run[q] = "running" /\ req[q].op = "QUERY" /\ ~f.eof
              /\ f.op = "ROWS" /\ f.n \in 1..MaxRows
              /\ run'[q] = IF MustWait(credit[q] - 1, aborted[q])
                           THEN "parked" ELSE "yielded"
              /\ left' = [left EXCEPT ![q] = left[q] - f.n]
              /\ credit' = [credit EXCEPT ![q] = credit[q] - 1]
              /\ UNCHANGED <<aborted, early>> /\ ~aborted[q]
              /\ \A r \in Id : r # q => run'[r] = run[r]
              /\ UNCHANGED <<goVars, toWorker, word, total>>
  <2> DEFINE f == [op |-> "ROWS", id |-> q, n |-> n, eof |-> FALSE]
  <2>1. f \in ToGo /\ ~f.eof /\ f.id = q /\ f.op = "ROWS" /\ f.n = n
    BY RowsAssumption DEF ToGo
  <2>2. /\ toGo' = Append(toGo, f)
        /\ run[q] = "running" /\ req[q].op = "QUERY"
        /\ left' = [left EXCEPT ![q] = left[q] - n]
        /\ credit' = [credit EXCEPT ![q] = credit[q] - 1]
        /\ UNCHANGED <<goVars, toWorker, word, total, aborted, early>>
        /\ ~aborted[q]
    BY <1>2 DEF Flush
  <2>3. /\ run'[q] = IF MustWait(credit[q] - 1, aborted[q])
                     THEN "parked" ELSE "yielded"
        /\ \A r \in Id : r # q => run'[r] = run[r]
    BY <1>2 DEF Flush, TypeOK, WorkerTypeOK
  <2> HIDE DEF f
  <2> QED
    BY <2>1, <2>2, <2>3
<1>3. CASE \E n \in 1..MaxRows : Flush(q, n)
  <2>1. PICK f \in ToGo :
              /\ f.id = q /\ toGo' = Append(toGo, f)
              /\ run[q] = "running" /\ req[q].op = "QUERY" /\ ~f.eof
              /\ f.op = "ROWS" /\ f.n \in 1..MaxRows
              /\ run'[q] = IF MustWait(credit[q] - 1, aborted[q])
                           THEN "parked" ELSE "yielded"
              /\ left' = [left EXCEPT ![q] = left[q] - f.n]
              /\ credit' = [credit EXCEPT ![q] = credit[q] - 1]
              /\ UNCHANGED <<aborted, early>> /\ ~aborted[q]
              /\ \A r \in Id : r # q => run'[r] = run[r]
              /\ UNCHANGED <<goVars, toWorker, word, total>>
    BY <1>2, <1>3
  <2>2. /\ Len(toGo) \in Nat /\ Len(toGo') = Len(toGo) + 1
        /\ \A i \in 1..Len(toGo) : toGo'[i] = toGo[i]
        /\ toGo'[Len(toGo) + 1] = f
    BY <1>0, <2>1, AppendFacts
  <2> QED
    BY <2>1, <2>2
<1> QED
  BY <1>1, <1>3

-----------------------------------------------------------------------------
(* Each part of the invariant, step by step.                               *)

(* What never comes back: a call that is over, a context that is done, a   *)
(* request that has not begun.                                             *)
LEMMA Forwards ==
    ASSUME TypeOK, IssuedInv, WireInv, ChainInv, [Next]_vars, NEW r \in Id
    PROVE  /\ go[r] = "closed" => go'[r] = "closed"
           /\ done[r] => done'[r]
           /\ run'[r] \in {"none", "queued"} => run[r] \in {"none", "queued"}
<1> USE DEF TypeOK, CallTypeOK, WorkerTypeOK
<1>1. ASSUME NEW op \in {"EXEC", "QUERY"}, NEW d \in Db, Issue(op, d)
      PROVE  UNCHANGED <<done, run>> /\ (go[r] = "closed" => go'[r] = "closed")
  <2>1. nextId \in Id /\ UNCHANGED <<done, run>>
        /\ \A q \in Id : q # nextId => go'[q] = go[q]
    BY <1>1 DEF Issue, workerVars
  <2>2. go[nextId] = "unused"
    BY <2>1, MaxIdAssumption DEF IssuedInv, Issued, Id
  <2> QED
    BY <2>1, <2>2
<1>2. ASSUME NEW q \in Id, CtxDone(q) \/ WatchStore(q) \/ WatchStop(q)
      PROVE  UNCHANGED <<go, run>> /\ (done[r] => done'[r])
  BY <1>2 DEF CtxDone, WatchStore, WatchStop, workerVars
<1>3. CASE Receive
  BY <1>3, ReceiveFacts DEF workerVars
<1>4. ASSUME NEW q \in Id, NEW res, Leaves(q, res)
      PROVE  UNCHANGED <<done, run>> /\ (go[r] = "closed" => go'[r] = "closed")
  BY <1>4 DEF Leaves, End, workerVars
<1>5. ASSUME NEW q \in Id, TakeRows(q) \/ NextRow(q) \/ NextBatch(q)
      PROVE  UNCHANGED <<done, run>> /\ (go[r] = "closed" => go'[r] = "closed")
  BY <1>5 DEF TakeRows, NextRow, NextBatch, workerVars
<1>6. CASE DispatchCredit \/ DispatchAbort
  <2>1. UNCHANGED <<go, done>>
    BY <1>6 DEF DispatchCredit, DispatchAbort, goVars
  <2>2. run' = run \/ run' = Wake(Head(toWorker).id)
    BY <1>6 DEF DispatchCredit, DispatchAbort
  <2> QED
    BY <2>1, <2>2 DEF Wake
<1>7. CASE DispatchRequest
  <2>1. UNCHANGED <<go, done>>
    BY <1>7 DEF DispatchRequest, goVars
  <2>2. run' = [run EXCEPT ![Head(toWorker).id] = "queued"]
        /\ run[Head(toWorker).id] = "none"
    BY <1>7, PostedIssued DEF DispatchRequest
  <2> QED
    BY <2>1, <2>2
<1>8. ASSUME NEW k \in Db \cup {0}, StartExec(k) \/ StartQuery(k)
      PROVE  UNCHANGED <<go, done>>
             /\ (run'[r] \in {"none", "queued"} => run[r] \in {"none", "queued"})
  BY <1>8, HeadFacts DEF StartExec, StartQuery, goVars
<1>9. ASSUME NEW q \in Id, EndStep(q) \/ \E n \in 1..MaxRows : Flush(q, n)
      PROVE  UNCHANGED <<go, done>>
             /\ (run'[r] \in {"none", "queued"} => run[r] \in {"none", "queued"})
  <2>1. /\ UNCHANGED goVars /\ \A x \in Id : x # q => run'[x] = run[x]
        /\ run'[q] = "done" \/ run[q] = "running"
        /\ run[q] = "running" => run'[q] \in {"parked", "yielded", "done"}
    BY <1>9, PostFacts
  <2>2. CASE r = q
    BY <2>1, <2>2 DEF goVars
  <2>3. CASE r # q
    BY <2>1, <2>3 DEF goVars
  <2> QED
    BY <2>2, <2>3
<1>10. CASE Resume
  BY <1>10 DEF Resume, goVars
<1>11. CASE UNCHANGED vars
  BY <1>11 DEF vars, goVars, workerVars
<1> QED
  BY <1>1, <1>2, <1>3, <1>4, <1>5, <1>6, <1>7, <1>8, <1>9, <1>10, <1>11, RowCases
     DEF goVars

(* Every step keeps FreshInv: batches, credits and rows in hand come only  *)
(* of a request that has begun.                                            *)
LEMMA FreshStep ==
    ASSUME TypeOK, IssuedInv, WireInv, ChainInv, TerminalInv, FreshInv, [Next]_vars
    PROVE  FreshInv'
<1> DEFINE Unbegun(r) == run[r] \in {"none", "queued"}
           CreditOf(r) == \E i \in 1..Len(toWorker) : toWorker[i] = Frame("CREDIT", r)
           FrameOf(r) == \E i \in 1..Len(toGo) : toGo[i].id = r
<1>0. /\ toGo \in Seq(ToGo) /\ toWorker \in Seq(ToWorker)
      /\ go \in [Id -> {"unused", "call", "first", "open", "pull", "closed"}]
      /\ frames \in [Id -> Seq(ToGo)]
  BY DEF TypeOK, SharedTypeOK, CallTypeOK
<1>1. \A r \in Id : Unbegun(r)' => Unbegun(r)
  BY Forwards
<1>2. \A r \in Id : /\ req[r].op # "QUERY" => total[r] = 0
                    /\ Unbegun(r) => /\ total[r] = 0 /\ go[r] \notin {"open", "pull"}
                                     /\ frames[r] = <<>> /\ ~FrameOf(r)
                                     /\ ~CreditOf(r)
  BY DEF FreshInv
<1>3. ASSUME \A r \in Id :
                /\ req'[r].op # "QUERY" => total'[r] = 0
                /\ Unbegun(r)' => /\ total'[r] = 0 /\ go'[r] \notin {"open", "pull"}
                                  /\ frames'[r] = <<>> /\ ~FrameOf(r)'
                                  /\ ~CreditOf(r)'
      PROVE  FreshInv'
  BY <1>3 DEF FreshInv, Frame
<1>19. \A r \in Id : /\ toGo' = toGo => (FrameOf(r)' <=> FrameOf(r))
                     /\ toWorker' = toWorker => (CreditOf(r)' <=> CreditOf(r))
                     /\ run' = run => (Unbegun(r)' <=> Unbegun(r))
  BY DEF Frame
<1> HIDE DEF Unbegun, CreditOf, FrameOf
<1>4. ASSUME NEW m \in ToWorker, toWorker' = Append(toWorker, m), NEW r \in Id,
             CreditOf(r)'
      PROVE  CreditOf(r) \/ m = Frame("CREDIT", r)
  BY <1>0, <1>4, AppendFacts DEF Frame, CreditOf
<1>5. ASSUME toWorker # <<>>, toWorker' = Tail(toWorker), NEW r \in Id, CreditOf(r)'
      PROVE  CreditOf(r)
  <2>1. /\ Len(toWorker) \in Nat /\ Len(toWorker') = Len(toWorker) - 1
        /\ \A i \in 1..Len(toWorker') : toWorker'[i] = toWorker[i + 1]
    BY <1>0, <1>5, TailFacts
  <2>2. \A i \in 1..Len(toWorker') : i + 1 \in 1..Len(toWorker)
    BY <2>1
  <2> QED
    BY <1>5, <2>1, <2>2 DEF Frame, CreditOf
<1>6. ASSUME UNCHANGED <<req, total, toGo, toWorker>>,
             \A r \in Id : Unbegun(r) => go'[r] \notin {"open", "pull"}
                                          /\ frames'[r] = frames[r]
      PROVE  FreshInv'
  BY <1>1, <1>2, <1>3, <1>6, <1>19
<1>7. ASSUME NEW op \in {"EXEC", "QUERY"}, NEW d \in Db, Issue(op, d)
      PROVE  FreshInv'
  <2>1. /\ nextId \in Id /\ UNCHANGED <<frames, toGo, total, run>>
        /\ \A r \in Id : r # nextId => req'[r] = req[r] /\ go'[r] = go[r]
        /\ go'[nextId] \in {"call", "first"}
        /\ toWorker' = Append(toWorker, Frame(op, nextId))
        /\ Frame(op, nextId) \in ToWorker
        /\ \A r \in Id : Frame(op, nextId) # Frame("CREDIT", r)
    BY <1>7 DEF Issue, workerVars, rowVars, TypeOK, CallTypeOK, Frame, ToWorker
  <2>2. Unbegun(nextId)
    BY <2>1, MaxIdAssumption DEF IssuedInv, Issued, Id, Unbegun
  <2> QED
    BY <1>1, <1>2, <1>3, <1>4, <1>19, <2>1, <2>2
<1>8. ASSUME NEW q \in Id, \/ CtxDone(q) \/ WatchStore(q) \/ WatchStop(q)
                           \/ NextRow(q)
      PROVE  FreshInv'
  <2>1. UNCHANGED <<req, total, toGo, toWorker, go, frames>>
    BY <1>8 DEF CtxDone, WatchStore, WatchStop, NextRow, callVars, workerVars, rowVars
  <2> QED
    BY <1>2, <1>6, <2>1
<1>9. CASE Receive
  <2>1. /\ UNCHANGED <<req, total, toWorker, go>>
        /\ \A r \in Id : frames'[r] # frames[r] => FrameOf(r)
        /\ \A r \in Id : FrameOf(r)' => FrameOf(r)
    BY <1>9, ReceiveFacts DEF callVars, workerVars, rowVars, FrameOf
  <2> QED
    BY <1>1, <1>2, <1>3, <1>19, <2>1
<1>10. ASSUME NEW q \in Id, NEW res, Leaves(q, res)
       PROVE  FreshInv'
  <2>1. /\ UNCHANGED <<req, total, toGo>>
        /\ go' = [go EXCEPT ![q] = "closed"]
        /\ frames' = [frames EXCEPT ![q] = <<>>]
        /\ toWorker' = toWorker \/ toWorker' = Append(toWorker, Frame("ABORT", q))
        /\ Frame("ABORT", q) \in ToWorker
        /\ \A r \in Id : Frame("ABORT", q) # Frame("CREDIT", r)
    BY <1>10 DEF Leaves, End, callVars, workerVars, rowVars, Frame, ToWorker
  <2>2. \A r \in Id : CreditOf(r)' => CreditOf(r)
    BY <1>4, <1>19, <2>1
  <2> QED
    BY <1>0, <1>1, <1>2, <1>3, <1>19, <2>1, <2>2
<1>11. ASSUME NEW q \in Id, TakeRows(q)
       PROVE  FreshInv'
  <2>1. ~Unbegun(q)
    BY <1>2, <1>11 DEF TakeRows
  <2>2. UNCHANGED <<req, total, toGo, toWorker>>
    BY <1>11 DEF TakeRows, callVars, workerVars, rowVars
  <2>3. \A r \in Id : r # q => go'[r] = go[r] /\ frames'[r] = frames[r]
    BY <1>11 DEF TakeRows, TypeOK, CallTypeOK
  <2> QED
    BY <1>2, <1>6, <2>1, <2>2, <2>3
<1>12. ASSUME NEW q \in Id, NextBatch(q)
       PROVE  FreshInv'
  <2>1. ~Unbegun(q)
    BY <1>2, <1>12 DEF NextBatch
  <2>2. /\ UNCHANGED <<req, total, toGo, frames>>
        /\ \A r \in Id : r # q => go'[r] = go[r]
        /\ toWorker' = Append(toWorker, Frame("CREDIT", q))
        /\ Frame("CREDIT", q) \in ToWorker
        /\ \A r \in Id : r # q => Frame("CREDIT", q) # Frame("CREDIT", r)
    BY <1>0, <1>12 DEF NextBatch, callVars, workerVars, rowVars, Frame, ToWorker
  <2> QED
    BY <1>1, <1>2, <1>3, <1>4, <1>19, <2>1, <2>2
<1>13. CASE DispatchCredit \/ DispatchAbort \/ DispatchRequest
  <2>1. /\ UNCHANGED <<req, total, toGo, frames, go>>
        /\ toWorker # <<>> /\ toWorker' = Tail(toWorker)
    BY <1>13 DEF DispatchCredit, DispatchAbort, DispatchRequest, goVars, callVars,
       rowVars
  <2>2. \A r \in Id : CreditOf(r)' => CreditOf(r)
    BY <1>5, <2>1
  <2> QED
    BY <1>1, <1>2, <1>3, <1>19, <2>1, <2>2
<1>14. ASSUME NEW k \in Db \cup {0}, StartQuery(k)
       PROVE  FreshInv'
  <2> DEFINE p == Head(chain[k])
  <2>1. /\ p \in Id /\ req[p].op = "QUERY" /\ run' = [run EXCEPT ![p] = "running"]
        /\ UNCHANGED <<req, toGo, toWorker, frames, go>>
        /\ \E n \in 0..MaxRows : total' = [total EXCEPT ![p] = n]
    BY <1>14, HeadFacts DEF StartQuery, goVars, callVars
  <2>2. run'[p] = "running" /\ \A r \in Id : r # p => total'[r] = total[r]
    BY <2>1 DEF TypeOK, RowTypeOK, WorkerTypeOK
  <2> HIDE DEF p
  <2>3. \A r \in Id : Unbegun(r)' => r # p
    BY <2>2 DEF Unbegun
  <2> QED
    BY <1>1, <1>2, <1>3, <1>19, <2>1, <2>2, <2>3
<1>15. ASSUME NEW q \in Id, EndStep(q) \/ \E n \in 1..MaxRows : Flush(q, n)
       PROVE  FreshInv'
  <2>1. PICK f \in ToGo :
           /\ f.id = q
           /\ Len(toGo) \in Nat /\ Len(toGo') = Len(toGo) + 1
           /\ \A i \in 1..Len(toGo) : toGo'[i] = toGo[i]
           /\ toGo'[Len(toGo) + 1] = f
           /\ run'[q] \in {"done", "parked", "yielded"}
           /\ UNCHANGED <<goVars, toWorker, total>>
    BY <1>15, PostFacts
  <2>2. \A r \in Id : FrameOf(r)' => FrameOf(r) \/ r = q
    BY <2>1 DEF FrameOf
  <2>3. ~Unbegun(q)'
    BY <2>1 DEF Unbegun
  <2>4. UNCHANGED <<req, toWorker, frames, go, total>>
    BY <2>1 DEF goVars, callVars
  <2> QED
    BY <1>1, <1>2, <1>3, <1>19, <2>2, <2>3, <2>4
<1>16. ASSUME \/ Resume \/ \E k \in Db \cup {0} : StartExec(k)
              \/ UNCHANGED vars
       PROVE  FreshInv'
  <2>1. UNCHANGED <<req, total, toGo, toWorker, go, frames>>
    BY <1>16 DEF Resume, StartExec, vars, goVars, callVars, workerVars, rowVars
  <2> QED
    BY <1>2, <1>6, <2>1
<1> QED
  BY <1>7, <1>8, <1>9, <1>10, <1>11, <1>12, <1>13, <1>14, <1>15, <1>16, RowCases

(* Every step keeps LastInv: what ends a stream is posted once, behind its *)
(* batches, and the channel and the route keep the order.                  *)
LEMMA LastStep ==
    ASSUME TypeOK, IssuedInv, ChainInv, TerminalInv, LastInv, [Next]_vars
    PROVE  LastInv'
<1>0. /\ toGo \in Seq(ToGo) /\ Len(toGo) \in Nat
      /\ frames \in [Id -> Seq(ToGo)] /\ \A r \in Id : Len(frames[r]) \in Nat
      /\ eof \in [Id -> BOOLEAN]
  BY DEF TypeOK, SharedTypeOK, CallTypeOK, ReadTypeOK
<1>1. /\ \A i, j \in 1..Len(toGo) :
            i < j /\ toGo[i].id = toGo[j].id => ~toGo[i].eof
      /\ \A r \in Id : \A i, j \in 1..Len(frames[r]) : i < j => ~frames[r][i].eof
      /\ \A r \in Id : \A j \in 1..Len(toGo) : toGo[j].id = r =>
            ~eof[r] /\ \A i \in 1..Len(frames[r]) : ~frames[r][i].eof
      /\ \A r \in Id : eof[r] => frames[r] = <<>>
  BY DEF LastInv
<1>2. ASSUME \A i, j \in 1..Len(toGo') :
                i < j /\ toGo'[i].id = toGo'[j].id => ~toGo'[i].eof,
             \A r \in Id : \A i, j \in 1..Len(frames'[r]) : i < j => ~frames'[r][i].eof,
             \A r \in Id : \A j \in 1..Len(toGo') : toGo'[j].id = r =>
                ~eof'[r] /\ \A i \in 1..Len(frames'[r]) : ~frames'[r][i].eof,
             \A r \in Id : eof'[r] => frames'[r] = <<>>
      PROVE  LastInv'
  BY <1>2 DEF LastInv
<1>3. CASE UNCHANGED <<toGo, frames, eof>>
  BY <1>3, <1>1, <1>2
<1>4. ASSUME NEW q \in Id, toGo' = toGo,
             \A r \in Id : r # q => frames'[r] = frames[r] /\ eof'[r] = eof[r],
             \A i, j \in 1..Len(frames'[q]) : i < j => ~frames'[q][i].eof,
             \A j \in 1..Len(toGo) : toGo[j].id = q =>
                ~eof'[q] /\ \A i \in 1..Len(frames'[q]) : ~frames'[q][i].eof,
             eof'[q] => frames'[q] = <<>>
      PROVE  LastInv'
  <2>1. ASSUME NEW r \in Id
        PROVE  /\ \A i, j \in 1..Len(frames'[r]) : i < j => ~frames'[r][i].eof
               /\ \A j \in 1..Len(toGo) : toGo[j].id = r =>
                     ~eof'[r] /\ \A i \in 1..Len(frames'[r]) : ~frames'[r][i].eof
               /\ eof'[r] => frames'[r] = <<>>
    <3>1. CASE r = q
      BY <3>1, <1>4
    <3>2. CASE r # q
      <4>1. frames'[r] = frames[r] /\ eof'[r] = eof[r]
        BY <3>2, <1>4
      <4> QED
        BY <4>1, <1>1
    <3> QED
      BY <3>1, <3>2
  <2>2. toGo' = toGo /\ \A i, j \in 1..Len(toGo) :
                            i < j /\ toGo[i].id = toGo[j].id => ~toGo[i].eof
    BY <1>1, <1>4
  <2> QED
    BY <2>1, <2>2, <1>2
<1>5. CASE Receive
  <2> DEFINE f == toGo[1]
  <2>1. /\ 1 \in 1..Len(toGo) /\ f.id \in Id /\ f \in ToGo
        /\ \A i \in 1..Len(toGo') : toGo'[i] = toGo[i + 1] /\ i + 1 \in 1..Len(toGo)
        /\ \A r \in Id : frames'[r] = IF r = f.id /\ Route(r) THEN Append(frames[r], f)
                                                             ELSE frames[r]
        /\ eof' = eof /\ Len(toGo') = Len(toGo) - 1
    BY <1>5, ReceiveFacts DEF readVars
  <2>2. /\ ~eof[f.id] /\ \A i \in 1..Len(frames[f.id]) : ~frames[f.id][i].eof
        /\ \A j \in 2..Len(toGo) : toGo[j].id = f.id => ~f.eof
    BY <1>1, <2>1
  <2> HIDE DEF f
  <2>3. ASSUME NEW r \in Id
        PROVE  \/ frames'[r] = frames[r]
               \/ /\ r = f.id /\ Len(frames'[r]) = Len(frames[r]) + 1
                  /\ \A i \in 1..Len(frames[r]) : frames'[r][i] = frames[r][i]
                  /\ frames'[r][Len(frames[r]) + 1] = f
    <3>1. CASE frames'[r] = frames[r]
      BY <3>1
    <3>2. CASE r = f.id /\ frames'[r] = Append(frames[r], f)
      <4>1. f \in ToGo /\ frames[r] \in Seq(ToGo)
        BY <1>0, <2>1
      <4> QED
        BY <3>2, <4>1, AppendFacts
    <3> QED
      BY <2>1, <3>1, <3>2
  <2>4. \A i, j \in 1..Len(toGo') :
           i < j /\ toGo'[i].id = toGo'[j].id => ~toGo'[i].eof
    <3>1. \A i, j \in 1..Len(toGo') :
             i < j => /\ i + 1 < j + 1 /\ toGo'[i] = toGo[i + 1] /\ toGo'[j] = toGo[j + 1]
                      /\ i + 1 \in 1..Len(toGo) /\ j + 1 \in 1..Len(toGo)
      BY <1>0, <2>1
    <3> QED
      BY <1>1, <3>1
  <2>5. \A r \in Id : \A i, j \in 1..Len(frames'[r]) : i < j => ~frames'[r][i].eof
    <3> SUFFICES ASSUME NEW r \in Id, NEW i \in 1..Len(frames'[r]),
                        NEW j \in 1..Len(frames'[r]), i < j
                 PROVE  ~frames'[r][i].eof
      OBVIOUS
    <3>1. CASE frames'[r] = frames[r]
      BY <1>1, <3>1
    <3>2. CASE /\ r = f.id /\ Len(frames'[r]) = Len(frames[r]) + 1
               /\ \A h \in 1..Len(frames[r]) : frames'[r][h] = frames[r][h]
      <4>1. i \in 1..Len(frames[r])
        BY <1>0, <3>2
      <4> QED
        BY <2>2, <3>2, <4>1
    <3> QED
      BY <2>3, <3>1, <3>2
  <2>6. ASSUME NEW r \in Id, NEW j \in 1..Len(toGo'), toGo'[j].id = r
        PROVE  ~eof'[r] /\ \A i \in 1..Len(frames'[r]) : ~frames'[r][i].eof
    <3>1. /\ ~eof[r] /\ \A i \in 1..Len(frames[r]) : ~frames[r][i].eof
          /\ r = f.id => ~f.eof
      <4>1. j + 1 \in 2..Len(toGo) /\ j + 1 \in 1..Len(toGo) /\ toGo[j + 1].id = r
        BY <1>0, <2>1, <2>6
      <4> QED
        BY <1>1, <2>2, <4>1
    <3> QED
      BY <1>0, <2>1, <2>3, <3>1
  <2>7. \A r \in Id : eof'[r] => frames'[r] = <<>>
    BY <1>1, <2>1, <2>2
  <2> QED
    BY <1>2, <2>4, <2>5, <2>6, <2>7
<1>6. ASSUME NEW q \in Id, NEW res, Leaves(q, res)
      PROVE  LastInv'
  <2>1. /\ toGo' = toGo /\ frames'[q] = <<>>
        /\ \A r \in Id : r # q => frames'[r] = frames[r] /\ eof'[r] = eof[r]
        /\ eof'[q] => eof[q] \/ (frames[q] # <<>> /\ frames[q][1].op # "ROWS")
    BY <1>0, <1>6 DEF Leaves, End
  <2>2. frames[q] # <<>> => 1 \in 1..Len(frames[q])
    BY <1>0
  <2>3. ASSUME NEW j \in 1..Len(toGo), toGo[j].id = q
        PROVE  ~eof'[q]
    BY <1>1, <2>1, <2>2, <2>3 DEF TerminalInv, FrameOK
  <2>4. \A i \in 1..Len(frames'[q]) : FALSE
    BY <2>1
  <2>5. \A j \in 1..Len(toGo) : toGo[j].id = q =>
           ~eof'[q] /\ \A i \in 1..Len(frames'[q]) : ~frames'[q][i].eof
    BY <2>3, <2>4
  <2> QED
    BY <1>4, <2>1, <2>4, <2>5
<1>7. ASSUME NEW q \in Id, TakeRows(q)
      PROVE  LastInv'
  <2> DEFINE t == frames[q]
  <2>1. /\ toGo' = toGo /\ t # <<>> /\ 1 \in 1..Len(t) /\ frames'[q] = Tail(t)
        /\ \A r \in Id : r # q => frames'[r] = frames[r] /\ eof'[r] = eof[r]
        /\ eof'[q] = (eof[q] \/ t[1].eof)
        /\ Len(Tail(t)) = Len(t) - 1
        /\ \A i \in 1..Len(Tail(t)) : Tail(t)[i] = t[i + 1] /\ i + 1 \in 1..Len(t)
    BY <1>0, <1>7, TakeRowsFacts
  <2>2. ~eof[q]
    BY <1>1, <2>1
  <2>3. /\ \A i, j \in 1..Len(t) : i < j => ~t[i].eof
        /\ \A j \in 1..Len(toGo) : toGo[j].id = q =>
              ~eof[q] /\ \A i \in 1..Len(t) : ~t[i].eof
        /\ Len(t) \in Nat /\ t \in Seq(ToGo)
    BY <1>0, <1>1
  <2> HIDE DEF t
  <2>4. t[1].eof => Tail(t) = <<>>
    <3>1. ASSUME t[1].eof PROVE Len(t) = 1
      <4>1. CASE Len(t) > 1
        <5>1. Len(t) \in 1..Len(t) /\ 1 < Len(t)
          BY <2>3, <4>1
        <5> QED
          BY <2>1, <2>3, <3>1, <5>1
      <4> QED
        BY <2>1, <2>3, <4>1
    <3> QED
      BY <2>1, <2>3, <3>1
  <2>5. \A i, j \in 1..Len(Tail(t)) : i < j => ~Tail(t)[i].eof
    <3>1. \A i, j \in 1..Len(Tail(t)) : i < j => i + 1 < j + 1
      OBVIOUS
    <3> QED
      BY <2>1, <2>3, <3>1
  <2>6. \A j \in 1..Len(toGo) : toGo[j].id = q =>
           ~eof'[q] /\ \A i \in 1..Len(Tail(t)) : ~Tail(t)[i].eof
    BY <2>1, <2>3
  <2>7. eof'[q] => Tail(t) = <<>>
    BY <2>1, <2>2, <2>4
  <2>8. /\ toGo' = toGo /\ frames'[q] = Tail(t)
        /\ \A r \in Id : r # q => frames'[r] = frames[r] /\ eof'[r] = eof[r]
    BY <2>1
  <2> QED
    BY <1>4, <2>5, <2>6, <2>7, <2>8
<1>8. ASSUME NEW q \in Id, EndStep(q) \/ \E n \in 1..MaxRows : Flush(q, n)
      PROVE  LastInv'
  <2>1. PICK f \in ToGo :
           /\ f.id = q /\ Len(toGo') = Len(toGo) + 1
           /\ \A i \in 1..Len(toGo) : toGo'[i] = toGo[i]
           /\ toGo'[Len(toGo) + 1] = f
           /\ run[q] \in {"queued", "running"}
           /\ UNCHANGED goVars
    BY <1>8, PostFacts
  <2>2. UNCHANGED <<frames, eof>>
    BY <2>1 DEF goVars, readVars
  <2>3. /\ ~eof[q] /\ \A i \in 1..Len(frames[q]) : ~frames[q][i].eof
        /\ \A i \in 1..Len(toGo) : toGo[i].id = q => ~toGo[i].eof
    BY <2>1 DEF TerminalInv, FrameOK
  <2>4. \A i, j \in 1..Len(toGo') :
           i < j /\ toGo'[i].id = toGo'[j].id => ~toGo'[i].eof
    <3> SUFFICES ASSUME NEW i \in 1..Len(toGo'), NEW j \in 1..Len(toGo'), i < j,
                        toGo'[i].id = toGo'[j].id
                 PROVE  ~toGo'[i].eof
      OBVIOUS
    <3>1. i \in 1..Len(toGo) /\ toGo'[i] = toGo[i]
      BY <1>0, <2>1
    <3>2. CASE j = Len(toGo) + 1
      BY <2>1, <2>3, <3>1, <3>2
    <3>3. CASE j \in 1..Len(toGo)
      BY <1>1, <2>1, <3>1, <3>3
    <3> QED
      BY <1>0, <2>1, <3>2, <3>3
  <2>5. \A r \in Id : \A j \in 1..Len(toGo') : toGo'[j].id = r =>
           ~eof[r] /\ \A i \in 1..Len(frames[r]) : ~frames[r][i].eof
    <3>1. \A j \in 1..Len(toGo') : j \in 1..Len(toGo) \/ j = Len(toGo) + 1
      BY <1>0, <2>1
    <3> QED
      BY <1>1, <2>1, <2>3, <3>1
  <2> QED
    BY <1>1, <1>2, <2>2, <2>4, <2>5
<1>9. ASSUME \/ \E op \in {"EXEC", "QUERY"}, d \in Db : Issue(op, d)
             \/ DispatchCredit \/ DispatchAbort \/ DispatchRequest \/ Resume
             \/ \E k \in Db \cup {0} : StartExec(k) \/ StartQuery(k)
             \/ \E q \in Id : \/ CtxDone(q) \/ WatchStore(q) \/ WatchStop(q)
                              \/ NextRow(q) \/ NextBatch(q)
             \/ UNCHANGED vars
      PROVE  UNCHANGED <<toGo, frames, eof>>
  BY <1>9 DEF Issue, DispatchCredit, DispatchAbort, DispatchRequest, Resume,
     StartExec, StartQuery, CtxDone, WatchStore, WatchStop, NextRow, NextBatch,
     vars, goVars, readVars
<1> QED
  BY <1>3, <1>5, <1>6, <1>7, <1>8, <1>9, RowCases

(* The word of a database holds nothing, or the id of a call whose context *)
(* is done.                                                                *)
LEMMA WordStep ==
    ASSUME TypeOK, IssuedInv, WireInv, ChainInv, [Next]_vars,
           \A d \in Db : word[d] # 0 => done[word[d]]
    PROVE  \A d \in Db : word'[d] # 0 => done'[word'[d]]
<1>1. \A r \in Id : done[r] => done'[r]
  BY Forwards
<1>2. word \in [Db -> {0} \cup Id]
  BY DEF TypeOK, SharedTypeOK
<1>3. CASE UNCHANGED word
  BY <1>1, <1>2, <1>3
<1>4. ASSUME NEW q \in Id, WatchStore(q)
      PROVE  \A d \in Db : word'[d] # 0 => done'[word'[d]]
  <2>1. done[q] /\ done' = done /\ word' = [word EXCEPT ![req[q].db] = q]
    BY <1>4 DEF WatchStore
  <2> QED
    BY <1>2, <2>1
<1>5. ASSUME \/ \E op \in {"EXEC", "QUERY"}, d \in Db : Issue(op, d)
             \/ Receive
             \/ \E q \in Id : \/ CtxDone(q) \/ WatchStop(q)
                              \/ TakeRows(q) \/ NextRow(q) \/ NextBatch(q)
                              \/ EndStep(q) \/ \E n \in 1..MaxRows : Flush(q, n)
             \/ \E q \in Id, res \in {"ok", "error", "eof", "closed"} : Leaves(q, res)
             \/ DispatchCredit \/ DispatchAbort \/ DispatchRequest \/ Resume
             \/ \E k \in Db \cup {0} : StartExec(k) \/ StartQuery(k)
             \/ UNCHANGED vars
      PROVE  UNCHANGED word
  BY <1>5 DEF Issue, Receive, CtxDone, WatchStop, TakeRows, NextRow, NextBatch,
     EndStep, Flush, Leaves, DispatchCredit, DispatchAbort, DispatchRequest, Resume,
     StartExec, StartQuery, vars
<1> QED
  BY <1>3, <1>4, <1>5, RowCases

(* Forget remembers no other stream.                                       *)
LEMMA ForgottenEarly ==
    ASSUME early \in Seq(Id), \A i, j \in 1..Len(early) : early[i] = early[j] => i = j,
           NEW q \in Id, early' = Forget(early, q)
    PROVE  \A r \in Id : InEarly(r)' => InEarly(r)
<1>1. PICK e : e = early
  OBVIOUS
<1>2. e \in Seq(Id)
  BY <1>1
<1>3. \A i, j \in 1..Len(e) : e[i] = e[j] => i = j
  BY <1>1, Zenon
<1>4. Forgot(Forget(e, q), e, q)
  BY <1>2, <1>3, ForgetFacts
<1>5. PICK s : s = Forget(e, q)
  OBVIOUS
<1>6. \A x : (\E i \in 1..Len(s) : s[i] = x) => \E i \in 1..Len(e) : e[i] = x
  BY <1>4, <1>5 DEF Forgot
<1>7. early' = s
  BY <1>1, <1>5
<1> QED
  BY <1>1, <1>6, <1>7 DEF InEarly

(* Only a call that is over is being aborted.                              *)
Told(r) == aborted[r] \/ InEarly(r) \/ Posted("ABORT", r)

LEMMA ToldStep ==
    ASSUME TypeOK, IssuedInv, WireInv, ChainInv, EarlyInv, [Next]_vars,
           \A r \in Id : Told(r) => go[r] = "closed"
    PROVE  \A r \in Id : Told(r)' => go'[r] = "closed"
<1>0. /\ toWorker \in Seq(ToWorker) /\ early \in Seq(Id) /\ aborted \in [Id -> BOOLEAN]
      /\ go \in [Id -> {"unused", "call", "first", "open", "pull", "closed"}]
      /\ Len(early) <= MaxEarlyAborts
      /\ \A i, j \in 1..Len(early) : early[i] = early[j] => i = j
  BY DEF TypeOK, SharedTypeOK, WorkerTypeOK, CallTypeOK, EarlyInv
<1>1. \A r \in Id : go[r] = "closed" => go'[r] = "closed"
  BY Forwards
<1>2. ASSUME \A r \in Id : Told(r)' => Told(r) \/ go'[r] = "closed"
      PROVE  \A r \in Id : Told(r)' => go'[r] = "closed"
  BY <1>1, <1>2
<1>3. ASSUME UNCHANGED <<aborted, early, toWorker>>
      PROVE  \A r \in Id : Told(r)' => Told(r)
  BY <1>3 DEF Told, InEarly, Posted
<1>4. ASSUME NEW m \in ToWorker, toWorker' = Append(toWorker, m),
             UNCHANGED <<aborted, early>>
      PROVE  \A r \in Id : Told(r)' => Told(r) \/ m = Frame("ABORT", r)
  <2>1. /\ Len(toWorker) \in Nat /\ Len(toWorker') = Len(toWorker) + 1
        /\ \A i \in 1..Len(toWorker) : toWorker'[i] = toWorker[i]
        /\ toWorker'[Len(toWorker) + 1] = m
    BY <1>0, <1>4, AppendFacts
  <2>2. \A r \in Id : Posted("ABORT", r)' => Posted("ABORT", r) \/ m = Frame("ABORT", r)
    BY <2>1 DEF Posted, Frame
  <2> QED
    BY <1>4, <2>2 DEF Told, InEarly
<1>5. ASSUME toWorker # <<>>, toWorker' = Tail(toWorker)
      PROVE  \A r \in Id : Posted("ABORT", r)' => Posted("ABORT", r)
  <2>1. /\ Len(toWorker) \in Nat /\ Len(toWorker') = Len(toWorker) - 1
        /\ \A i \in 1..Len(toWorker') : toWorker'[i] = toWorker[i + 1]
    BY <1>0, <1>5, TailFacts
  <2>2. \A i \in 1..Len(toWorker') : i + 1 \in 1..Len(toWorker)
    BY <2>1
  <2> QED
    BY <2>1, <2>2 DEF Posted, Frame
<1>6. ASSUME NEW q \in Id, early' = Forget(early, q)
      PROVE  \A r \in Id : InEarly(r)' => InEarly(r)
  <2>1. early \in Seq(Id)
    BY <1>0
  <2>2. \A i, j \in 1..Len(early) : early[i] = early[j] => i = j
    BY DEF EarlyInv
  <2> QED
    BY <1>6, <2>1, <2>2, ForgottenEarly
<1>7. ASSUME NEW op \in {"EXEC", "QUERY"}, NEW d \in Db, Issue(op, d)
      PROVE  \A r \in Id : Told(r)' => Told(r)
  <2>1. /\ UNCHANGED <<aborted, early>>
        /\ toWorker' = Append(toWorker, Frame(op, nextId))
        /\ Frame(op, nextId) \in ToWorker
        /\ \A r \in Id : Frame(op, nextId) # Frame("ABORT", r)
    BY <1>7 DEF Issue, workerVars, Frame, ToWorker
  <2> QED
    BY <1>4, <2>1
<1>8. ASSUME NEW q \in Id, NEW res, Leaves(q, res)
      PROVE  \A r \in Id : Told(r)' => Told(r) \/ go'[r] = "closed"
  <2>1. /\ UNCHANGED <<aborted, early>> /\ go'[q] = "closed"
        /\ toWorker' = toWorker \/ toWorker' = Append(toWorker, Frame("ABORT", q))
        /\ Frame("ABORT", q) \in ToWorker
        /\ \A r \in Id : Frame("ABORT", q) = Frame("ABORT", r) => r = q
    BY <1>0, <1>8 DEF Leaves, End, workerVars, Frame, ToWorker
  <2> QED
    BY <1>3, <1>4, <2>1
<1>9. ASSUME NEW q \in Id, NextBatch(q)
      PROVE  \A r \in Id : Told(r)' => Told(r)
  <2>1. /\ UNCHANGED <<aborted, early>>
        /\ toWorker' = Append(toWorker, Frame("CREDIT", q))
        /\ Frame("CREDIT", q) \in ToWorker
        /\ \A r \in Id : Frame("CREDIT", q) # Frame("ABORT", r)
    BY <1>9 DEF NextBatch, workerVars, Frame, ToWorker
  <2> QED
    BY <1>4, <2>1
<1>10. CASE DispatchCredit \/ DispatchRequest
  <2>1. UNCHANGED <<aborted, early>> /\ toWorker # <<>> /\ toWorker' = Tail(toWorker)
    BY <1>10 DEF DispatchCredit, DispatchRequest
  <2>2. \A r \in Id : Told(r)' => Told(r)
    BY <1>5, <2>1 DEF Told, InEarly
  <2> QED
    BY <1>2, <2>2
<1>11. CASE DispatchAbort
  <2> DEFINE p == Head(toWorker).id
  <2>1. /\ toWorker # <<>> /\ toWorker' = Tail(toWorker) /\ go' = go
        /\ toWorker[1] = Frame("ABORT", p) /\ p \in Id /\ 1 \in 1..Len(toWorker)
        /\ \/ aborted' = [aborted EXCEPT ![p] = TRUE] /\ early' = early
           \/ aborted' = aborted /\ early' = Remember(early, p)
    <3>1. toWorker # <<>> /\ Head(toWorker).op = "ABORT"
      BY <1>11 DEF DispatchAbort
    <3>2. Head(toWorker) = toWorker[1] /\ toWorker[1] \in ToWorker /\ Len(toWorker) >= 1
          /\ Len(toWorker) \in Nat
      BY <1>0, <3>1, TailFacts
    <3>3. toWorker[1] = Frame("ABORT", p) /\ p \in Id
      BY <3>1, <3>2 DEF ToWorker, Frame
    <3> QED
      BY <1>11, <3>1, <3>2, <3>3 DEF DispatchAbort, goVars
  <2> HIDE DEF p
  <2>2. go[p] = "closed"
    BY <2>1 DEF Told, Posted
  <2>3. \A r \in Id : InEarly(r)' => InEarly(r) \/ r = p
    <3>1. \A i \in 1..Len(Remember(early, p)) :
             Remember(early, p)[i] = p
             \/ \E j \in 1..Len(early) : early[j] = Remember(early, p)[i]
      BY <1>0, <2>1, RememberFacts
    <3> QED
      BY <2>1, <3>1 DEF InEarly
  <2>4. \A r \in Id : aborted'[r] => aborted[r] \/ r = p
    BY <1>0, <2>1
  <2>5. \A r \in Id : Told(r)' => Told(r) \/ r = p
    BY <1>5, <2>1, <2>3, <2>4 DEF Told
  <2> QED
    BY <1>2, <2>1, <2>2, <2>5
<1>12. ASSUME NEW k \in Db \cup {0}, StartQuery(k)
       PROVE  \A r \in Id : Told(r)' => Told(r)
  <2> DEFINE p == Head(chain[k])
  <2>1. /\ p \in Id /\ aborted' = [aborted EXCEPT ![p] = InEarly(p)]
        /\ early' = Forget(early, p) /\ toWorker' = toWorker
    BY <1>12, HeadFacts DEF StartQuery
  <2> HIDE DEF p
  <2>2. \A r \in Id : InEarly(r)' => InEarly(r)
    BY <1>6, <2>1
  <2>3. \A r \in Id : aborted'[r] => aborted[r] \/ InEarly(r)
    BY <1>0, <2>1
  <2> QED
    BY <2>1, <2>2, <2>3 DEF Told, Posted
<1>13. ASSUME NEW q \in Id, EndStep(q)
       PROVE  \A r \in Id : Told(r)' => Told(r)
  <2>1. early' = Forget(early, q) /\ UNCHANGED <<aborted, toWorker>>
    BY <1>13 DEF EndStep, Finish
  <2> QED
    BY <1>6, <2>1 DEF Told, Posted
<1>14. ASSUME \/ Receive \/ Resume
              \/ \E q \in Id : \/ CtxDone(q) \/ WatchStore(q) \/ WatchStop(q)
                               \/ TakeRows(q) \/ NextRow(q)
                               \/ \E n \in 1..MaxRows : Flush(q, n)
              \/ \E k \in Db \cup {0} : StartExec(k)
              \/ UNCHANGED vars
       PROVE  UNCHANGED <<aborted, early, toWorker>>
  BY <1>14 DEF Receive, Resume, CtxDone, WatchStore, WatchStop, TakeRows, NextRow,
     Flush, StartExec, vars, workerVars
<1> HIDE DEF Told
<1> QED
  BY <1>2, <1>3, <1>7, <1>8, <1>9, <1>10, <1>11, <1>12, <1>13, <1>14, RowCases

(* Every step keeps AbandonInv.                                            *)
LEMMA AbandonStep ==
    ASSUME TypeOK, IssuedInv, WireInv, ChainInv, EarlyInv, TerminalInv, AbandonInv,
           [Next]_vars
    PROVE  AbandonInv'
<1> DEFINE Excused(r) == go[r] = "closed" \/ done[r]
           Unsaid(r) == /\ \A i \in 1..Len(frames[r]) : frames[r][i].op # "ABORTED"
                        /\ \A i \in 1..Len(toGo) : toGo[i].id = r => toGo[i].op # "ABORTED"
<1>0. toGo \in Seq(ToGo) /\ frames \in [Id -> Seq(ToGo)]
  BY DEF TypeOK, SharedTypeOK, CallTypeOK
<1>1. /\ \A d \in Db : word[d] # 0 => done[word[d]]
      /\ \A r \in Id : Told(r) => go[r] = "closed"
      /\ \A r \in Id : ~Excused(r) => Unsaid(r)
  BY DEF AbandonInv, Told
<1>2. \A d \in Db : word'[d] # 0 => done'[word'[d]]
  BY <1>1, WordStep
<1>3. \A r \in Id : Told(r)' => go'[r] = "closed"
  BY <1>1, ToldStep
<1>4. \A r \in Id : Excused(r) => Excused(r)'
  BY Forwards
<1>5. ASSUME \A r \in Id : Unsaid(r) => Unsaid(r)' \/ Excused(r)
      PROVE  AbandonInv'
  <2>1. \A r \in Id : ~Excused(r)' => Unsaid(r)'
    BY <1>1, <1>4, <1>5
  <2> QED
    BY <1>2, <1>3, <2>1 DEF AbandonInv, Told
<1>6. CASE UNCHANGED <<frames, toGo>>
  BY <1>5, <1>6
<1>7. CASE Receive
  <2>1. /\ toGo[1].id \in Id /\ toGo[1] \in ToGo /\ 1 \in 1..Len(toGo)
        /\ \A i \in 1..Len(toGo') : toGo'[i] = toGo[i + 1] /\ i + 1 \in 1..Len(toGo)
        /\ \A r \in Id : frames'[r] = IF r = toGo[1].id /\ Route(r)
                                      THEN Append(frames[r], toGo[1])
                                      ELSE frames[r]
    BY <1>7, ReceiveFacts
  <2>2. ASSUME NEW r \in Id, Unsaid(r) PROVE Unsaid(r)'
    <3>1. \A i \in 1..Len(toGo') : toGo'[i].id = r => toGo'[i].op # "ABORTED"
      BY <2>1, <2>2
    <3>2. CASE r = toGo[1].id /\ Route(r)
      <4>1. frames'[r] = Append(frames[r], toGo[1]) /\ toGo[1].op # "ABORTED"
        BY <2>1, <2>2, <3>2
      <4>2. /\ Len(frames'[r]) = Len(frames[r]) + 1 /\ Len(frames[r]) \in Nat
            /\ \A i \in 1..Len(frames[r]) : frames'[r][i] = frames[r][i]
            /\ frames'[r][Len(frames[r]) + 1] = toGo[1]
        BY <1>0, <2>1, <4>1, AppendFacts
      <4>3. \A i \in 1..Len(frames'[r]) : i \in 1..Len(frames[r]) \/ i = Len(frames[r]) + 1
        BY <4>2
      <4> QED
        BY <2>2, <3>1, <4>1, <4>2, <4>3
    <3>3. CASE ~(r = toGo[1].id /\ Route(r))
      BY <2>1, <2>2, <3>1, <3>3
    <3> QED
      BY <3>2, <3>3
  <2> QED
    BY <1>5, <2>2
<1>8. ASSUME NEW q \in Id, NEW res, Leaves(q, res)
      PROVE  AbandonInv'
  <2>1. /\ toGo' = toGo /\ frames'[q] = <<>>
        /\ \A r \in Id : r # q => frames'[r] = frames[r]
    BY <1>0, <1>8 DEF Leaves, End
  <2>2. \A i \in 1..Len(frames'[q]) : FALSE
    BY <2>1
  <2>3. \A r \in Id : Unsaid(r) => Unsaid(r)'
    BY <2>1, <2>2
  <2> QED
    BY <1>5, <2>3
<1>9. ASSUME NEW q \in Id, TakeRows(q)
      PROVE  AbandonInv'
  <2>1. /\ toGo' = toGo
        /\ \A r \in Id : r # q => frames'[r] = frames[r]
        /\ frames'[q] = Tail(frames[q])
        /\ \A i \in 1..Len(Tail(frames[q])) :
              Tail(frames[q])[i] = frames[q][i + 1] /\ i + 1 \in 1..Len(frames[q])
    BY <1>0, <1>9, TakeRowsFacts
  <2>2. ASSUME NEW r \in Id, Unsaid(r) PROVE Unsaid(r)'
    <3>1. CASE r = q
      <4>1. \A i \in 1..Len(Tail(frames[q])) : Tail(frames[q])[i].op # "ABORTED"
        BY <2>1, <2>2, <3>1
      <4> QED
        BY <2>1, <2>2, <3>1, <4>1
    <3>2. CASE r # q
      BY <2>1, <2>2, <3>2
    <3> QED
      BY <3>1, <3>2
  <2> QED
    BY <1>5, <2>2
<1>10. ASSUME NEW q \in Id, EndStep(q) \/ \E n \in 1..MaxRows : Flush(q, n)
       PROVE  AbandonInv'
  <2>1. PICK f \in ToGo :
           /\ f.id = q /\ Len(toGo) \in Nat /\ Len(toGo') = Len(toGo) + 1
           /\ \A i \in 1..Len(toGo) : toGo'[i] = toGo[i]
           /\ toGo'[Len(toGo) + 1] = f
           /\ run[q] \in {"queued", "running"}
           /\ UNCHANGED goVars
           /\ f.op = "ABORTED" => aborted[q] \/ HandlerFires(q)
    BY <1>10, PostFacts DEF Ending
  <2>2. f.op = "ABORTED" => Excused(q)
    <3>1. req[q].db \in Db
      <4>1. req[q] # NoRequest /\ req[q] \in Request \cup {NoRequest}
        BY <2>1 DEF IssuedInv, TypeOK, CallTypeOK
      <4> QED
        BY <4>1 DEF Request
    <3>2. HandlerFires(q) => done[q]
      BY <1>1, <3>1, MaxIdAssumption DEF HandlerFires, Id
    <3>3. aborted[q] => go[q] = "closed"
      BY <1>1 DEF Told
    <3> QED
      BY <2>1, <3>2, <3>3
  <2>3. frames' = frames
    BY <2>1 DEF goVars
  <2>4. \A i \in 1..Len(toGo') : i \in 1..Len(toGo) \/ i = Len(toGo) + 1
    BY <2>1
  <2>5. \A r \in Id : Unsaid(r) => Unsaid(r)' \/ Excused(r)
    BY <2>1, <2>2, <2>3, <2>4
  <2> QED
    BY <1>5, <2>5
<1>11. ASSUME \/ \E op \in {"EXEC", "QUERY"}, d \in Db : Issue(op, d)
              \/ DispatchCredit \/ DispatchAbort \/ DispatchRequest \/ Resume
              \/ \E k \in Db \cup {0} : StartExec(k) \/ StartQuery(k)
              \/ \E q \in Id : \/ CtxDone(q) \/ WatchStore(q) \/ WatchStop(q)
                               \/ NextRow(q) \/ NextBatch(q)
              \/ UNCHANGED vars
       PROVE  UNCHANGED <<toGo, frames>>
  BY <1>11 DEF Issue, DispatchCredit, DispatchAbort, DispatchRequest, Resume,
     StartExec, StartQuery, CtxDone, WatchStore, WatchStop, NextRow, NextBatch,
     vars, goVars
<1> QED
  BY <1>6, <1>7, <1>8, <1>9, <1>10, <1>11, RowCases

(* Rows at their end have been read: a reader that has seen the end of the *)
(* stream, with none in hand, has had every row.                           *)
LEMMA EndRead ==
    ASSUME TypeOK, TerminalInv, LastInv, RowInv, NEW r \in Id,
           go[r] = "open", pending[r] = 0, eof[r]
    PROVE  run[r] = "done" /\ got[r] = total[r]
<1>1. /\ frames[r] \in Seq(ToGo) /\ toGo \in Seq(ToGo) /\ got[r] \in Nat
      /\ \A i \in 1..Len(frames[r]) : FALSE
  BY DEF TypeOK, CallTypeOK, SharedTypeOK, ReadTypeOK, LastInv
<1>2. \A i \in 1..Len(toGo) : toGo[i].id # r
  BY DEF LastInv
<1>3. Rows(frames[r], r) = 0 /\ Rows(toGo, r) = 0
  BY <1>1, <1>2, RowsType
<1>4. Seen(r) = total[r]
  BY DEF RowInv, EndSent
<1> QED
  BY <1>1, <1>3, <1>4 DEF Seen, TerminalInv

(* Every step keeps ReaderInv.                                             *)
LEMMA ReaderInvStep ==
    ASSUME TypeOK, IssuedInv, WireInv, ChainInv, TerminalInv, ReaderInv, AbandonInv,
           LastInv, RowInv, [Next]_vars
    PROVE  ReaderInv'
<1>0. /\ go \in [Id -> {"unused", "call", "first", "open", "pull", "closed"}]
      /\ pending \in [Id -> 0..MaxRows] /\ eof \in [Id -> BOOLEAN] /\ got \in [Id -> Nat]
      /\ outcome \in [Id -> {"none", "ok", "error", "eof", "closed"}]
      /\ total \in [Id -> 0..MaxRows]
  BY DEF TypeOK, CallTypeOK, ReadTypeOK, RowTypeOK
<1>1. \A r \in Id : run[r] = "done" => run'[r] = "done"
  BY DoneKept
<1>2. \A r \in Id :
        /\ go[r] \in {"unused", "call", "first"} => got[r] = 0
        /\ go[r] \notin {"open", "closed"} => pending[r] = 0 /\ ~eof[r]
        /\ outcome[r] = "eof" => go[r] = "closed" /\ run[r] = "done" /\ got[r] = total[r]
  BY DEF ReaderInv
<1>3. ASSUME \A r \in Id :
                /\ go'[r] \in {"unused", "call", "first"} => got'[r] = 0
                /\ go'[r] \notin {"open", "closed"} => pending'[r] = 0 /\ ~eof'[r]
                /\ outcome'[r] = "eof" =>
                      go'[r] = "closed" /\ run'[r] = "done" /\ got'[r] = total'[r]
      PROVE  ReaderInv'
  BY <1>3 DEF ReaderInv
<1>4. CASE UNCHANGED <<go, got, pending, eof, outcome, total>>
  BY <1>1, <1>2, <1>3, <1>4
<1>5. ASSUME NEW op \in {"EXEC", "QUERY"}, NEW d \in Db, Issue(op, d)
      PROVE  ReaderInv'
  <2>1. /\ nextId \in Id /\ UNCHANGED <<got, pending, eof, outcome, total>>
        /\ \A r \in Id : r # nextId => go'[r] = go[r]
        /\ go'[nextId] \in {"call", "first"}
    BY <1>0, <1>5 DEF Issue, workerVars, rowVars, readVars
  <2>2. go[nextId] = "unused"
    BY <2>1, MaxIdAssumption DEF IssuedInv, Issued, Id
  <2> QED
    BY <1>1, <1>2, <1>3, <2>1, <2>2
<1>6. ASSUME NEW q \in Id, NEW res \in {"ok", "error", "eof", "closed"}, Leaves(q, res)
      PROVE  ReaderInv'
  <2>1. /\ UNCHANGED <<got, pending, total, run>>
        /\ go'[q] = "closed" /\ outcome'[q] = res
        /\ \A r \in Id : r # q => /\ go'[r] = go[r] /\ eof'[r] = eof[r]
                                  /\ outcome'[r] = outcome[r]
    BY <1>0, <1>6 DEF Leaves, End, workerVars, rowVars
  <2>2. CASE res = "eof"
    <3>1. \/ go[q] = "open" /\ pending[q] = 0 /\ eof[q]
          \/ go[q] = "pull" /\ ~done[q] /\ frames[q] # <<>>
             /\ frames[q][1].op = "ABORTED"
      BY <1>6, <2>2 DEF Leaves
    <3>2. ~(go[q] = "pull" /\ ~done[q] /\ frames[q] # <<>> /\ frames[q][1].op = "ABORTED")
      <4>1. frames[q] # <<>> => 1 \in 1..Len(frames[q])
        BY DEF TypeOK, CallTypeOK
      <4> QED
        BY <4>1 DEF AbandonInv
    <3>3. run[q] = "done" /\ got[q] = total[q]
      BY <3>1, <3>2, EndRead
    <3> QED
      BY <1>2, <1>3, <2>1, <3>3
  <2>3. CASE res # "eof"
    BY <1>2, <1>3, <2>1, <2>3
  <2> QED
    BY <2>2, <2>3
<1>7. ASSUME NEW q \in Id, TakeRows(q) \/ NextRow(q) \/ NextBatch(q)
      PROVE  ReaderInv'
  <2>1. /\ UNCHANGED <<outcome, total, run>>
        /\ \A r \in Id : r # q => /\ go'[r] = go[r] /\ eof'[r] = eof[r]
                                  /\ pending'[r] = pending[r] /\ got'[r] = got[r]
        /\ go[q] \notin {"unused", "call", "closed"}
        /\ go'[q] \notin {"unused", "call", "first"}
        /\ go'[q] # "open" => pending'[q] = 0 /\ ~eof'[q]
    BY <1>0, <1>7 DEF TakeRows, NextRow, NextBatch, workerVars, rowVars, readVars
  <2> QED
    BY <1>2, <1>3, <2>1
<1>8. ASSUME NEW k \in Db \cup {0}, StartQuery(k)
      PROVE  ReaderInv'
  <2> DEFINE p == Head(chain[k])
  <2>1. /\ p \in Id /\ run[p] = "queued"
        /\ UNCHANGED <<go, got, pending, eof, outcome>>
        /\ \E n \in 0..MaxRows : total' = [total EXCEPT ![p] = n]
    BY <1>8, HeadFacts DEF StartQuery, goVars, readVars
  <2> HIDE DEF p
  <2>2. \A r \in Id : run[r] = "done" => total'[r] = total[r]
    BY <1>0, <2>1
  <2> QED
    BY <1>1, <1>2, <1>3, <2>1, <2>2
<1>9. ASSUME NEW q \in Id, EndStep(q) \/ \E n \in 1..MaxRows : Flush(q, n)
      PROVE  UNCHANGED <<go, got, pending, eof, outcome, total>>
  BY <1>9, PostFacts DEF goVars, readVars
<1>10. ASSUME \/ Receive
              \/ DispatchCredit \/ DispatchAbort \/ DispatchRequest \/ Resume
              \/ \E k \in Db \cup {0} : StartExec(k)
              \/ \E q \in Id : CtxDone(q) \/ WatchStore(q) \/ WatchStop(q)
              \/ UNCHANGED vars
       PROVE  UNCHANGED <<go, got, pending, eof, outcome, total>>
  BY <1>10 DEF Receive, DispatchCredit, DispatchAbort, DispatchRequest, Resume,
     StartExec, CtxDone, WatchStore, WatchStop, vars, goVars, readVars, workerVars,
     rowVars
<1> QED
  BY <1>4, <1>5, <1>6, <1>7, <1>8, <1>9, <1>10, RowCases

-----------------------------------------------------------------------------
(* Rows.                                                                   *)

(* What RowInv says of one request.                                        *)
RowsOK(r) ==
    /\ Begun(r) => Seen(r) + left[r] = total[r]
    /\ run[r] = "done" => Seen(r) <= total[r]
    /\ EndSent(r) => Seen(r) = total[r]

(* The parts of a count of rows.                                           *)
LEMMA SeenType ==
    ASSUME TypeOK, NEW r \in Id
    PROVE  /\ Seen(r) = got[r] + pending[r] + Rows(frames[r], r) + Rows(toGo, r)
           /\ got[r] \in Nat /\ pending[r] \in Nat
           /\ Rows(frames[r], r) \in Nat /\ Rows(toGo, r) \in Nat
           /\ Seen(r) \in Nat
           /\ left[r] \in Nat /\ total[r] \in Nat
<1>1. /\ frames[r] \in Seq(ToGo) /\ toGo \in Seq(ToGo) /\ got[r] \in Nat
      /\ pending[r] \in Nat /\ left[r] \in Nat /\ total[r] \in Nat
  BY RowsAssumption DEF TypeOK, CallTypeOK, SharedTypeOK, ReadTypeOK, RowTypeOK
<1>2. Rows(frames[r], r) \in Nat /\ Rows(toGo, r) \in Nat
  BY <1>1, RowsType
<1> QED
  BY <1>1, <1>2 DEF Seen

(* No end is posted before the worker is done.                             *)
LEMMA NotEnded ==
    ASSUME TerminalInv, NEW r \in Id, run[r] # "done"
    PROVE  ~EndSent(r)
BY DEF EndSent, LastRows, TerminalInv, FrameOK

(* No row is on its way before the worker has begun.                       *)
LEMMA NothingYet ==
    ASSUME TypeOK, FreshInv, ReaderInv, NEW r \in Id, Reading(r),
           run[r] \in {"none", "queued"}
    PROVE  go[r] = "first" /\ Seen(r) = 0 /\ total[r] = 0
<1>1. /\ go[r] = "first" /\ total[r] = 0
      /\ \A i \in 1..Len(frames[r]) : FALSE
      /\ \A i \in 1..Len(toGo) : toGo[i].id # r
  BY DEF FreshInv, Reading
<1>2. frames[r] \in Seq(ToGo) /\ toGo \in Seq(ToGo)
  BY DEF TypeOK, CallTypeOK, SharedTypeOK
<1>3. Rows(frames[r], r) = 0 /\ Rows(toGo, r) = 0
  BY <1>1, <1>2, RowsType
<1>4. got[r] = 0 /\ pending[r] = 0
  BY <1>1 DEF ReaderInv
<1> QED
  BY <1>1, <1>3, <1>4 DEF Seen

(* A step that leaves a request's counts alone keeps what is said of it.   *)
LEMMA RowsKept ==
    ASSUME RowInv, NEW r \in Id, Reading(r)' => Reading(r),
           Seen(r)' = Seen(r), left'[r] = left[r], total'[r] = total[r],
           EndSent(r)' => EndSent(r), Begun(r)' => Begun(r),
           run'[r] = "done" => run[r] = "done"
    PROVE  Reading(r)' => RowsOK(r)'
BY DEF RowInv, RowsOK, Reading

(* A frame posted adds its rows to what its reader will have.              *)
LEMMA PostRows ==
    ASSUME TypeOK, TypeOK', NEW q \in Id, NEW f \in ToGo, f.id = q,
           toGo' = Append(toGo, f), UNCHANGED <<got, pending, frames, eof>>
    PROVE  /\ Seen(q)' = Seen(q) + f.n
           /\ \A r \in Id : r # q => /\ Seen(r)' = Seen(r)
                                     /\ EndSent(r)' => EndSent(r)
           /\ EndSent(q)' => EndSent(q) \/ LastRows(f, q)
<1>0. toGo \in Seq(ToGo) /\ f.n \in Nat
  BY RowsAssumption DEF TypeOK, SharedTypeOK, ToGo
<1>1. ASSUME NEW r \in Id
      PROVE  Seen(r)' = Seen(r) + IF r = q THEN f.n ELSE 0
  <2>1. Rows(toGo', r) = Rows(toGo, r) + IF r = q THEN f.n ELSE 0
    BY <1>0, RowsAppend
  <2>2. Seen(r)' = got[r] + pending[r] + Rows(frames[r], r) + Rows(toGo', r)
    BY DEF Seen
  <2>3. /\ Seen(r) = got[r] + pending[r] + Rows(frames[r], r) + Rows(toGo, r)
        /\ got[r] \in Nat /\ pending[r] \in Nat
        /\ Rows(frames[r], r) \in Nat /\ Rows(toGo, r) \in Nat
    BY SeenType
  <2> QED
    BY <1>0, <2>1, <2>2, <2>3
<1>2. /\ Len(toGo') = Len(toGo) + 1 /\ Len(toGo) \in Nat
      /\ \A i \in 1..Len(toGo) : toGo'[i] = toGo[i]
      /\ toGo'[Len(toGo) + 1] = f
  BY <1>0, AppendFacts
<1>3. \A i \in 1..Len(toGo') : i \in 1..Len(toGo) \/ i = Len(toGo) + 1
  BY <1>2
<1>4. ASSUME NEW r \in Id, EndSent(r)'
      PROVE  EndSent(r) \/ LastRows(f, r)
  BY <1>2, <1>3, <1>4 DEF EndSent, LastRows
<1>5. Seen(q) \in Nat /\ \A r \in Id : Seen(r) \in Nat
  BY SeenType
<1> QED
  BY <1>0, <1>1, <1>4, <1>5 DEF LastRows

(* Every step keeps RowInv: rows move from the statement to the channel,   *)
(* to the route, to the reader's hand and to its caller, and no step loses *)
(* or doubles one.                                                         *)
LEMMA RowStep ==
    ASSUME TypeOK, TypeOK', IssuedInv, WireInv, ChainInv, TerminalInv, FreshInv,
           ReaderInv, LastInv, RowInv, [Next]_vars
    PROVE  RowInv'
<1>0. /\ go \in [Id -> {"unused", "call", "first", "open", "pull", "closed"}]
      /\ pending \in [Id -> 0..MaxRows] /\ eof \in [Id -> BOOLEAN] /\ got \in [Id -> Nat]
      /\ frames \in [Id -> Seq(ToGo)] /\ toGo \in Seq(ToGo)
      /\ left \in [Id -> 0..MaxRows] /\ total \in [Id -> 0..MaxRows]
      /\ run \in [Id -> {"none", "queued", "running", "parked", "yielded", "done"}]
  BY DEF TypeOK, CallTypeOK, ReadTypeOK, SharedTypeOK, WorkerTypeOK, RowTypeOK
<1>1. ASSUME \A r \in Id : Reading(r)' => RowsOK(r)'
      PROVE  RowInv'
  BY <1>1 DEF RowInv, RowsOK, Reading
<1>2. \A r \in Id : Reading(r) => RowsOK(r)
  BY DEF RowInv, RowsOK, Reading
<1>3. ASSUME UNCHANGED <<got, pending, frames, toGo, eof, left, total>>, NEW r \in Id,
             Reading(r)' => Reading(r), Begun(r)' => Begun(r),
             run'[r] = "done" => run[r] = "done"
      PROVE  Reading(r)' => RowsOK(r)'
  <2>1. Seen(r)' = Seen(r) /\ (EndSent(r)' => EndSent(r))
    BY <1>3 DEF Seen, EndSent
  <2> QED
    BY <1>3, <2>1, RowsKept
<1>4. ASSUME NEW op \in {"EXEC", "QUERY"}, NEW d \in Db, Issue(op, d)
      PROVE  RowInv'
  <2>1. PICK p \in Id :
           /\ p = nextId
           /\ UNCHANGED <<got, pending, frames, toGo, eof, left, total, run>>
           /\ \A r \in Id : r # p => go'[r] = go[r]
    BY <1>0, <1>4 DEF Issue, workerVars, rowVars, readVars
  <2>2. run[p] = "none"
    BY <2>1, MaxIdAssumption DEF IssuedInv, Issued, Id
  <2>3. ~EndSent(p) /\ (EndSent(p)' => EndSent(p))
    BY <2>1, <2>2, NotEnded DEF EndSent
  <2>4. RowsOK(p)'
    BY <2>1, <2>2, <2>3 DEF RowsOK, Begun
  <2>5. \A r \in Id : r # p => (Reading(r)' => RowsOK(r)')
    BY <1>3, <2>1 DEF Reading, Begun
  <2> QED
    BY <1>1, <2>4, <2>5
<1>5. ASSUME UNCHANGED <<got, pending, frames, toGo, eof, left, total, go>>,
             \A r \in Id : /\ Begun(r)' => Begun(r)
                           /\ run'[r] = "done" => run[r] = "done"
      PROVE  RowInv'
  BY <1>1, <1>3, <1>5 DEF Reading
<1>6. ASSUME \/ Resume \/ DispatchCredit \/ DispatchAbort \/ DispatchRequest
             \/ \E q \in Id : CtxDone(q) \/ WatchStore(q) \/ WatchStop(q)
             \/ UNCHANGED vars
      PROVE  RowInv'
  <2>1. UNCHANGED <<got, pending, frames, toGo, eof, left, total, go>>
    BY <1>6 DEF Resume, DispatchCredit, DispatchAbort, DispatchRequest, CtxDone,
       WatchStore, WatchStop, vars, goVars, readVars, workerVars, rowVars
  <2>2. \/ run' = run \/ \E r \in Id : run' = Wake(r)
        \/ \E r \in Id : run' = [run EXCEPT ![r] = "queued"]
        \/ Resume
    <3>1. CASE DispatchCredit \/ DispatchAbort
      <4>1. toWorker # <<>> /\ toWorker \in Seq(ToWorker)
        BY <3>1 DEF DispatchCredit, DispatchAbort, TypeOK, SharedTypeOK
      <4>2. Head(toWorker) \in ToWorker
        BY <4>1, TailFacts
      <4>3. Head(toWorker).id \in Id
        BY <4>2 DEF ToWorker
      <4> QED
        BY <3>1, <4>3 DEF DispatchCredit, DispatchAbort
    <3>2. CASE DispatchRequest
      BY <3>2, PostedIssued DEF DispatchRequest
    <3> QED
      BY <1>6, <3>1, <3>2 DEF CtxDone, WatchStore, WatchStop, vars, workerVars
  <2>3. \A r \in Id : /\ Begun(r)' => Begun(r)
                      /\ run'[r] = "done" => run[r] = "done"
    BY <1>0, <2>2 DEF Begun, Wake, Resume
  <2> QED
    BY <1>5, <2>1, <2>3
<1>7. CASE Receive
  <2> DEFINE f == toGo[1]
  <2>1. /\ toGo # <<>> /\ toGo' = Tail(toGo) /\ f \in ToGo /\ f.id \in Id
        /\ Head(toGo) = f /\ 1 \in 1..Len(toGo)
        /\ \A i \in 1..Len(toGo') : toGo'[i] = toGo[i + 1] /\ i + 1 \in 1..Len(toGo)
        /\ \A r \in Id : frames'[r] = IF r = f.id /\ Route(r)
                                      THEN Append(frames[r], f) ELSE frames[r]
        /\ UNCHANGED <<got, pending, eof, left, total, go, run>>
    BY <1>7, ReceiveFacts DEF readVars, workerVars, rowVars
  <2> HIDE DEF f
  <2>2. ASSUME NEW r \in Id, Reading(r)
        PROVE  Seen(r)' = Seen(r) /\ (EndSent(r)' => EndSent(r))
    <3>1. Route(r)
      BY <2>2 DEF Reading, Route
    <3>2. f.n \in Nat
      BY <2>1, RowsAssumption DEF ToGo
    <3>3. Rows(toGo, r) = Rows(toGo', r) + (IF f.id = r THEN f.n ELSE 0)
      BY <1>0, <2>1, RowsTail
    <3>4. Rows(frames'[r], r) = Rows(frames[r], r) + (IF f.id = r THEN f.n ELSE 0)
      <4>1. CASE r = f.id
        BY <1>0, <2>1, <3>1, <4>1, RowsAppend
      <4>2. CASE r # f.id
        <5>1. Rows(frames[r], r) \in Nat
          BY SeenType
        <5> QED
          BY <2>1, <4>2, <5>1
      <4> QED
        BY <4>1, <4>2
    <3>5. /\ Seen(r)' = got[r] + pending[r] + Rows(frames'[r], r) + Rows(toGo', r)
          /\ Seen(r) = got[r] + pending[r] + Rows(frames[r], r) + Rows(toGo, r)
      BY <2>1 DEF Seen
    <3>6. /\ got[r] \in Nat /\ pending[r] \in Nat
          /\ Rows(frames[r], r) \in Nat /\ Rows(toGo, r) \in Nat
          /\ Rows(frames'[r], r) \in Nat /\ Rows(toGo', r) \in Nat
      BY SeenType, RowsType DEF TypeOK, CallTypeOK, SharedTypeOK
    <3>7. Seen(r)' = Seen(r)
      BY <3>2, <3>3, <3>4, <3>5, <3>6
    <3>8. ASSUME NEW i \in 1..Len(frames'[r]), LastRows(frames'[r][i], r)
          PROVE  EndSent(r)
      <4>1. CASE r = f.id
        <5>1. /\ Len(frames'[r]) = Len(frames[r]) + 1 /\ Len(frames[r]) \in Nat
              /\ \A h \in 1..Len(frames[r]) : frames'[r][h] = frames[r][h]
              /\ frames'[r][Len(frames[r]) + 1] = f
          <6>1. frames'[r] = Append(frames[r], f) /\ frames[r] \in Seq(ToGo)
            BY <1>0, <2>1, <3>1, <4>1
          <6> QED
            BY <2>1, <6>1, AppendFacts
        <5>2. CASE i \in 1..Len(frames[r])
          BY <3>8, <5>1, <5>2 DEF EndSent
        <5>3. CASE i = Len(frames[r]) + 1
          BY <2>1, <3>8, <5>1, <5>3 DEF EndSent, f
        <5> QED
          BY <5>1, <5>2, <5>3
      <4>2. CASE r # f.id
        BY <2>1, <3>8, <4>2 DEF EndSent
      <4> QED
        BY <4>1, <4>2
    <3>9. EndSent(r)' => EndSent(r)
      BY <2>1, <3>8 DEF EndSent
    <3> QED
      BY <3>7, <3>9
  <2>3. ASSUME NEW r \in Id PROVE Reading(r)' => RowsOK(r)'
    BY <2>1, <2>2, RowsKept DEF Reading, Begun
  <2> QED
    BY <1>1, <2>3
<1>8. ASSUME NEW q \in Id, NEW res, Leaves(q, res)
      PROVE  RowInv'
  <2>1. /\ UNCHANGED <<got, pending, toGo, left, total, run>>
        /\ go'[q] = "closed"
        /\ \A r \in Id : r # q => /\ go'[r] = go[r] /\ eof'[r] = eof[r]
                                  /\ frames'[r] = frames[r]
    BY <1>0, <1>8 DEF Leaves, End, workerVars, rowVars
  <2>2. ASSUME NEW r \in Id, r # q PROVE Reading(r)' => RowsOK(r)'
    <3>1. Seen(r)' = Seen(r) /\ (EndSent(r)' => EndSent(r))
      BY <2>1, <2>2 DEF Seen, EndSent
    <3> QED
      BY <2>1, <2>2, <3>1, RowsKept DEF Reading, Begun
  <2>3. ~Reading(q)'
    BY <2>1 DEF Reading
  <2> QED
    BY <1>1, <2>2, <2>3
<1>9. ASSUME NEW q \in Id, TakeRows(q)
      PROVE  RowInv'
  <2>1. PICK f \in ToGo :
        /\ f = frames[q][1] /\ go[q] \in {"first", "pull"}
        /\ frames[q] \in Seq(ToGo) /\ frames[q] # <<>> /\ Head(frames[q]) = f
        /\ 1 \in 1..Len(frames[q]) /\ f.op = "ROWS" /\ f.id = q
        /\ frames' = [frames EXCEPT ![q] = Tail(frames[q])]
        /\ \A i \in 1..Len(Tail(frames[q])) :
              Tail(frames[q])[i] = frames[q][i + 1] /\ i + 1 \in 1..Len(frames[q])
        /\ pending' = [pending EXCEPT ![q] = f.n]
        /\ eof' = [eof EXCEPT ![q] = eof[q] \/ f.eof]
        /\ UNCHANGED <<got, toGo, left, total, run>>
        /\ \A r \in Id : r # q => go'[r] = go[r]
    <3>1. go' = [go EXCEPT ![q] = "open"]
      BY <1>9, TakeRowsFacts
    <3>2. \A r \in Id : r # q => go'[r] = go[r]
      BY <1>0, <3>1
    <3>3. UNCHANGED <<got, toGo, left, total, run>>
      BY <1>9 DEF TakeRows, workerVars, rowVars
    <3> QED
      BY <1>9, <3>2, <3>3, TakeRowsFacts
  <2>2. /\ frames'[q] = Tail(frames[q]) /\ pending'[q] = f.n
        /\ eof'[q] = (eof[q] \/ f.eof)
        /\ \A r \in Id : r # q => /\ frames'[r] = frames[r] /\ eof'[r] = eof[r]
                                  /\ pending'[r] = pending[r]
    BY <1>0, <2>1
  <2>3. pending[q] = 0
    BY <2>1 DEF ReaderInv
  <2>4. Seen(q)' = Seen(q)
    <3>1. Rows(frames[q], q) = Rows(Tail(frames[q]), q) + f.n
      BY <2>1, RowsTail
    <3>2. f.n \in Nat /\ Tail(frames[q]) \in Seq(ToGo)
      BY <2>1, RowsAssumption, TailFacts DEF ToGo
    <3>3. Rows(Tail(frames[q]), q) \in Nat
      BY <3>2, RowsType
    <3>4. got[q] \in Nat /\ Rows(toGo, q) \in Nat
      BY SeenType
    <3>5. /\ Seen(q)' = got[q] + f.n + Rows(Tail(frames[q]), q) + Rows(toGo, q)
          /\ Seen(q) = got[q] + 0 + Rows(frames[q], q) + Rows(toGo, q)
      BY <2>1, <2>2, <2>3 DEF Seen
    <3> QED
      BY <3>1, <3>2, <3>3, <3>4, <3>5
  <2>5. EndSent(q)' => EndSent(q)
    <3>1. f.eof => LastRows(f, q)
      BY <2>1 DEF LastRows
    <3>2. ASSUME NEW i \in 1..Len(Tail(frames[q])), LastRows(Tail(frames[q])[i], q)
          PROVE  EndSent(q)
      BY <2>1, <3>2 DEF EndSent
    <3>3. f.eof => EndSent(q)
      BY <2>1, <3>1 DEF EndSent
    <3> QED
      BY <2>1, <2>2, <3>2, <3>3 DEF EndSent
  <2>6. \A r \in Id : r # q => Seen(r)' = Seen(r) /\ (EndSent(r)' => EndSent(r))
    BY <2>1, <2>2 DEF Seen, EndSent
  <2>7. ASSUME NEW r \in Id PROVE Reading(r)' => RowsOK(r)'
    <3>1. Reading(r)' => Reading(r)
      BY <2>1 DEF Reading
    <3> QED
      BY <2>1, <2>4, <2>5, <2>6, <3>1, RowsKept DEF Begun
  <2> QED
    BY <1>1, <2>7
<1>10. ASSUME NEW q \in Id, NextRow(q)
       PROVE  RowInv'
  <2>1. /\ pending' = [pending EXCEPT ![q] = pending[q] - 1] /\ pending[q] > 0
        /\ got' = [got EXCEPT ![q] = got[q] + 1]
        /\ UNCHANGED <<toGo, frames, eof, left, total, run, go>>
    BY <1>0, <1>10 DEF NextRow, workerVars, rowVars
  <2>2. Seen(q)' = Seen(q)
    <3>1. /\ Seen(q)' = got'[q] + pending'[q] + Rows(frames[q], q) + Rows(toGo, q)
          /\ Seen(q) = got[q] + pending[q] + Rows(frames[q], q) + Rows(toGo, q)
          /\ got'[q] = got[q] + 1 /\ pending'[q] = pending[q] - 1
      BY <1>0, <2>1 DEF Seen
    <3>2. got[q] \in Nat /\ pending[q] \in Nat
          /\ Rows(frames[q], q) \in Nat /\ Rows(toGo, q) \in Nat
      BY SeenType
    <3> QED
      BY <3>1, <3>2
  <2>3. \A r \in Id : r # q => Seen(r)' = Seen(r)
    BY <1>0, <2>1 DEF Seen
  <2>4. \A r \in Id : EndSent(r)' => EndSent(r)
    BY <2>1 DEF EndSent
  <2>5. ASSUME NEW r \in Id PROVE Reading(r)' => RowsOK(r)'
    BY <2>1, <2>2, <2>3, <2>4, RowsKept DEF Reading, Begun
  <2> QED
    BY <1>1, <2>5
<1>11. ASSUME NEW q \in Id, NextBatch(q)
       PROVE  RowInv'
  <2>1. /\ UNCHANGED <<got, pending, toGo, frames, eof, left, total, run>>
        /\ \A r \in Id : r # q => go'[r] = go[r]
        /\ go[q] = "open"
    BY <1>0, <1>11 DEF NextBatch, workerVars, rowVars, readVars
  <2> QED
    BY <1>1, <1>3, <2>1 DEF Reading, Begun
<1>12. ASSUME NEW k \in Db \cup {0}, StartExec(k)
       PROVE  RowInv'
  <2>1. PICK p \in Id :
           /\ req[p].op = "EXEC" /\ run' = [run EXCEPT ![p] = "running"]
           /\ UNCHANGED <<got, pending, toGo, frames, eof, left, total, go>>
    BY <1>12, HeadFacts DEF StartExec, goVars, readVars, rowVars
  <2>2. ~Reading(p)'
    BY <2>1 DEF Reading, IssuedInv
  <2>3. \A r \in Id : r # p => run'[r] = run[r]
    BY <1>0, <2>1
  <2> QED
    BY <1>1, <1>3, <2>1, <2>2, <2>3 DEF Reading, Begun
<1>13. ASSUME NEW k \in Db \cup {0}, StartQuery(k)
       PROVE  RowInv'
  <2>1. PICK p \in Id, n \in 0..MaxRows :
           /\ run[p] = "queued" /\ run' = [run EXCEPT ![p] = "running"]
           /\ left' = [left EXCEPT ![p] = n] /\ total' = [total EXCEPT ![p] = n]
           /\ UNCHANGED <<got, pending, toGo, frames, eof, go>>
    BY <1>13, HeadFacts DEF StartQuery, goVars, readVars
  <2>2. /\ run'[p] = "running" /\ left'[p] = n /\ total'[p] = n
        /\ \A r \in Id : r # p => /\ run'[r] = run[r] /\ left'[r] = left[r]
                                  /\ total'[r] = total[r]
    BY <1>0, <2>1
  <2>3. \A r \in Id : Seen(r)' = Seen(r) /\ (EndSent(r)' => EndSent(r))
    BY <2>1 DEF Seen, EndSent
  <2>4. Reading(p) => Seen(p) = 0
    BY <2>1, NothingYet
  <2>5. ~EndSent(p)
    BY <2>1, NotEnded
  <2>6. Reading(p)' => RowsOK(p)'
    BY <2>1, <2>2, <2>3, <2>4, <2>5, RowsAssumption DEF RowsOK, Reading
  <2>7. \A r \in Id : r # p => (Reading(r)' => RowsOK(r)')
    BY <2>1, <2>2, <2>3, RowsKept DEF Reading, Begun
  <2> QED
    BY <1>1, <2>6, <2>7
<1>14. ASSUME NEW q \in Id, EndStep(q)
       PROVE  RowInv'
  <2>1. PICK f \in ToGo :
           /\ f.id = q /\ toGo' = Append(toGo, f)
           /\ run[q] \in {"queued", "running"} /\ run'[q] = "done"
           /\ \A r \in Id : r # q => run'[r] = run[r]
           /\ Ending(q, f.op, f.n)
           /\ UNCHANGED <<goVars, total, left>>
    <3>1. PICK op \in {"ROWS", "ERROR", "ABORTED", "EXEC_RESULT"},
               n \in 0..MaxRows : Finish(q, op, n) /\ Ending(q, op, n)
      BY <1>14 DEF EndStep
    <3> DEFINE f == [op |-> op, id |-> q, n |-> n, eof |-> TRUE]
    <3>2. f \in ToGo /\ f.id = q /\ Ending(q, f.op, f.n)
      BY <3>1 DEF ToGo
    <3>3. /\ run'[q] = "done" /\ toGo' = Append(toGo, f)
          /\ \A r \in Id : r # q => run'[r] = run[r]
      BY <1>0, <3>1 DEF Finish
    <3>4. UNCHANGED <<goVars, total, left>> /\ run[q] \in {"queued", "running"}
      BY <1>14 DEF EndStep, rowVars
    <3> HIDE DEF f
    <3> QED
      BY <3>2, <3>3, <3>4
  <2>2. UNCHANGED <<got, pending, frames, eof, go>>
    BY <2>1 DEF goVars, readVars
  <2>3. /\ Seen(q)' = Seen(q) + f.n
        /\ \A r \in Id : r # q => Seen(r)' = Seen(r) /\ (EndSent(r)' => EndSent(r))
        /\ EndSent(q)' => EndSent(q) \/ LastRows(f, q)
    BY <2>1, <2>2, PostRows
  <2>4. ~EndSent(q)
    BY <2>1, NotEnded
  <2>5. Seen(q) \in Nat /\ left[q] \in Nat /\ total[q] \in Nat
    BY SeenType
  <2>6. ~Begun(q)'
    BY <2>1 DEF Begun
  <2>7. CASE f.op = "ROWS"
    <3>1. Reading(q) => Seen(q) + left[q] = total[q]
      BY <1>2, <2>1, <2>7 DEF RowsOK, Begun, Ending
    <3>2. f.n = left[q]
      BY <2>1, <2>7 DEF Ending
    <3>3. Reading(q)' => Seen(q)' = total'[q]
      BY <2>1, <2>2, <2>3, <3>1, <3>2 DEF Reading
    <3> QED
      BY <2>1, <2>5, <2>6, <3>3, <1>1, <2>2, <2>3, RowsKept DEF RowsOK, Reading, Begun
  <2>8. CASE f.op # "ROWS"
    <3>1. f.n = 0 /\ ~LastRows(f, q)
      BY <2>1, <2>8 DEF Ending, LastRows
    <3>2. Reading(q) => Seen(q) <= total[q]
      <4>1. CASE run[q] = "queued"
        BY <4>1, <2>5, NothingYet
      <4>2. CASE run[q] = "running"
        BY <1>2, <2>5, <4>2 DEF RowsOK, Begun
      <4> QED
        BY <2>1, <4>1, <4>2
    <3>3. Seen(q)' = Seen(q)
      BY <2>3, <2>5, <3>1
    <3>4. Reading(q)' => RowsOK(q)'
      BY <2>1, <2>2, <2>3, <2>4, <2>6, <3>1, <3>2, <3>3 DEF RowsOK, Reading
    <3> QED
      BY <1>1, <2>1, <2>2, <2>3, <3>4, RowsKept DEF Reading, Begun
  <2> QED
    BY <2>7, <2>8
<1>15. ASSUME NEW q \in Id, NEW n \in 1..MaxRows, Flush(q, n)
       PROVE  RowInv'
  <2> DEFINE f == [op |-> "ROWS", id |-> q, n |-> n, eof |-> FALSE]
  <2>1. /\ f \in ToGo /\ f.id = q /\ f.n = n /\ ~LastRows(f, q) /\ n \in Nat
    BY RowsAssumption DEF ToGo, LastRows
  <2>2. /\ toGo' = Append(toGo, f) /\ run[q] = "running"
        /\ run'[q] \in {"parked", "yielded"}
        /\ \A r \in Id : r # q => run'[r] = run[r]
        /\ left' = [left EXCEPT ![q] = left[q] - n]
        /\ UNCHANGED <<goVars, total>>
    BY <1>0, <1>15 DEF Flush
  <2> HIDE DEF f
  <2>3. UNCHANGED <<got, pending, frames, eof, go>>
    BY <2>2 DEF goVars, readVars
  <2>4. /\ Seen(q)' = Seen(q) + n
        /\ \A r \in Id : r # q => Seen(r)' = Seen(r) /\ (EndSent(r)' => EndSent(r))
        /\ EndSent(q)' => EndSent(q)
    BY <2>1, <2>2, <2>3, PostRows
  <2>5. ~EndSent(q)
    BY <2>2, NotEnded
  <2>6. Seen(q) \in Nat /\ left[q] \in Nat /\ total[q] \in Nat
    BY SeenType
  <2>7. left'[q] = left[q] - n /\ \A r \in Id : r # q => left'[r] = left[r]
    BY <1>0, <2>2
  <2>8. Reading(q)' => RowsOK(q)'
    <3>1. Reading(q) => Seen(q) + left[q] = total[q]
      BY <1>2, <2>2 DEF RowsOK, Begun
    <3>2. Reading(q)' => Seen(q)' + left'[q] = total'[q]
      BY <2>1, <2>2, <2>3, <2>4, <2>6, <2>7, <3>1 DEF Reading
    <3> QED
      BY <2>2, <2>4, <2>5, <3>2 DEF RowsOK
  <2>9. \A r \in Id : r # q => (Reading(r)' => RowsOK(r)')
    BY <2>2, <2>3, <2>4, <2>7, RowsKept DEF Reading, Begun
  <2> QED
    BY <1>1, <2>8, <2>9
<1> QED
  BY <1>4, <1>6, <1>7, <1>8, <1>9, <1>10, <1>11, <1>12, <1>13, <1>14, <1>15, RowCases

-----------------------------------------------------------------------------
(* Credits.                                                                *)

(* Batches is a count.                                                     *)
LEMMA BatchesCount ==
    ASSUME NEW s \in Seq(ToGo), NEW r
    PROVE  Batches(s, r) = CountIn(s, {f \in ToGo : Batch(f, r)})
<1>1. {i \in 1..Len(s) : Batch(s[i], r)}
          = {i \in 1..Len(s) : s[i] \in {f \in ToGo : Batch(f, r)}}
  OBVIOUS
<1> QED
  BY <1>1 DEF Batches, CountIn

(* It is a natural number, and 0 where no frame is of r.                   *)
LEMMA BatchesType ==
    ASSUME NEW s \in Seq(ToGo), NEW r
    PROVE  /\ Batches(s, r) \in Nat
           /\ (\A i \in 1..Len(s) : s[i].id # r) => Batches(s, r) = 0
<1> DEFINE S == {f \in ToGo : Batch(f, r)}
<1>1. Batches(s, r) = CountIn(s, S)
  BY BatchesCount
<1>2. (\A i \in 1..Len(s) : s[i].id # r) => \A i \in 1..Len(s) : s[i] \notin S
  BY DEF Batch
<1> HIDE DEF S
<1> QED
  BY <1>1, <1>2, CountType

(* A batch appended is counted.                                            *)
LEMMA BatchesAppend ==
    ASSUME NEW s \in Seq(ToGo), NEW f \in ToGo, NEW r
    PROVE  Batches(Append(s, f), r) = Batches(s, r) + (IF Batch(f, r) THEN 1 ELSE 0)
<1> DEFINE S == {g \in ToGo : Batch(g, r)}
<1>1. Append(s, f) \in Seq(ToGo)
  OBVIOUS
<1>2. Batches(s, r) = CountIn(s, S) /\ Batches(Append(s, f), r) = CountIn(Append(s, f), S)
  BY <1>1, BatchesCount
<1>3. f \in S <=> Batch(f, r)
  OBVIOUS
<1> HIDE DEF S
<1>4. CountIn(Append(s, f), S) = CountIn(s, S) + (IF f \in S THEN 1 ELSE 0)
  BY CountAppend
<1> QED
  BY <1>2, <1>3, <1>4

(* A batch taken off is not.                                               *)
LEMMA BatchesTail ==
    ASSUME NEW s \in Seq(ToGo), s # <<>>, NEW r
    PROVE  Batches(s, r) = Batches(Tail(s), r) + (IF Batch(Head(s), r) THEN 1 ELSE 0)
<1> DEFINE S == {g \in ToGo : Batch(g, r)}
<1>1. Tail(s) \in Seq(ToGo) /\ Head(s) \in ToGo
  BY TailFacts
<1>2. Batches(s, r) = CountIn(s, S) /\ Batches(Tail(s), r) = CountIn(Tail(s), S)
  BY <1>1, BatchesCount
<1>3. Head(s) \in S <=> Batch(Head(s), r)
  BY <1>1
<1> HIDE DEF S
<1>4. CountIn(s, S) = CountIn(Tail(s), S) + (IF Head(s) \in S THEN 1 ELSE 0)
  BY CountTail
<1> QED
  BY <1>2, <1>3, <1>4

(* The credits on their way, in the same terms.                            *)
Credits(s, r) == CountIn(s, {Frame("CREDIT", r)})

LEMMA CreditsCount ==
    ASSUME TypeOK, NEW r \in Id
    PROVE  CreditsPosted(r) = Credits(toWorker, r) /\ CreditsPosted(r) \in Nat
<1>1. {i \in 1..Len(toWorker) : toWorker[i] = Frame("CREDIT", r)}
          = {i \in 1..Len(toWorker) : toWorker[i] \in {Frame("CREDIT", r)}}
  OBVIOUS
<1>2. CreditsPosted(r) = Credits(toWorker, r)
  BY <1>1 DEF CreditsPosted, Credits, CountIn
<1>3. CountIn(toWorker, {Frame("CREDIT", r)}) \in Nat
  BY CountType DEF TypeOK, SharedTypeOK
<1> QED
  BY <1>2, <1>3 DEF Credits

(* A frame posted to the worker, and one taken from there.                 *)
LEMMA CreditsMove ==
    ASSUME TypeOK, NEW r \in Id
    PROVE  /\ toWorker' = toWorker => CreditsPosted(r)' = CreditsPosted(r)
           /\ \A m \in ToWorker :
                 toWorker' = Append(toWorker, m) =>
                    CreditsPosted(r)' = CreditsPosted(r)
                                        + (IF m = Frame("CREDIT", r) THEN 1 ELSE 0)
           /\ toWorker # <<>> /\ toWorker' = Tail(toWorker) =>
                 CreditsPosted(r) = CreditsPosted(r)'
                          + (IF Head(toWorker) = Frame("CREDIT", r) THEN 1 ELSE 0)
<1> DEFINE c == Frame("CREDIT", r)
<1>0. toWorker \in Seq(ToWorker) /\ CreditsPosted(r) = CountIn(toWorker, {c})
  BY CreditsCount DEF TypeOK, SharedTypeOK, Credits
<1>1. CreditsPosted(r)' = CountIn(toWorker', {c})
  <2>1. {i \in 1..Len(toWorker') : toWorker'[i] = c}
            = {i \in 1..Len(toWorker') : toWorker'[i] \in {c}}
    OBVIOUS
  <2> QED
    BY <2>1 DEF CreditsPosted, CountIn, Frame
<1> HIDE DEF c
<1>2. toWorker' = toWorker => CreditsPosted(r)' = CreditsPosted(r)
  BY <1>0, <1>1
<1>3. ASSUME NEW m \in ToWorker, toWorker' = Append(toWorker, m)
      PROVE  CreditsPosted(r)' = CreditsPosted(r) + (IF m = c THEN 1 ELSE 0)
  <2>1. CountIn(Append(toWorker, m), {c})
            = CountIn(toWorker, {c}) + (IF m \in {c} THEN 1 ELSE 0)
    BY <1>0, CountAppend
  <2> QED
    BY <1>0, <1>1, <1>3, <2>1
<1>4. ASSUME toWorker # <<>>, toWorker' = Tail(toWorker)
      PROVE  CreditsPosted(r) = CreditsPosted(r)' + (IF Head(toWorker) = c THEN 1 ELSE 0)
  <2>1. CountIn(toWorker, {c})
            = CountIn(Tail(toWorker), {c}) + (IF Head(toWorker) \in {c} THEN 1 ELSE 0)
    BY <1>0, <1>4, CountTail
  <2> QED
    BY <1>0, <1>1, <1>4, <2>1
<1> QED
  BY <1>2, <1>3, <1>4 DEF c

(* What CreditInv says of one stream whose reader is there.                *)
InHand(r) == IF go[r] = "open" /\ ~eof[r] THEN 1 ELSE 0
Flying(r) == Batches(toGo, r) + Batches(frames[r], r) + InHand(r) + CreditsPosted(r)
Watched(r) == Streaming(r) /\ Reading(r)
CreditOK(r) ==
    /\ credit[r] + Flying(r) = Window
    /\ IF run[r] = "parked" THEN credit[r] = 0 ELSE credit[r] >= 1

(* Its parts are natural numbers.                                          *)
LEMMA FlyingType ==
    ASSUME TypeOK, NEW r \in Id
    PROVE  /\ Batches(toGo, r) \in Nat /\ Batches(frames[r], r) \in Nat
           /\ InHand(r) \in Nat /\ CreditsPosted(r) \in Nat
           /\ Flying(r) = Batches(toGo, r) + Batches(frames[r], r) + InHand(r)
                          + CreditsPosted(r)
           /\ credit[r] \in Int /\ Flying(r) \in Nat
<1>1. toGo \in Seq(ToGo) /\ frames[r] \in Seq(ToGo) /\ credit[r] \in Int
  BY DEF TypeOK, SharedTypeOK, CallTypeOK, RowTypeOK
<1>2. Batches(toGo, r) \in Nat /\ Batches(frames[r], r) \in Nat
  BY <1>1, BatchesType
<1>3. CreditsPosted(r) \in Nat
  BY CreditsCount
<1>4. InHand(r) \in Nat
  BY DEF InHand
<1> QED
  BY <1>1, <1>2, <1>3, <1>4 DEF Flying

(* CreditInv, stream by stream.                                            *)
EachCreditOK == \A r \in Id : Watched(r) => CreditOK(r)

LEMMA CreditParts == TypeOK => (CreditInv <=> EachCreditOK)
<1> SUFFICES ASSUME TypeOK PROVE CreditInv <=> EachCreditOK
  OBVIOUS
<1>1. ASSUME NEW r \in Id
      PROVE  CreditOK(r) <=>
                /\ credit[r] >= 0
                /\ credit[r] + Batches(toGo, r) + Batches(frames[r], r)
                     + InHand(r) + CreditsPosted(r) = Window
                /\ IF run[r] = "parked" THEN credit[r] = 0 ELSE credit[r] >= 1
  BY FlyingType DEF CreditOK
<1> QED
  BY <1>1 DEF CreditInv, CreditConserved, EachCreditOK, Watched, Reading, InHand

(* A step that leaves a stream's counts alone keeps what is said of it.    *)
LEMMA CreditKept ==
    ASSUME NEW r \in Id, Watched(r) => CreditOK(r), Watched(r)' => Watched(r),
           credit'[r] = credit[r], Flying(r)' = Flying(r),
           run'[r] = "parked" <=> run[r] = "parked"
    PROVE  Watched(r)' => CreditOK(r)'
BY DEF CreditOK

(* The flow control of one stream does not see what others post.           *)
LEMMA FlyingKept ==
    ASSUME TypeOK, NEW r \in Id,
           go'[r] = "open" /\ ~eof'[r] <=> go[r] = "open" /\ ~eof[r],
           Batches(frames[r], r)' = Batches(frames[r], r),
           Batches(toGo, r)' = Batches(toGo, r),
           CreditsPosted(r)' = CreditsPosted(r)
    PROVE  Flying(r)' = Flying(r)
BY DEF Flying, InHand

(* A stream has nothing in flight before the worker begins it.             *)
LEMMA NothingFlies ==
    ASSUME TypeOK, FreshInv, NEW r \in Id, Reading(r), run[r] \in {"none", "queued"}
    PROVE  go[r] = "first" /\ Flying(r) = 0
<1>1. /\ go[r] = "first"
      /\ \A i \in 1..Len(frames[r]) : FALSE
      /\ \A i \in 1..Len(toGo) : toGo[i].id # r
      /\ \A i \in 1..Len(toWorker) : toWorker[i] \notin {Frame("CREDIT", r)}
  BY DEF FreshInv, Reading
<1>2. frames[r] \in Seq(ToGo) /\ toGo \in Seq(ToGo) /\ toWorker \in Seq(ToWorker)
  BY DEF TypeOK, CallTypeOK, SharedTypeOK
<1>3. Batches(frames[r], r) = 0 /\ Batches(toGo, r) = 0
  BY <1>1, <1>2, BatchesType
<1>4. CountIn(toWorker, {Frame("CREDIT", r)}) = 0
  BY <1>1, <1>2, CountType
<1>5. CreditsPosted(r) = 0 /\ InHand(r) = 0
  BY <1>1, <1>4, CreditsCount DEF Credits, InHand
<1> QED
  BY <1>1, <1>3, <1>5 DEF Flying

(* Every step keeps CreditInv: a batch takes a credit, and the credit goes *)
(* round with it, through the channel, the route, the reader's hand and    *)
(* the channel back.                                                       *)
LEMMA CreditStep ==
    ASSUME TypeOK, TypeOK', IssuedInv, WireInv, ChainInv, TerminalInv, FreshInv,
           ReaderInv, AbandonInv, CreditInv, [Next]_vars
    PROVE  CreditInv'
<1>0. /\ go \in [Id -> {"unused", "call", "first", "open", "pull", "closed"}]
      /\ eof \in [Id -> BOOLEAN] /\ credit \in [Id -> Int]
      /\ frames \in [Id -> Seq(ToGo)] /\ toGo \in Seq(ToGo) /\ toWorker \in Seq(ToWorker)
      /\ run \in [Id -> {"none", "queued", "running", "parked", "yielded", "done"}]
  BY DEF TypeOK, CallTypeOK, ReadTypeOK, SharedTypeOK, WorkerTypeOK, RowTypeOK
<1>1. ASSUME \A r \in Id : Watched(r)' => CreditOK(r)'
      PROVE  CreditInv'
  <2>1. TypeOK' => (CreditInv' <=> EachCreditOK')
    BY CreditParts, PTL
  <2> QED
    BY <1>1, <2>1 DEF EachCreditOK
<1>2. \A r \in Id : Watched(r) => CreditOK(r)
  BY CreditParts DEF EachCreditOK

<1>3. ASSUME UNCHANGED <<toGo, frames, eof, credit>>, NEW r \in Id,
             go'[r] = go[r], CreditsPosted(r)' = CreditsPosted(r),
             Watched(r)' => Watched(r), run'[r] = "parked" <=> run[r] = "parked"
      PROVE  Watched(r)' => CreditOK(r)'
  <2>1. Flying(r)' = Flying(r)
    BY <1>3, FlyingKept
  <2> QED
    BY <1>2, <1>3, <2>1, CreditKept
<1>4. ASSUME NEW op \in {"EXEC", "QUERY"}, NEW d \in Db, Issue(op, d)
      PROVE  CreditInv'
  <2>1. PICK p \in Id :
           /\ p = nextId
           /\ UNCHANGED <<toGo, frames, eof, credit, run>>
           /\ \A r \in Id : r # p => go'[r] = go[r] /\ req'[r] = req[r]
           /\ toWorker' = Append(toWorker, Frame(op, p)) /\ Frame(op, p) \in ToWorker
           /\ \A r \in Id : Frame(op, p) # Frame("CREDIT", r)
    <3>1. nextId \in Id
      BY <1>4 DEF Issue
    <3>2. \A r \in Id : r # nextId => go'[r] = go[r] /\ req'[r] = req[r]
      BY <1>4 DEF Issue
    <3>3. UNCHANGED <<toGo, frames, eof, credit, run>>
      BY <1>4 DEF Issue, workerVars, rowVars, readVars
    <3>4. /\ toWorker' = Append(toWorker, Frame(op, nextId))
          /\ Frame(op, nextId) \in ToWorker
          /\ \A r \in Id : Frame(op, nextId) # Frame("CREDIT", r)
      BY <1>4 DEF Issue, Frame, ToWorker
    <3> QED
      BY <3>1, <3>2, <3>3, <3>4
  <2>2. run[p] = "none"
    BY <2>1, MaxIdAssumption DEF IssuedInv, Issued, Id
  <2>3. ~Watched(p)'
    BY <2>1, <2>2 DEF Watched, Streaming
  <2>4. \A r \in Id : CreditsPosted(r)' = CreditsPosted(r)
    BY <2>1, CreditsMove, CreditsCount
  <2>5. ASSUME NEW r \in Id, r # p PROVE Watched(r)' => CreditOK(r)'
    BY <1>3, <2>1, <2>4, <2>5 DEF Watched, Streaming, Reading
  <2> QED
    BY <1>1, <2>3, <2>5
<1>5. ASSUME \/ \E q \in Id : CtxDone(q) \/ WatchStore(q) \/ WatchStop(q) \/ NextRow(q)
             \/ Resume
             \/ UNCHANGED vars
      PROVE  CreditInv'
  <2>1. UNCHANGED <<toGo, frames, eof, credit, go, req, toWorker>>
    BY <1>5 DEF CtxDone, WatchStore, WatchStop, NextRow, Resume, vars, goVars, readVars,
       callVars, workerVars, rowVars
  <2>2. run' = run \/ Resume
    BY <1>5 DEF CtxDone, WatchStore, WatchStop, NextRow, vars, workerVars
  <2>3. \A r \in Id : /\ run'[r] = "parked" <=> run[r] = "parked"
                      /\ Watched(r)' => Watched(r)
    BY <1>0, <2>1, <2>2 DEF Resume, Watched, Streaming, Reading
  <2>4. \A r \in Id : CreditsPosted(r)' = CreditsPosted(r)
    BY <2>1, CreditsMove
  <2> QED
    BY <1>1, <1>3, <2>1, <2>3, <2>4
<1>6. CASE Receive
  <2>1. PICK f \in ToGo :
           /\ f = Head(toGo) /\ toGo # <<>> /\ toGo' = Tail(toGo)
           /\ \A r \in Id : frames'[r] = IF r = f.id /\ Route(r)
                                         THEN Append(frames[r], f) ELSE frames[r]
           /\ UNCHANGED <<eof, credit, go, req, run, toWorker>>
    <3>1. UNCHANGED <<eof, credit, go, req, run, toWorker>>
      BY <1>6 DEF Receive, readVars, callVars, workerVars, rowVars
    <3> QED
      BY <1>6, <3>1, ReceiveFacts
  <2>2. ASSUME NEW r \in Id, Watched(r) PROVE Flying(r)' = Flying(r)
    <3>1. Route(r)
      BY <2>2 DEF Watched, Reading, Route
    <3>2. Batches(toGo, r) = Batches(toGo', r) + (IF Batch(f, r) THEN 1 ELSE 0)
      BY <1>0, <2>1, BatchesTail
    <3>3. Batches(frames'[r], r) = Batches(frames[r], r) + (IF Batch(f, r) THEN 1 ELSE 0)
      <4>1. CASE r = f.id
        BY <1>0, <2>1, <3>1, <4>1, BatchesAppend
      <4>2. CASE r # f.id
        <5>1. ~Batch(f, r) /\ frames'[r] = frames[r]
          BY <2>1, <4>2 DEF Batch
        <5> QED
          BY <5>1, FlyingType
      <4> QED
        BY <4>1, <4>2
    <3>4. InHand(r)' = InHand(r)
      BY <2>1 DEF InHand
    <3>5. CreditsPosted(r)' = CreditsPosted(r)
      BY <2>1, CreditsMove
    <3>6. Flying(r)' = Batches(toGo', r) + Batches(frames'[r], r) + InHand(r)'
                       + CreditsPosted(r)'
      BY DEF Flying
    <3>7. Batches(toGo', r) \in Nat
      BY BatchesType DEF TypeOK, SharedTypeOK
    <3> QED
      BY <3>2, <3>3, <3>4, <3>5, <3>6, <3>7, FlyingType
  <2>3. ASSUME NEW r \in Id PROVE Watched(r)' => CreditOK(r)'
    BY <1>2, <2>1, <2>2, CreditKept DEF Watched, Streaming, Reading
  <2> QED
    BY <1>1, <2>3
<1>7. ASSUME NEW q \in Id, NEW res, Leaves(q, res)
      PROVE  CreditInv'
  <2>1. /\ UNCHANGED <<toGo, credit, req, run>>
        /\ go'[q] = "closed"
        /\ \A r \in Id : r # q => /\ go'[r] = go[r] /\ eof'[r] = eof[r]
                                  /\ frames'[r] = frames[r]
        /\ toWorker' = toWorker \/ toWorker' = Append(toWorker, Frame("ABORT", q))
        /\ Frame("ABORT", q) \in ToWorker
        /\ \A r \in Id : Frame("ABORT", q) # Frame("CREDIT", r)
    BY <1>0, <1>7 DEF Leaves, End, callVars, workerVars, rowVars, Frame, ToWorker
  <2>2. ~Watched(q)'
    BY <2>1 DEF Watched, Reading
  <2>3. \A r \in Id : CreditsPosted(r)' = CreditsPosted(r)
    BY <2>1, CreditsMove, CreditsCount
  <2>4. ASSUME NEW r \in Id, r # q PROVE Watched(r)' => CreditOK(r)'
    <3>1. Flying(r)' = Flying(r)
      BY <2>1, <2>3, <2>4, FlyingKept
    <3> QED
      BY <1>2, <2>1, <2>4, <3>1, CreditKept DEF Watched, Streaming, Reading
  <2> QED
    BY <1>1, <2>2, <2>4
<1>8. ASSUME NEW q \in Id, TakeRows(q)
      PROVE  CreditInv'
  <2>1. PICK f \in ToGo :
           /\ f = Head(frames[q]) /\ frames[q] # <<>> /\ f.op = "ROWS" /\ f.id = q
           /\ go[q] \in {"first", "pull"}
           /\ frames'[q] = Tail(frames[q]) /\ go'[q] = "open"
           /\ eof'[q] = (eof[q] \/ f.eof)
           /\ \A r \in Id : r # q => /\ go'[r] = go[r] /\ eof'[r] = eof[r]
                                     /\ frames'[r] = frames[r]
           /\ UNCHANGED <<toGo, credit, req, run, toWorker>>
    <3>1. UNCHANGED <<toGo, credit, req, run, toWorker>>
      BY <1>8 DEF TakeRows, callVars, workerVars, rowVars
    <3>2. /\ frames' = [frames EXCEPT ![q] = Tail(frames[q])]
          /\ go' = [go EXCEPT ![q] = "open"]
          /\ eof' = [eof EXCEPT ![q] = eof[q] \/ frames[q][1].eof]
          /\ Head(frames[q]) = frames[q][1]
      BY <1>8, TakeRowsFacts
    <3>3. /\ frames'[q] = Tail(frames[q]) /\ go'[q] = "open"
          /\ eof'[q] = (eof[q] \/ frames[q][1].eof)
          /\ \A r \in Id : r # q => /\ go'[r] = go[r] /\ eof'[r] = eof[r]
                                    /\ frames'[r] = frames[r]
      BY <1>0, <3>2
    <3> QED
      BY <1>8, <3>1, <3>2, <3>3, TakeRowsFacts
  <2>2. \A r \in Id : CreditsPosted(r)' = CreditsPosted(r)
    BY <2>1, CreditsMove
  <2>3. Flying(q)' = Flying(q)
    <3>1. Batches(frames[q], q) = Batches(frames'[q], q) + (IF f.eof THEN 0 ELSE 1)
      <4>1. Batches(frames[q], q) = Batches(Tail(frames[q]), q)
                                    + (IF Batch(f, q) THEN 1 ELSE 0)
        BY <1>0, <2>1, BatchesTail
      <4>2. Batch(f, q) <=> ~f.eof
        BY <2>1 DEF Batch
      <4> QED
        BY <2>1, <4>1, <4>2
    <3>2. ~eof[q] /\ f.eof \in BOOLEAN
      BY <2>1 DEF ReaderInv, ToGo
    <3>3. InHand(q) = 0 /\ InHand(q)' = IF f.eof THEN 0 ELSE 1
      BY <2>1, <3>2 DEF InHand
    <3>4. Flying(q)' = Batches(toGo, q) + Batches(frames'[q], q) + InHand(q)'
                       + CreditsPosted(q)'
      BY <2>1 DEF Flying
    <3>5. Batches(frames'[q], q) \in Nat
      BY BatchesType DEF TypeOK, CallTypeOK
    <3> QED
      BY <2>2, <3>1, <3>2, <3>3, <3>4, <3>5, FlyingType
  <2>4. \A r \in Id : r # q => Flying(r)' = Flying(r)
    BY <2>1, <2>2, FlyingKept
  <2>5. ASSUME NEW r \in Id PROVE Watched(r)' => CreditOK(r)'
    BY <1>2, <2>1, <2>3, <2>4, CreditKept DEF Watched, Streaming, Reading
  <2> QED
    BY <1>1, <2>5
<1>9. ASSUME NEW q \in Id, NextBatch(q)
      PROVE  CreditInv'
  <2>1. /\ UNCHANGED <<toGo, frames, eof, credit, req, run>>
        /\ go[q] = "open" /\ ~eof[q] /\ go'[q] = "pull"
        /\ \A r \in Id : r # q => go'[r] = go[r]
        /\ toWorker' = Append(toWorker, Frame("CREDIT", q))
        /\ Frame("CREDIT", q) \in ToWorker
        /\ \A r \in Id : r # q => Frame("CREDIT", q) # Frame("CREDIT", r)
    BY <1>0, <1>9 DEF NextBatch, callVars, workerVars, rowVars, readVars, Frame, ToWorker
  <2>2. CreditsPosted(q)' = CreditsPosted(q) + 1
    BY <2>1, CreditsMove
  <2>3. \A r \in Id : r # q => CreditsPosted(r)' = CreditsPosted(r)
    BY <2>1, CreditsMove, CreditsCount
  <2>4. Flying(q)' = Flying(q)
    <3>1. InHand(q) = 1 /\ InHand(q)' = 0
      BY <2>1 DEF InHand
    <3>2. Flying(q)' = Batches(toGo, q) + Batches(frames[q], q) + InHand(q)'
                       + CreditsPosted(q)'
      BY <2>1 DEF Flying
    <3> QED
      BY <2>2, <3>1, <3>2, FlyingType
  <2>5. Watched(q)' => CreditOK(q)'
    BY <1>2, <2>1, <2>4, CreditKept DEF Watched, Streaming, Reading
  <2>6. \A r \in Id : r # q => (Watched(r)' => CreditOK(r)')
    BY <1>3, <2>1, <2>3 DEF Watched, Streaming, Reading
  <2> QED
    BY <1>1, <2>5, <2>6

<1>10. ASSUME DispatchCredit \/ DispatchAbort \/ DispatchRequest
       PROVE  CreditInv'
  <2>1. PICK m \in ToWorker :
           /\ m = Head(toWorker) /\ toWorker # <<>> /\ toWorker' = Tail(toWorker)
           /\ m = toWorker[1] /\ 1 \in 1..Len(toWorker)
           /\ m.id \in Id /\ m = Frame(m.op, m.id)
    <3>1. toWorker # <<>> /\ toWorker' = Tail(toWorker)
      BY <1>10 DEF DispatchCredit, DispatchAbort, DispatchRequest
    <3>2. /\ Head(toWorker) \in ToWorker /\ Head(toWorker) = toWorker[1]
          /\ Len(toWorker) \in Nat /\ Len(toWorker) >= 1
      BY <1>0, <3>1, TailFacts
    <3>3. Head(toWorker).id \in Id
          /\ Head(toWorker) = Frame(Head(toWorker).op, Head(toWorker).id)
      BY <3>2 DEF ToWorker, Frame
    <3> QED
      BY <3>1, <3>2, <3>3
  <2>2. UNCHANGED <<toGo, frames, eof, go, req>>
    BY <1>10 DEF DispatchCredit, DispatchAbort, DispatchRequest, goVars, readVars, callVars
  <2>3. \A r \in Id :
           CreditsPosted(r) = CreditsPosted(r)'
                              + (IF m = Frame("CREDIT", r) THEN 1 ELSE 0)
    BY <2>1, CreditsMove
  <2>4. \A r \in Id : /\ CreditsPosted(r) \in Nat
                      /\ m = Frame("CREDIT", r) <=> r = m.id /\ m.op = "CREDIT"
    BY <2>1, CreditsCount DEF Frame
  <2>5. \A r \in Id : CreditsPosted(r)' \in Nat
    <3>1. ASSUME NEW r \in Id PROVE CreditsPosted(r)' \in Nat
      <4>1. CountIn(toWorker', {Frame("CREDIT", r)}) \in Nat
        BY CountType DEF TypeOK, SharedTypeOK
      <4>2. {i \in 1..Len(toWorker') : toWorker'[i] = Frame("CREDIT", r)}
              = {i \in 1..Len(toWorker') : toWorker'[i] \in {Frame("CREDIT", r)}}
        OBVIOUS
      <4> QED
        BY <4>1, <4>2 DEF CreditsPosted, CountIn, Frame
    <3> QED
      BY <3>1
  <2>6. ASSUME NEW r \in Id, r # m.id \/ m.op # "CREDIT"
        PROVE  CreditsPosted(r)' = CreditsPosted(r)
    BY <2>3, <2>4, <2>5, <2>6
  <2>7. CASE DispatchCredit
    <3>1. /\ m.op = "CREDIT"
          /\ IF Streaming(m.id)
             THEN /\ credit' = [credit EXCEPT ![m.id] = @ + 1] /\ run' = Wake(m.id)
             ELSE UNCHANGED <<credit, run>>
      BY <2>1, <2>7 DEF DispatchCredit
    <3>2. \A r \in Id : r # m.id => credit'[r] = credit[r] /\ run'[r] = run[r]
      BY <1>0, <2>1, <3>1 DEF Wake
    <3>3. \A r \in Id : r # m.id => (Watched(r)' => CreditOK(r)')
      BY <1>3, <2>2, <2>6, <3>2, <1>2, FlyingKept, CreditKept
         DEF Watched, Streaming, Reading
    <3>4. CASE ~Streaming(m.id)
      BY <1>1, <2>1, <2>2, <3>1, <3>3, <3>4 DEF Watched, Streaming
    <3>5. CASE Streaming(m.id)
      <4>1. /\ credit'[m.id] = credit[m.id] + 1
            /\ run'[m.id] = IF run[m.id] = "parked" THEN "yielded" ELSE run[m.id]
        BY <1>0, <2>1, <3>1, <3>5 DEF Wake
      <4>2. Flying(m.id)' + 1 = Flying(m.id)
        <5>1. Flying(m.id)' = Batches(toGo, m.id) + Batches(frames[m.id], m.id)
                              + InHand(m.id) + CreditsPosted(m.id)'
          BY <2>2 DEF Flying, InHand
        <5>2. CreditsPosted(m.id) = CreditsPosted(m.id)' + 1
          BY <2>1, <2>3, <2>4, <3>1
        <5> QED
          BY <2>1, <2>5, <5>1, <5>2, FlyingType
      <4>3. credit[m.id] \in Int /\ Flying(m.id) \in Nat /\ Flying(m.id)' \in Int
        <5>1. credit[m.id] \in Int /\ Flying(m.id) \in Nat
          BY <2>1, FlyingType
        <5>2. Flying(m.id)' = Batches(toGo, m.id) + Batches(frames[m.id], m.id)
                              + InHand(m.id) + CreditsPosted(m.id)'
          BY <2>2 DEF Flying, InHand
        <5> QED
          BY <2>1, <2>5, <5>1, <5>2, FlyingType
      <4>4. Watched(m.id)' => Watched(m.id)
        BY <2>2, <3>5 DEF Watched, Reading
      <4>5. ASSUME Watched(m.id) PROVE CreditOK(m.id)'
        <5>1. CreditOK(m.id)
          BY <1>2, <2>1, <4>5
        <5> QED
          BY <4>1, <4>2, <4>3, <5>1 DEF CreditOK
      <4> QED
        BY <1>1, <2>1, <3>3, <4>4, <4>5
    <3> QED
      BY <3>4, <3>5
  <2>8. CASE DispatchAbort
    <3>1. /\ m.op = "ABORT" /\ credit' = credit
          /\ run' = Wake(m.id) \/ run' = run
      BY <2>1, <2>8 DEF DispatchAbort, rowVars
    <3>2. \A r \in Id : r # m.id => run'[r] = run[r]
      BY <1>0, <2>1, <3>1 DEF Wake
    <3>3. go[m.id] = "closed"
      <4>1. Posted("ABORT", m.id)
        BY <2>1, <3>1 DEF Posted
      <4> QED
        BY <2>1, <4>1 DEF AbandonInv
    <3>4. ~Watched(m.id)'
      BY <2>2, <3>3 DEF Watched, Reading
    <3>5. \A r \in Id : r # m.id => (Watched(r)' => CreditOK(r)')
      BY <1>3, <2>2, <2>6, <3>1, <3>2 DEF Watched, Streaming, Reading
    <3> QED
      BY <1>1, <3>4, <3>5
  <2>9. CASE DispatchRequest
    <3>1. /\ m.op # "CREDIT" /\ credit' = credit
          /\ run' = [run EXCEPT ![m.id] = "queued"]
      BY <2>1, <2>9 DEF DispatchRequest, rowVars
    <3>2. ~Watched(m.id)'
      BY <1>0, <2>1, <3>1 DEF Watched, Streaming
    <3>3. \A r \in Id : r # m.id => (Watched(r)' => CreditOK(r)')
      BY <1>0, <1>3, <2>1, <2>2, <2>6, <3>1 DEF Watched, Streaming, Reading
    <3> QED
      BY <1>1, <3>2, <3>3
  <2> QED
    BY <1>10, <2>7, <2>8, <2>9

<1>11. ASSUME NEW k \in Db \cup {0}, StartExec(k)
       PROVE  CreditInv'
  <2>1. PICK p \in Id :
           /\ req[p].op = "EXEC" /\ run' = [run EXCEPT ![p] = "running"]
           /\ UNCHANGED <<toGo, frames, eof, credit, go, req, toWorker>>
    BY <1>11, HeadFacts DEF StartExec, goVars, callVars, readVars, rowVars
  <2>2. ~Watched(p)'
    BY <2>1 DEF Watched, Streaming
  <2>3. \A r \in Id : CreditsPosted(r)' = CreditsPosted(r)
    BY <2>1, CreditsMove
  <2>4. \A r \in Id : r # p => run'[r] = run[r]
    BY <1>0, <2>1
  <2>5. \A r \in Id : r # p => (Watched(r)' => CreditOK(r)')
    BY <1>3, <2>1, <2>3, <2>4 DEF Watched, Streaming, Reading
  <2> QED
    BY <1>1, <2>2, <2>5
<1>12. ASSUME NEW k \in Db \cup {0}, StartQuery(k)
       PROVE  CreditInv'
  <2>1. PICK p \in Id :
           /\ run[p] = "queued" /\ run' = [run EXCEPT ![p] = "running"]
           /\ credit' = [credit EXCEPT ![p] = Window]
           /\ UNCHANGED <<toGo, frames, eof, go, req, toWorker>>
    BY <1>12, HeadFacts DEF StartQuery, goVars, callVars, readVars
  <2>2. /\ run'[p] = "running" /\ credit'[p] = Window
        /\ \A r \in Id : r # p => run'[r] = run[r] /\ credit'[r] = credit[r]
    BY <1>0, <2>1
  <2>3. \A r \in Id : CreditsPosted(r)' = CreditsPosted(r)
    BY <2>1, CreditsMove
  <2>4. \A r \in Id : Flying(r)' = Flying(r)
    BY <2>1, <2>3, FlyingKept
  <2>5. Reading(p) => Flying(p) = 0
    BY <2>1, NothingFlies
  <2>6. Watched(p)' => CreditOK(p)'
    BY <2>1, <2>2, <2>4, <2>5, WindowAssumption DEF CreditOK, Watched, Reading
  <2>7. \A r \in Id : r # p => (Watched(r)' => CreditOK(r)')
    BY <1>2, <2>1, <2>2, <2>4, CreditKept DEF Watched, Streaming, Reading
  <2> QED
    BY <1>1, <2>6, <2>7
<1>13. ASSUME NEW q \in Id, NEW f \in ToGo, f.id = q, toGo' = Append(toGo, f),
              UNCHANGED <<goVars, toWorker>>
       PROVE  \A r \in Id :
                 Flying(r)' = Flying(r) + (IF Batch(f, r) THEN 1 ELSE 0)
  <2>1. UNCHANGED <<frames, eof, go>>
    BY <1>13 DEF goVars, readVars
  <2> SUFFICES ASSUME NEW r \in Id
               PROVE  Flying(r)' = Flying(r) + (IF Batch(f, r) THEN 1 ELSE 0)
    OBVIOUS
  <2>2. Batches(toGo', r) = Batches(toGo, r) + (IF Batch(f, r) THEN 1 ELSE 0)
    BY <1>0, <1>13, BatchesAppend
  <2>3. CreditsPosted(r)' = CreditsPosted(r)
    BY <1>13, CreditsMove
  <2>4. Flying(r)' = Batches(toGo', r) + Batches(frames[r], r) + InHand(r)
                     + CreditsPosted(r)'
    BY <2>1 DEF Flying, InHand
  <2> QED
    BY <2>2, <2>3, <2>4, FlyingType
<1>14. ASSUME NEW q \in Id, EndStep(q) \/ \E n \in 1..MaxRows : Flush(q, n)
       PROVE  CreditInv'
  <2>1. PICK f \in ToGo :
           /\ f.id = q /\ toGo' = Append(toGo, f)
           /\ \A r \in Id : r # q => run'[r] = run[r]
           /\ UNCHANGED <<goVars, toWorker>>
           /\ \/ run'[q] = "done" /\ credit' = credit
              \/ /\ run[q] = "running" /\ req[q].op = "QUERY" /\ ~f.eof
                 /\ f.op = "ROWS" /\ ~aborted[q]
                 /\ run'[q] = IF MustWait(credit[q] - 1, aborted[q])
                              THEN "parked" ELSE "yielded"
                 /\ credit' = [credit EXCEPT ![q] = credit[q] - 1]
    BY <1>14, PostFacts
  <2>2. UNCHANGED <<go, req>>
    BY <2>1 DEF goVars, callVars
  <2>3. \A r \in Id : Flying(r)' = Flying(r) + (IF Batch(f, r) THEN 1 ELSE 0)
    BY <1>13, <2>1
  <2>4. \A r \in Id : /\ r # q => ~Batch(f, r)
                      /\ Flying(r) \in Nat /\ credit[r] \in Int
    BY <2>1, FlyingType DEF Batch
  <2>5. \A r \in Id : r # q => Flying(r)' = Flying(r) /\ credit'[r] = credit[r]
    BY <1>0, <2>1, <2>3, <2>4
  <2>6. \A r \in Id : r # q => (Watched(r)' => CreditOK(r)')
    BY <1>2, <2>1, <2>2, <2>5, CreditKept DEF Watched, Streaming, Reading
  <2>7. CASE run'[q] = "done"
    BY <1>1, <2>6, <2>7 DEF Watched, Streaming
  <2>8. CASE /\ run[q] = "running" /\ req[q].op = "QUERY" /\ ~f.eof
             /\ f.op = "ROWS" /\ ~aborted[q]
             /\ run'[q] = IF MustWait(credit[q] - 1, aborted[q])
                          THEN "parked" ELSE "yielded"
             /\ credit' = [credit EXCEPT ![q] = credit[q] - 1]
    <3>1. Watched(q)' => Watched(q)
      BY <2>2, <2>8 DEF Watched, Streaming, Reading
    <3>2. Flying(q)' = Flying(q) + 1 /\ credit'[q] = credit[q] - 1
      BY <1>0, <2>1, <2>3, <2>8 DEF Batch
    <3>3. ASSUME Watched(q) PROVE CreditOK(q)'
      <4>1. credit[q] + Flying(q) = Window /\ credit[q] >= 1
        BY <1>2, <2>8, <3>3 DEF CreditOK
      <4>2. IF run'[q] = "parked" THEN credit'[q] = 0 ELSE credit'[q] >= 1
        BY <2>4, <2>8, <3>2, <4>1 DEF MustWait
      <4>3. credit'[q] + Flying(q)' = Window
        BY <2>4, <3>2, <4>1
      <4> QED
        BY <4>2, <4>3 DEF CreditOK
    <3> QED
      BY <1>1, <2>6, <3>1, <3>3
  <2> QED
    BY <2>1, <2>7, <2>8
<1> QED
  BY <1>4, <1>5, <1>6, <1>7, <1>8, <1>9, <1>10, <1>11, <1>12, <1>14, RowCases

-----------------------------------------------------------------------------
(* The theorems.                                                           *)

(* No row, no credit and no end exists before the first request.           *)
LEMMA RowInit ==
    Init => FreshInv /\ ReaderInv /\ AbandonInv /\ LastInv /\ RowInv /\ CreditInv
<1> SUFFICES ASSUME Init
             PROVE  /\ FreshInv /\ ReaderInv /\ AbandonInv /\ LastInv /\ RowInv
                    /\ CreditInv
  OBVIOUS
<1> USE DEF Init
<1>1. FreshInv
  BY DEF FreshInv, NoRequest
<1>2. ReaderInv /\ LastInv
  BY DEF ReaderInv, LastInv
<1>3. AbandonInv
  BY DEF AbandonInv, InEarly, Posted
<1>4. \A r \in Id : go[r] \notin {"first", "open", "pull"}
  OBVIOUS
<1>5. RowInv /\ CreditInv
  BY <1>4 DEF RowInv, CreditInv, CreditConserved
<1> QED
  BY <1>1, <1>2, <1>3, <1>5

(* Every step keeps RowIInv.                                               *)
LEMMA RowIStep == RowIInv /\ [Next]_vars => RowIInv'
<1> SUFFICES ASSUME RowIInv, [Next]_vars PROVE RowIInv'
  OBVIOUS
<1> USE DEF RowIInv, OrderIInv
<1>1. OrderIInv'
  BY TypeStep, IssuedStep, WireStep, ChainStep, DispatchStep, InOrderStep, EarlyStep
<1>2. TypeOK'
  BY <1>1
<1>3. TerminalInv' /\ FreshInv' /\ LastInv'
  BY TerminalStep, FreshStep, LastStep
<1>4. ReaderInv' /\ AbandonInv'
  BY ReaderInvStep, AbandonStep
<1>5. RowInv' /\ CreditInv'
  BY <1>2, RowStep, CreditStep
<1> QED
  BY <1>1, <1>3, <1>4, <1>5

(* RowIInv is inductive: the order of requests, the rows and the credits,  *)
(* whatever is aborted, cancelled or closed, and however few early aborts  *)
(* the worker can remember.                                                *)
THEOREM RowInvariant == Spec => []RowIInv
<1>1. Init => RowIInv
  BY OrderInit, RestInit, RowInit DEF RowIInv
<1> QED
  BY <1>1, RowIStep, PTL DEF Spec

(* No credit is lost or made up: while a stream runs and its reader is     *)
(* there, the credits the worker holds, the batches on their way to the    *)
(* reader and in its hand and the credits on their way back make the       *)
(* window, and the worker never runs below zero.                           *)
THEOREM CreditsKept == Spec => []CreditConserved
<1>1. RowIInv => CreditConserved
  BY DEF RowIInv, CreditInv
<1> QED
  BY <1>1, RowInvariant, PTL

(* A caller that is told io.EOF has read every row of its statement, for   *)
(* any number of rows, requests and databases and any interruption: an     *)
(* ABORTED that driver.Rows.Next would turn into io.EOF is never that of   *)
(* somebody else's cancellation.                                           *)
THEOREM EndsAreComplete == Spec => []EofMeansComplete
<1>1. RowIInv => EofMeansComplete
  BY DEF RowIInv, ReaderInv, EofMeansComplete
<1> QED
  BY <1>1, RowInvariant, PTL

(* The invariant the runs check, with the aborts: it is inductive where    *)
(* the worker has room to remember every abort.                            *)
THEOREM StreamInvariant ==
    ASSUME MaxEarlyAborts >= MaxId
    PROVE  Spec => []StreamIInv
<1>1. Init => StreamIInv
  BY OrderInit, RestInit, RowInit DEF RowIInv, StreamIInv
<1>2. StreamIInv /\ [Next]_vars => StreamIInv'
  <2>1. ASSUME StreamIInv, [Next]_vars PROVE RowIInv' /\ AbortInv'
    BY <2>1, RowIStep, AbortStep DEF StreamIInv, RowIInv, OrderIInv
  <2> QED
    BY <2>1 DEF StreamIInv
<1> QED
  BY <1>1, <1>2, PTL DEF Spec

-----------------------------------------------------------------------------
(* The refinement: what Calls promises, kept by the protocol.              *)

viewVars == <<CallDb, CallState, outcome, got, ServedState, total>>

(* The view of one request.                                                *)
LEMMA ViewFacts ==
    /\ \A r \in Id :
          /\ CallDb[r] = req[r].db
          /\ go[r] = "unused" => CallState[r] = "none"
          /\ go[r] \in {"call", "first"} => CallState[r] = "waiting"
          /\ go[r] \in {"open", "pull"} => CallState[r] = "holding"
          /\ go[r] = "closed" => CallState[r] = "over"
          /\ run[r] \in {"none", "queued"} => ServedState[r] = "todo"
          /\ run[r] \in {"running", "parked", "yielded"} => ServedState[r] = "active"
          /\ run[r] = "done" => ServedState[r] = "served"
    /\ CallDb = [r \in Id |-> CallDb[r]]
    /\ CallState = [r \in Id |-> CallState[r]]
    /\ ServedState = [r \in Id |-> ServedState[r]]
BY DEF CallDb, CallState, ServedState

(* A step that changes the view of no request is a step Calls does not see.*)
LEMMA ViewKept ==
    /\ UNCHANGED req => UNCHANGED CallDb
    /\ UNCHANGED go => UNCHANGED CallState
    /\ UNCHANGED run => UNCHANGED ServedState
    /\ (\A r \in Id : run'[r] # run[r] =>
           \/ run[r] \in {"none", "queued"} /\ run'[r] \in {"none", "queued"}
           \/ Begun(r) /\ Begun(r)')
       => UNCHANGED ServedState
BY DEF CallDb, CallState, ServedState, Begun

(* One entry of a function changed.                                        *)
LEMMA Changed ==
    ASSUME NEW f, f = [r \in Id |-> f[r]], NEW g, g = [r \in Id |-> g[r]],
           NEW q \in Id, NEW x, g[q] = x, \A r \in Id : r # q => g[r] = f[r]
    PROVE  g = [f EXCEPT ![q] = x]
OBVIOUS

(* The view of the worker moves for one request, the view of its caller    *)
(* for one.                                                                *)
LEMMA ServedMoves ==
    ASSUME TypeOK, NEW q \in Id, NEW x, ServedState'[q] = x,
           \A r \in Id : r # q => run'[r] = run[r]
    PROVE  ServedState' = [ServedState EXCEPT ![q] = x]
<1>1. \A r \in Id : r # q => ServedState'[r] = ServedState[r]
  BY DEF ServedState
<1>2. ServedState = [r \in Id |-> ServedState[r]] /\ ServedState' = [r \in Id |-> ServedState'[r]]
  BY DEF ServedState
<1> QED
  BY <1>1, <1>2, Changed

LEMMA CallMoves ==
    ASSUME TypeOK, NEW q \in Id, NEW x, CallState'[q] = x,
           \A r \in Id : r # q => go'[r] = go[r]
    PROVE  CallState' = [CallState EXCEPT ![q] = x]
<1>1. \A r \in Id : r # q => CallState'[r] = CallState[r]
  BY DEF CallState
<1>2. CallState = [r \in Id |-> CallState[r]] /\ CallState' = [r \in Id |-> CallState'[r]]
  BY DEF CallState
<1> QED
  BY <1>1, <1>2, Changed

(* The request at the head of a chain has its turn.                        *)
LEMMA TurnAtHead ==
    ASSUME RowIInv, NEW q \in Id, AtHead(q), run[q] = "queued"
    PROVE  CallsView!Turn(q)
<1>1. go[q] # "unused"
  BY DEF RowIInv, OrderIInv, IssuedInv
<1>2. CallState[q] # "none" /\ ServedState[q] = "todo"
  BY <1>1 DEF CallState, ServedState
<1>3. ASSUME NEW p \in Id, p < q, CallDb[p] = CallDb[q]
      PROVE  ServedState[p] = "served"
  <2>1. req[p].db = req[q].db
    BY <1>3 DEF CallDb
  <2>2. run[p] = "done"
    BY <1>3, <2>1, HeadInOrder DEF RowIInv, OrderIInv
  <2> QED
    BY <2>2 DEF ServedState
<1> QED
  BY <1>2, <1>3 DEF CallsView!Turn

(* Every step of the protocol is a step of Calls or one it does not see.   *)
LEMMA CallsStep ==
    ASSUME RowIInv, [Next]_vars
    PROVE  CallsView!Next \/ UNCHANGED viewVars
<1>0. /\ TypeOK /\ IssuedInv /\ WireInv /\ ChainInv /\ DispatchInv /\ TerminalInv
      /\ FreshInv /\ ReaderInv /\ AbandonInv /\ LastInv /\ RowInv
  BY DEF RowIInv, OrderIInv
<1>1. /\ go \in [Id -> {"unused", "call", "first", "open", "pull", "closed"}]
      /\ run \in [Id -> {"none", "queued", "running", "parked", "yielded", "done"}]
      /\ req \in [Id -> Request \cup {NoRequest}] /\ total \in [Id -> 0..MaxRows]
      /\ toWorker \in Seq(ToWorker)
  BY <1>0 DEF TypeOK, CallTypeOK, WorkerTypeOK, RowTypeOK, SharedTypeOK
<1>2. ASSUME NEW op \in {"EXEC", "QUERY"}, NEW d \in Db, Issue(op, d)
      PROVE  CallsView!Next
  <2>1. PICK p \in Id :
           /\ p = nextId /\ go'[p] \in {"call", "first"} /\ req'[p].db = d
           /\ \A r \in Id : r # p => go'[r] = go[r] /\ req'[r] = req[r]
           /\ UNCHANGED <<outcome, got, run, total>>
    <3>1. nextId \in Id /\ UNCHANGED <<outcome, got, run, total>>
      BY <1>2 DEF Issue, readVars, workerVars, rowVars
    <3>2. /\ req' = [req EXCEPT ![nextId] = [op |-> op, db |-> d]]
          /\ go' = [go EXCEPT ![nextId] = IF op = "EXEC" THEN "call" ELSE "first"]
      BY <1>2 DEF Issue
    <3> QED
      BY <1>1, <3>1, <3>2
  <2>2. \A q \in Id : q < p => Issued(q)
    BY <2>1 DEF Issued
  <2>3. go[p] = "unused" /\ \A q \in Id : q < p => go[q] # "unused"
    BY <1>0, <2>1, <2>2, MaxIdAssumption DEF IssuedInv, Issued, Id
  <2>4. CallState[p] = "none" /\ \A q \in Id : q < p => CallState[q] # "none"
    BY <2>3 DEF CallState
  <2>5. CallState' = [CallState EXCEPT ![p] = "waiting"]
    <3>1. CallState'[p] = "waiting"
      BY <2>1 DEF CallState
    <3> QED
      BY <1>0, <2>1, <3>1, CallMoves
  <2>6. CallDb' = [CallDb EXCEPT ![p] = d]
    <3>1. CallDb = [r \in Id |-> CallDb[r]] /\ CallDb' = [r \in Id |-> CallDb'[r]]
      BY DEF CallDb
    <3>2. CallDb'[p] = d /\ \A r \in Id : r # p => CallDb'[r] = CallDb[r]
      BY <2>1 DEF CallDb
    <3> QED
      BY <3>1, <3>2, Changed
  <2>7. UNCHANGED <<outcome, got, ServedState, total>>
    BY <2>1, ViewKept
  <2>8. CallsView!Make(p, d)
    BY <2>4, <2>5, <2>6, <2>7 DEF CallsView!Make
  <2> QED
    BY <2>8 DEF CallsView!Next

<1>3. ASSUME \/ Receive \/ Resume
             \/ \E q \in Id : CtxDone(q) \/ WatchStore(q) \/ WatchStop(q)
             \/ DispatchCredit \/ DispatchAbort \/ DispatchRequest
             \/ UNCHANGED vars
      PROVE  UNCHANGED viewVars
  <2>1. UNCHANGED <<req, go, outcome, got, total>>
    BY <1>3 DEF Receive, Resume, CtxDone, WatchStore, WatchStop, DispatchCredit,
       DispatchAbort, DispatchRequest, vars, goVars, callVars, readVars, workerVars, rowVars
  <2>2. \/ run' = run \/ Resume \/ \E r \in Id : run' = Wake(r)
        \/ \E r \in Id : run[r] = "none" /\ run' = [run EXCEPT ![r] = "queued"]
    <3>1. CASE DispatchCredit \/ DispatchAbort
      <4>1. toWorker # <<>>
        BY <3>1 DEF DispatchCredit, DispatchAbort
      <4>2. Head(toWorker) \in ToWorker
        BY <1>1, <4>1, TailFacts
      <4>3. Head(toWorker).id \in Id
        BY <4>2 DEF ToWorker
      <4> QED
        BY <3>1, <4>3 DEF DispatchCredit, DispatchAbort
    <3>2. CASE DispatchRequest
      BY <1>0, <3>2, PostedIssued DEF DispatchRequest
    <3> QED
      BY <1>3, <3>1, <3>2 DEF Receive, CtxDone, WatchStore, WatchStop, vars, workerVars
  <2>3. \A r \in Id : run'[r] # run[r] =>
           \/ run[r] \in {"none", "queued"} /\ run'[r] \in {"none", "queued"}
           \/ Begun(r) /\ Begun(r)'
    BY <1>1, <2>2 DEF Begun, Wake, Resume
  <2>4. UNCHANGED <<CallDb, CallState, ServedState>>
    BY <2>1, <2>3, ViewKept
  <2> QED
    BY <2>1, <2>4 DEF viewVars
<1>4. ASSUME NEW q \in Id, NEW res \in {"ok", "error", "eof", "closed"}, Leaves(q, res)
      PROVE  CallsView!Next
  <2>1. /\ UNCHANGED <<req, got, run, total>>
        /\ go[q] \in {"call", "first", "open", "pull"} /\ go'[q] = "closed"
        /\ \A r \in Id : r # q => go'[r] = go[r]
        /\ outcome' = [outcome EXCEPT ![q] = res]
    BY <1>1, <1>4 DEF Leaves, End, Route, callVars, workerVars, rowVars
  <2>2. CallState[q] \in {"waiting", "holding"}
    BY <2>1 DEF CallState
  <2>3. CallState' = [CallState EXCEPT ![q] = "over"]
    <3>1. CallState'[q] = "over"
      BY <2>1 DEF CallState
    <3> QED
      BY <1>0, <2>1, <3>1, CallMoves
  <2>4. frames[q] # <<>> => 1 \in 1..Len(frames[q])
    BY <1>0 DEF TypeOK, CallTypeOK
  <2>5. ASSUME res = "eof" PROVE CallState[q] = "holding" /\ got[q] = total[q]
    <3>1. \/ go[q] = "open" /\ pending[q] = 0 /\ eof[q]
          \/ go[q] = "pull" /\ ~done[q] /\ frames[q] # <<>>
             /\ frames[q][1].op = "ABORTED"
      BY <1>4, <2>5 DEF Leaves
    <3>2. go[q] = "open" /\ pending[q] = 0 /\ eof[q]
      BY <1>0, <2>4, <3>1 DEF AbandonInv
    <3>3. got[q] = total[q]
      BY <1>0, <3>2, EndRead
    <3> QED
      BY <3>2, <3>3 DEF CallState
  <2>6. ASSUME res = "ok" PROVE CallState[q] = "waiting" /\ ServedState[q] = "served"
    <3>1. go[q] = "call" /\ frames[q] # <<>> /\ frames[q][1].op = "EXEC_RESULT"
      BY <1>4, <2>6 DEF Leaves
    <3>2. run[q] = "done"
      BY <1>0, <2>4, <3>1 DEF TerminalInv, FrameOK
    <3> QED
      BY <3>1, <3>2 DEF CallState, ServedState
  <2>7. UNCHANGED <<CallDb, got, ServedState, total>>
    BY <2>1, ViewKept
  <2>8. CallsView!End(q, res)
    BY <2>1, <2>2, <2>3, <2>5, <2>6, <2>7 DEF CallsView!End
  <2> QED
    BY <2>8 DEF CallsView!Next
<1>5. ASSUME NEW q \in Id, TakeRows(q)
      PROVE  CallsView!Next \/ UNCHANGED viewVars
  <2>1. /\ UNCHANGED <<req, got, run, total, outcome>>
        /\ go[q] \in {"first", "pull"} /\ frames[q] # <<>>
        /\ go' = [go EXCEPT ![q] = "open"]
    BY <1>5 DEF TakeRows, callVars, workerVars, rowVars
  <2>2. go'[q] = "open" /\ \A r \in Id : r # q => go'[r] = go[r]
    BY <1>1, <2>1
  <2>3. UNCHANGED <<CallDb, ServedState>>
    BY <2>1, ViewKept
  <2>4. CallState' = [CallState EXCEPT ![q] = "holding"]
    <3>1. CallState'[q] = "holding"
      BY <2>2 DEF CallState
    <3> QED
      BY <1>0, <2>2, <3>1, CallMoves
  <2>5. CASE go[q] = "first"
    <3>1. CallState[q] = "waiting"
      BY <2>5 DEF CallState
    <3>2. run[q] \notin {"none", "queued"}
      BY <1>0, <2>1 DEF FreshInv
    <3>3. ServedState[q] # "todo"
      BY <3>2 DEF ServedState
    <3>4. CallsView!Hold(q)
      BY <2>1, <2>3, <2>4, <3>1, <3>3 DEF CallsView!Hold
    <3> QED
      BY <3>4 DEF CallsView!Next
  <2>6. CASE go[q] = "pull"
    <3>1. CallState[q] = "holding" /\ CallState = [r \in Id |-> CallState[r]]
      BY <2>6 DEF CallState
    <3>2. CallState' = CallState
      BY <2>4, <3>1
    <3> QED
      BY <2>1, <2>3, <3>2 DEF viewVars
  <2> QED
    BY <2>1, <2>5, <2>6
<1>6. ASSUME NEW q \in Id, NextRow(q)
      PROVE  CallsView!Next
  <2>1. /\ UNCHANGED <<req, go, run, total, outcome>>
        /\ go[q] = "open" /\ pending[q] > 0 /\ got' = [got EXCEPT ![q] = @ + 1]
    BY <1>6 DEF NextRow, callVars, workerVars, rowVars
  <2>2. got[q] < total[q]
    <3>1. run[q] \notin {"none", "queued"}
      BY <1>0, <2>1 DEF FreshInv
    <3>2. Begun(q) \/ run[q] = "done"
      BY <1>1, <3>1 DEF Begun
    <3>3. /\ Begun(q) => Seen(q) + left[q] = total[q]
          /\ run[q] = "done" => Seen(q) <= total[q]
      BY <1>0, <2>1 DEF RowInv
    <3> QED
      BY <1>0, <2>1, <3>2, <3>3, SeenType
  <2>3. CallState[q] = "holding"
    BY <2>1 DEF CallState
  <2>4. UNCHANGED <<CallDb, CallState, ServedState>>
    BY <2>1, ViewKept
  <2>5. CallsView!Read(q)
    BY <2>1, <2>2, <2>3, <2>4 DEF CallsView!Read
  <2> QED
    BY <2>5 DEF CallsView!Next
<1>7. ASSUME NEW q \in Id, NextBatch(q)
      PROVE  UNCHANGED viewVars
  <2>1. /\ UNCHANGED <<req, got, run, total, outcome>>
        /\ go[q] = "open" /\ go' = [go EXCEPT ![q] = "pull"]
    BY <1>7 DEF NextBatch, callVars, readVars, workerVars, rowVars
  <2>2. \A r \in Id : go'[r] = go[r] \/ (go[r] = "open" /\ go'[r] = "pull")
    BY <1>1, <2>1
  <2>3. CallState' = CallState
    BY <2>2 DEF CallState
  <2>4. UNCHANGED <<CallDb, ServedState>>
    BY <2>1, ViewKept
  <2> QED
    BY <2>1, <2>3, <2>4 DEF viewVars
<1>8. ASSUME NEW k \in Db \cup {0}, StartExec(k) \/ StartQuery(k)
      PROVE  CallsView!Next
  <2>1. PICK p \in Id, n \in 0..MaxRows :
           /\ AtHead(p) /\ run[p] = "queued"
           /\ run' = [run EXCEPT ![p] = "running"]
           /\ total' = [total EXCEPT ![p] = n]
           /\ UNCHANGED <<req, go, got, outcome>>
    <3>1. CASE StartExec(k)
      <4>1. PICK p \in Id : /\ AtHead(p) /\ run[p] = "queued"
                            /\ run' = [run EXCEPT ![p] = "running"]
        BY <1>0, <3>1, HeadFacts DEF StartExec
      <4>2. UNCHANGED <<req, go, got, outcome, total>>
        BY <3>1 DEF StartExec, goVars, callVars, readVars, rowVars
      <4>3. total[p] = 0
        BY <1>0, <4>1 DEF FreshInv
      <4>4. total' = [total EXCEPT ![p] = 0]
        BY <1>1, <4>2, <4>3
      <4>5. 0 \in 0..MaxRows
        BY RowsAssumption
      <4> QED
        BY <4>1, <4>2, <4>4, <4>5
    <3>2. CASE StartQuery(k)
      BY <1>0, <3>2, HeadFacts DEF StartQuery, goVars, callVars, readVars
    <3> QED
      BY <1>8, <3>1, <3>2
  <2>2. CallsView!Turn(p)
    BY <2>1, TurnAtHead
  <2>3. ServedState' = [ServedState EXCEPT ![p] = "active"]
    <3>1. run'[p] = "running" /\ \A r \in Id : r # p => run'[r] = run[r]
      BY <1>1, <2>1
    <3>2. ServedState'[p] = "active"
      BY <3>1 DEF ServedState
    <3> QED
      BY <1>0, <3>1, <3>2, ServedMoves
  <2>4. UNCHANGED <<CallDb, CallState>>
    BY <2>1, ViewKept
  <2>5. CallsView!Serve(p, n)
    BY <2>1, <2>2, <2>3, <2>4 DEF CallsView!Serve
  <2> QED
    BY <2>5 DEF CallsView!Next
<1>9. ASSUME NEW q \in Id, EndStep(q)
      PROVE  CallsView!Next
  <2>1. /\ AtHead(q) /\ run[q] \in {"queued", "running"} /\ run'[q] = "done"
        /\ \A r \in Id : r # q => run'[r] = run[r]
        /\ UNCHANGED <<req, go, got, outcome, total>>
    BY <1>1, <1>9 DEF EndStep, Finish, goVars, callVars, readVars, rowVars
  <2>2. ServedState' = [ServedState EXCEPT ![q] = "served"]
    <3>1. ServedState'[q] = "served"
      BY <2>1 DEF ServedState
    <3> QED
      BY <1>0, <2>1, <3>1, ServedMoves
  <2>3. UNCHANGED <<CallDb, CallState>>
    BY <2>1, ViewKept
  <2>4. CASE run[q] = "queued"
    <3>1. CallsView!Refuse(q)
      BY <2>1, <2>2, <2>3, <2>4, TurnAtHead DEF CallsView!Refuse
    <3> QED
      BY <3>1 DEF CallsView!Next
  <2>5. CASE run[q] = "running"
    <3>1. ServedState[q] = "active"
      BY <2>5 DEF ServedState
    <3>2. CallsView!Served(q)
      BY <2>1, <2>2, <2>3, <3>1 DEF CallsView!Served
    <3> QED
      BY <3>2 DEF CallsView!Next
  <2> QED
    BY <2>1, <2>4, <2>5
<1>10. ASSUME NEW q \in Id, NEW n \in 1..MaxRows, Flush(q, n)
       PROVE  UNCHANGED viewVars
  <2>1. /\ UNCHANGED <<req, go, got, outcome, total>> /\ run[q] = "running"
        /\ run' = [run EXCEPT ![q] = IF MustWait(credit[q] - 1, aborted[q])
                                     THEN "parked" ELSE "yielded"]
    BY <1>10 DEF Flush, goVars, callVars, readVars
  <2>2. \A r \in Id : run'[r] # run[r] => Begun(r) /\ Begun(r)'
    BY <1>1, <2>1 DEF Begun
  <2>3. UNCHANGED <<CallDb, CallState, ServedState>>
    BY <2>1, <2>2, ViewKept
  <2> QED
    BY <2>1, <2>3 DEF viewVars
<1> QED
  BY <1>0, <1>2, <1>3, <1>4, <1>5, <1>6, <1>7, <1>8, <1>9, <1>10, RowCases

(* The protocol implements Calls: whatever frames, credits, aborts and     *)
(* cancellations cross, a caller sees statements executed one at a time in *)
(* the order of the calls, no row that was not there, "eof" only after the *)
(* last row and "ok" only of a statement executed to its end.              *)
THEOREM Implementation == Spec => ImplementsCalls
<1>1. Init => CallsView!Init
  <2> SUFFICES ASSUME Init PROVE CallsView!Init
    OBVIOUS
  <2>1. /\ CallDb = [r \in Id |-> 0] /\ CallState = [r \in Id |-> "none"]
        /\ ServedState = [r \in Id |-> "todo"]
    BY DEF Init, CallDb, CallState, ServedState, NoRequest
  <2> QED
    BY <2>1 DEF Init, CallsView!Init
<1>2. RowIInv /\ [Next]_vars => CallsView!Next \/ UNCHANGED viewVars
  BY CallsStep
<1>3. UNCHANGED viewVars => UNCHANGED CallsView!vars
  BY DEF viewVars, CallsView!vars
<1> QED
  BY <1>1, <1>2, <1>3, RowInvariant, PTL DEF Spec, ImplementsCalls, CallsView!Spec
=============================================================================
