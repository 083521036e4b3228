--------------------------- MODULE TransportProofs ---------------------------
(***************************************************************************)
(* Theorems about Transport: whatever the callbacks, Close and the callers *)
(* do between each other's critical sections, no wake-up is lost, nobody   *)
(* outlives the worker and no frame is lost or read twice.                 *)
(***************************************************************************)
EXTENDS Transport, FiniteSetTheorems, FunctionTheorems, TLAPS

-----------------------------------------------------------------------------
(* Counting in a queue of messages.                                        *)

(* How often a message occurs in a sequence is a natural number.           *)
LEMMA CountType ==
    ASSUME NEW S, NEW s \in Seq(S), NEW i
    PROVE  /\ IsFiniteSet({k \in 1..Len(s) : s[k] = i})
           /\ Count(s, i) \in Nat
<1> DEFINE At == {k \in 1..Len(s) : s[k] = i}
<1>1. Len(s) \in Int /\ 1 \in Int
  OBVIOUS
<1>2. IsFiniteSet(1..Len(s))
  BY <1>1, FS_Interval
<1>3. At \in SUBSET (1..Len(s))
  OBVIOUS
<1>4. IsFiniteSet(At)
  BY <1>2, <1>3, FS_Subset
<1> QED
  BY <1>4, FS_CardinalityType DEF Count

(* Nothing occurs in the empty sequence.                                   *)
LEMMA CountEmpty ==
    ASSUME NEW i
    PROVE  Count(<<>>, i) = 0
<1>1. {k \in 1..Len(<<>>) : <<>>[k] = i} = {}
  OBVIOUS
<1> QED
  BY <1>1, FS_EmptySet DEF Count

(* Posting a message adds one to its count and nothing to the others.      *)
LEMMA CountAppend ==
    ASSUME NEW S, NEW s \in Seq(S), NEW e, NEW i,
           NEW t \in Seq(S), Len(t) = Len(s) + 1, t[Len(s) + 1] = e,
           \A k \in 1..Len(s) : t[k] = s[k]
    PROVE  Count(t, i) = Count(s, i) + (IF e = i THEN 1 ELSE 0)
<1> DEFINE At == {k \in 1..Len(s) : s[k] = i}
           Then == {k \in 1..Len(t) : t[k] = i}
<1>1. /\ Len(s) \in Nat /\ Len(t) = Len(s) + 1
      /\ \A k \in 1..Len(s) : t[k] = s[k]
      /\ t[Len(s) + 1] = e
  OBVIOUS
<1>2. IsFiniteSet(At) /\ Count(s, i) = Cardinality(At) /\ Count(s, i) \in Nat
  BY CountType DEF Count
<1>3. Count(t, i) = Cardinality(Then)
  BY DEF Count
<1>4. CASE e = i
  <2>1. Then = At \cup {Len(s) + 1} /\ Len(s) + 1 \notin At
    BY <1>1, <1>4
  <2>2. Cardinality(Then) = Cardinality(At) + 1
    BY <1>2, <2>1, FS_AddElement
  <2> QED
    BY <1>2, <1>3, <1>4, <2>2
<1>5. CASE e # i
  <2>1. Then = At
    BY <1>1, <1>5
  <2>2. Cardinality(Then) = Cardinality(At)
    BY <2>1
  <2> HIDE DEF At, Then
  <2> QED
    BY <1>2, <1>3, <1>5, <2>2
<1> QED
  BY <1>4, <1>5

(* Handling the first message takes it off its count.                      *)
LEMMA CountTail ==
    ASSUME NEW S, NEW s \in Seq(S), s # <<>>, NEW i
    PROVE  Count(s, i) = Count(Tail(s), i) + (IF Head(s) = i THEN 1 ELSE 0)
<1> DEFINE t == Tail(s)
           n == Len(t)
           At == {k \in 1..Len(t) : t[k] = i}
           Later == {k \in 2..Len(s) : s[k] = i}
           Before == {k \in 1..Len(s) : s[k] = i}
<1>1. /\ t \in Seq(S) /\ n \in Nat /\ Len(s) = n + 1
      /\ \A k \in 1..n : t[k] = s[k + 1]
      /\ Head(s) = s[1]
  OBVIOUS
<1>2. IsFiniteSet(At) /\ Count(t, i) = Cardinality(At) /\ Count(t, i) \in Nat
  BY <1>1, CountType DEF Count
<1>3. Count(s, i) = Cardinality(Before)
  BY DEF Count
<1> SUFFICES Count(s, i) = Count(t, i) + (IF Head(s) = i THEN 1 ELSE 0)
  OBVIOUS
<1> HIDE DEF t
<1>4. IsFiniteSet(Later) /\ Cardinality(Later) = Cardinality(At)
  <2> DEFINE f == [k \in At |-> k + 1]
  <2>1. f \in [At -> Later]
    BY <1>1
  <2>2. \A j, k \in At : f[j] = f[k] => j = k
    BY <1>1
  <2>3. \A k \in Later : \E j \in At : f[j] = k
    <3>1. \A k \in Later : k - 1 \in At /\ f[k - 1] = k
      BY <1>1
    <3> QED
      BY <3>1
  <2> HIDE DEF f, At, Later
  <2>4. f \in Bijection(At, Later)
    BY <2>1, <2>2, <2>3, Fun_IsBij
  <2>5. ExistsBijection(At, Later)
    BY <2>4 DEF ExistsBijection
  <2> QED
    BY <1>2, <2>5, FS_Bijection
<1>5. CASE Head(s) = i
  <2>1. Before = Later \cup {1} /\ 1 \notin Later
    BY <1>1, <1>5
  <2>2. Cardinality(Before) = Cardinality(Later) + 1
    BY <1>4, <2>1, FS_AddElement
  <2> QED
    BY <1>2, <1>3, <1>4, <1>5, <2>2
<1>6. CASE Head(s) # i
  <2>1. Before = Later
    BY <1>1, <1>6
  <2>2. Cardinality(Before) = Cardinality(Later)
    BY <2>1
  <2> QED
    BY <1>2, <1>3, <1>4, <1>6, <2>2
<1> QED
  BY <1>5, <1>6

-----------------------------------------------------------------------------
(* Each part of the invariant, step by step.                               *)

(* The count of the messages for an id.                                    *)
LEMMA InFlightType ==
    ASSUME TypeOK, NEW i
    PROVE  InFlight(i) \in Nat
<1>1. inbox \in Seq(Id \cup {Error})
  BY DEF TypeOK
<1> QED
  BY <1>1, CountType DEF InFlight

(* Every step keeps the types; that no more frames are read than were      *)
(* asked for is NoFrameLost's.                                             *)
LEMMA TypeStep ==
    ASSUME TypeOK, NoFrameLost, [Next]_vars
    PROVE  TypeOK'
<1> USE DEF TypeOK, routeVars, callVars, actorVars, workerVars
<1>0. \A i \in Id : MaxFrames[i] \in Nat /\ MaxFrames[i] > 0
  BY FramesAssumption
<1>a. 0 \in Id
  BY MaxIdAssumption DEF Id
<1>1. ASSUME NEW i \in Id, Begin(i)
      PROVE  TypeOK'
  <2>1. /\ routes' \in {routes, routes \cup {i}}
        /\ \E x \in {"posting", "ended"} : pc' = [pc EXCEPT ![i] = x]
        /\ UNCHANGED <<dead, frames, failed, wake, want, at, on, toFail, ready, inbox,
                       owed, up>>
    BY <1>1 DEF Begin
  <2>2. routes' \subseteq Id
    BY <2>1
  <2>3. pc' \in [Id -> {"idle", "posting", "check", "select", "asleep", "got",
                       "failed", "gone", "ended"}]
    BY <2>1
  <2> QED
    BY <2>1, <2>2, <2>3
<1>2. ASSUME NEW i \in Id, Post(i)
      PROVE  TypeOK'
  BY <1>0, <1>2 DEF Post
<1>3. ASSUME NEW i \in Id, Check(i)
      PROVE  TypeOK'
  <2>1. InFlight(i) \in Nat
    BY InFlightType
  <2>2. frames[i] > 0 => want[i] > 0
    <3>1. /\ Pushing(i) \in Nat /\ owed[i] \in Nat /\ frames[i] \in Nat
          /\ want[i] \in Nat
      BY DEF Pushing
    <3>2. Unread(i) <= want[i]
      BY <1>3 DEF Check, NoFrameLost
    <3> QED
      BY <2>1, <3>1, <3>2 DEF Unread
  <2>3. CASE HasFrame(i)
    <3>1. /\ frames[i] - 1 \in Nat /\ want[i] - 1 \in Nat
          /\ want[i] - 1 <= MaxFrames[i]
      BY <1>0, <2>2, <2>3 DEF HasFrame
    <3>2. /\ frames' = [frames EXCEPT ![i] = @ - 1]
          /\ want' = [want EXCEPT ![i] = @ - 1]
          /\ pc' = [pc EXCEPT ![i] = "got"]
          /\ UNCHANGED <<routes, dead, failed, wake, actorVars, ready, workerVars>>
      BY <1>3, <2>3 DEF Check
    <3> QED
      BY <3>1, <3>2
  <2>4. CASE ~ HasFrame(i)
    BY <1>3, <2>4 DEF Check
  <2> QED
    BY <2>3, <2>4
<1>4. ASSUME NEW i \in Id, Sleep(i) \/ WakeUp(i) \/ GiveUp(i) \/ Again(i)
      PROVE  TypeOK'
  <2>1. CASE Sleep(i)
    BY <1>4, <2>1 DEF Sleep
  <2>2. CASE WakeUp(i)
    BY <1>4, <2>2 DEF WakeUp
  <2>3. CASE GiveUp(i)
    BY <1>4, <2>3 DEF GiveUp
  <2>4. CASE Again(i)
    BY <1>4, <2>4 DEF Again
  <2> QED
    BY <1>4, <2>1, <2>2, <2>3, <2>4
<1>5. ASSUME NEW i \in Id, End(i)
      PROVE  TypeOK'
  BY <1>0, <1>a, <1>5 DEF End, Over
<1>6. CASE SpawnDone
  BY <1>0, <1>a, <1>6 DEF SpawnDone, Over
<1>7. CASE Receive
  <2>1. Tail(inbox) \in Seq(Id \cup {Error})
    BY <1>7 DEF Receive
  <2> QED
    BY <1>7, <2>1 DEF Receive, Actor
<1>8. CASE Push
  BY <1>8 DEF Push, Added, Actor
<1>9. ASSUME NEW a \in Actor, Die(a), inbox' \in Seq(Id \cup {Error})
      PROVE  TypeOK'
  BY <1>9 DEF Die
<1>10. CASE ReceiveError
  <2>1. Tail(inbox) \in Seq(Id \cup {Error})
    BY <1>10 DEF ReceiveError
  <2> QED
    BY <1>9, <1>10, <2>1 DEF ReceiveError, Actor
<1>11. CASE Close
  BY <1>9, <1>11 DEF Close, Actor
<1>12. ASSUME NEW a \in Actor, NEW i \in Id, Fail(a, i)
       PROVE  TypeOK'
  BY <1>12 DEF Fail
<1>13. ASSUME NEW a \in Actor, Signal(a)
       PROVE  TypeOK'
  BY <1>a, <1>13 DEF Signal, Token
<1>14. ASSUME NEW a \in Actor, DieDone(a)
       PROVE  TypeOK'
  <2>1. CASE a = "closer"
    <3>1. inbox' \in Seq(Id \cup {Error})
      BY <1>14, <2>1 DEF DieDone
    <3>2. /\ owed' \in [Id -> Nat]
          /\ \A i \in Id : owed'[i] <= MaxFrames[i]
      BY <1>0, <1>14, <2>1 DEF DieDone
    <3> QED
      BY <1>14, <2>1, <3>1, <3>2 DEF DieDone
  <2>2. CASE a # "closer"
    BY <1>14, <2>2 DEF DieDone
  <2> QED
    BY <2>1, <2>2
<1>15. ASSUME NEW i \in Id, Reply(i)
       PROVE  TypeOK'
  <2>1. Append(inbox, i) \in Seq(Id \cup {Error})
    OBVIOUS
  <2> QED
    BY <1>0, <1>15, <2>1 DEF Reply
<1>16. CASE WorkerFails
  <2>1. Append(inbox, Error) \in Seq(Id \cup {Error})
    OBVIOUS
  <2> QED
    BY <1>16, <2>1 DEF WorkerFails
<1>17. CASE UNCHANGED vars
  BY <1>17 DEF vars
<1> QED
  BY <1>1, <1>2, <1>3, <1>4, <1>5, <1>6, <1>7, <1>8, <1>10, <1>11, <1>12, <1>13,
     <1>14, <1>15, <1>16, <1>17 DEF Next, Callback, Actors, Wait

(* The routes: begin adds one while the worker lives, die takes them all.  *)
LEMMA RouteStep ==
    ASSUME TypeOK, RouteInv, [Next]_vars
    PROVE  RouteInv'
<1> USE DEF TypeOK, RouteInv, Waits, Failing, routeVars, callVars, actorVars, workerVars
<1>1. ASSUME NEW i \in Id, Begin(i)
      PROVE  RouteInv'
  BY <1>1 DEF Begin, Refused
<1>2. ASSUME NEW i \in Id, Post(i) \/ Check(i) \/ Sleep(i) \/ WakeUp(i) \/ GiveUp(i)
                            \/ Again(i)
      PROVE  RouteInv'
  BY <1>2 DEF Post, Check, Sleep, WakeUp, GiveUp, Again
<1>3. ASSUME NEW i \in Id, Over(i)
      PROVE  RouteInv'
  BY <1>3 DEF Over
<1>4. ASSUME NEW i \in Id, Reply(i) \/ WorkerFails
      PROVE  RouteInv'
  BY <1>4 DEF Reply, WorkerFails
<1>5. CASE Push
  BY <1>5 DEF Push, Actor
<1>12. CASE Receive
  BY <1>12 DEF Receive, Actor
<1>6. ASSUME NEW a \in Actor, Die(a)
      PROVE  RouteInv'
  BY <1>6 DEF Die
<1>7. ASSUME NEW a \in Actor, NEW i \in Id, Fail(a, i)
      PROVE  RouteInv'
  BY <1>7 DEF Fail
<1>8. ASSUME NEW a \in Actor, Signal(a)
      PROVE  RouteInv'
  BY <1>8 DEF Signal
<1>11. ASSUME NEW a \in Actor, DieDone(a)
       PROVE  RouteInv'
  <2>1. dead
    BY <1>11 DEF DieDone
  <2>2. \A b \in Actor : IF Failing(b)' THEN dead' ELSE toFail'[b] = {}
    BY <1>11, <2>1 DEF DieDone
  <2>3. UNCHANGED <<dead, routes>>
    BY <1>11 DEF DieDone
  <2> QED
    BY <2>1, <2>2, <2>3
<1>9. CASE UNCHANGED vars
  BY <1>9 DEF vars
<1>10. 0 \in Id /\ "loop" \in Actor /\ "closer" \in Actor
  BY MaxIdAssumption DEF Id, Actor
<1> QED
  BY <1>1, <1>2, <1>3, <1>4, <1>5, <1>6, <1>7, <1>8, <1>9, <1>10,
     <1>11, <1>12
  DEF Next, Callback, Actors, Wait, End, SpawnDone, Close, ReceiveError
(* A caller sleeps only on an empty route, and whoever fills or fails the  *)
(* route goes on to signal.                                                *)
LEMMA WakeupStep ==
    ASSUME TypeOK, NoLostWakeup, [Next]_vars
    PROVE  NoLostWakeup'
<1> USE DEF TypeOK, NoLostWakeup, routeVars, callVars, actorVars, workerVars
<1>1. ASSUME NEW i \in Id, Begin(i) \/ Post(i) \/ Reply(i) \/ WorkerFails
      PROVE  NoLostWakeup'
  BY <1>1 DEF Begin, Post, Reply, WorkerFails
<1>2. ASSUME NEW i \in Id, Check(i)
      PROVE  NoLostWakeup'
  <2>1. CASE HasFrame(i)
    BY <1>2, <2>1, SMTT(20) DEF Check
  <2>2. CASE ~ HasFrame(i)
    BY <1>2, <2>2 DEF Check, HasFrame
  <2> QED
    BY <2>1, <2>2
<1>3. ASSUME NEW i \in Id, Sleep(i)
      PROVE  NoLostWakeup'
  BY <1>3 DEF Sleep
<1>13. ASSUME NEW i \in Id, WakeUp(i)
       PROVE  NoLostWakeup'
  BY <1>13 DEF WakeUp
<1>14. ASSUME NEW i \in Id, GiveUp(i)
       PROVE  NoLostWakeup'
  BY <1>14 DEF GiveUp
<1>15. ASSUME NEW i \in Id, Again(i)
       PROVE  NoLostWakeup'
  BY <1>15 DEF Again
<1>4. ASSUME NEW i \in Id, Over(i)
      PROVE  NoLostWakeup'
  BY <1>4 DEF Over
<1>5. CASE Receive
  <2>1. UNCHANGED <<pc, frames, failed, wake>> /\ at["loop"] = "idle"
    BY <1>5 DEF Receive
  <2>2. \A a \in Actor : a # "loop" => at'[a] = at[a] /\ on'[a] = on[a]
    BY <1>5 DEF Receive
  <2>3. \A a \in Actor : at[a] \in {"signal", "failSignal"}
                         => at'[a] = at[a] /\ on'[a] = on[a]
    BY <2>1, <2>2
  <2> HIDE DEF TypeOK
  <2> QED
    BY <2>1, <2>3
<1>6. CASE Push
  BY <1>6 DEF Push, Actor
<1>7. ASSUME NEW a \in Actor, Die(a), at[a] = "idle"
      PROVE  NoLostWakeup'
  BY <1>7 DEF Die
<1>8. ASSUME NEW a \in Actor, NEW i \in Id, Fail(a, i)
      PROVE  NoLostWakeup'
  <2>1. /\ at[a] = "failing" /\ at'[a] = "failSignal" /\ on'[a] = i
        /\ \A b \in Actor \ {a} : at'[b] = at[b] /\ on'[b] = on[b]
        /\ failed' = [failed EXCEPT ![i] = TRUE]
        /\ UNCHANGED <<frames, wake, pc>>
    BY <1>8 DEF Fail
  <2>2. \A j \in Id : j # i => failed'[j] = failed[j]
    BY <2>1
  <2>3. \A b \in Actor : at[b] \in {"signal", "failSignal"}
                         => at'[b] = at[b] /\ on'[b] = on[b]
    BY <2>1
  <2> HIDE DEF TypeOK
  <2> QED
    BY <2>1, <2>2, <2>3
<1>9. ASSUME NEW a \in Actor, Signal(a)
      PROVE  NoLostWakeup'
  BY <1>9 DEF Signal, Token
<1>10. ASSUME NEW a \in Actor, DieDone(a)
       PROVE  NoLostWakeup'
  BY <1>10 DEF DieDone
<1>11. CASE UNCHANGED vars
  BY <1>11 DEF vars
<1>12. 0 \in Id /\ "loop" \in Actor /\ "closer" \in Actor
  BY MaxIdAssumption DEF Id, Actor
<1> QED
  BY <1>1, <1>2, <1>3, <1>4, <1>5, <1>6, <1>7, <1>8, <1>9, <1>10, <1>11, <1>12,
     <1>13, <1>14, <1>15
  DEF Next, Callback, Actors, Wait, End, SpawnDone, Close, ReceiveError

(* Until the worker dies a caller that waits has its route, so die finds   *)
(* it; afterwards nobody begins.                                           *)
LEMMA DeadStep ==
    ASSUME TypeOK, RouteInv, DeadFailsAll, [Next]_vars
    PROVE  DeadFailsAll'
<1> USE DEF TypeOK, RouteInv, DeadFailsAll, Waits, Failing, routeVars, callVars,
        actorVars, workerVars
<1>1. ASSUME NEW i \in Id, Begin(i)
      PROVE  DeadFailsAll'
  BY <1>1 DEF Begin, Refused
<1>2. ASSUME NEW i \in Id, Post(i) \/ Sleep(i) \/ WakeUp(i) \/ GiveUp(i)
      PROVE  DeadFailsAll'
  BY <1>2 DEF Post, Sleep, WakeUp, GiveUp
<1>3. ASSUME NEW i \in Id, Check(i)
      PROVE  DeadFailsAll'
  BY <1>3 DEF Check
<1>4. ASSUME NEW i \in Id, Again(i)
      PROVE  DeadFailsAll'
  BY <1>4 DEF Again
<1>5. ASSUME NEW i \in Id, Over(i)
      PROVE  DeadFailsAll'
  BY <1>5 DEF Over
<1>6. ASSUME NEW i \in Id, Reply(i) \/ WorkerFails
      PROVE  DeadFailsAll'
  BY <1>6 DEF Reply, WorkerFails
<1>7. CASE Receive
  BY <1>7 DEF Receive
<1>8. CASE Push
  BY <1>8 DEF Push
<1>9. ASSUME NEW a \in Actor, Die(a), at[a] = "idle"
      PROVE  DeadFailsAll'
  BY <1>9 DEF Die
<1>10. ASSUME NEW a \in Actor, NEW i \in Id, Fail(a, i)
       PROVE  DeadFailsAll'
  BY <1>10 DEF Fail
<1>11. ASSUME NEW a \in Actor, Signal(a)
       PROVE  DeadFailsAll'
  BY <1>11 DEF Signal
<1>12. ASSUME NEW a \in Actor, DieDone(a)
       PROVE  DeadFailsAll'
  <2>1. UNCHANGED <<dead, pc, failed, toFail>>
    BY <1>12 DEF DieDone
  <2> QED
    BY <2>1
<1>13. CASE UNCHANGED vars
  BY <1>13 DEF vars
<1>14. 0 \in Id /\ "loop" \in Actor /\ "closer" \in Actor
  BY MaxIdAssumption DEF Id, Actor
<1> QED
  BY <1>1, <1>2, <1>3, <1>4, <1>5, <1>6, <1>7, <1>8, <1>9, <1>10, <1>11, <1>12,
     <1>13, <1>14
  DEF Next, Callback, Actors, Wait, End, SpawnDone, Close, ReceiveError

-----------------------------------------------------------------------------
(* The account of one request's frames.                                    *)

Fresh(i) == pc[i] \in {"idle", "posting"}
Awaits(i) == pc[i] \in {"check", "select", "asleep", "got"}

Account(i) ==
    /\ Fresh(i) => Unread(i) = 0
    /\ Awaits(i) => Unread(i) <= want[i] /\ (~dead => Unread(i) = want[i])

(* The terms of the account are natural numbers.                           *)
LEMMA UnreadType ==
    ASSUME TypeOK, NEW i \in Id
    PROVE  /\ owed[i] \in Nat /\ InFlight(i) \in Nat /\ frames[i] \in Nat
           /\ Pushing(i) \in Nat /\ want[i] \in Nat /\ Unread(i) \in Nat
<1>1. InFlight(i) \in Nat
  BY InFlightType
<1>2. /\ owed[i] \in Nat /\ frames[i] \in Nat /\ want[i] \in Nat
      /\ Pushing(i) \in Nat
  BY DEF TypeOK, Pushing
<1> QED
  BY <1>1, <1>2 DEF Unread

(* A step that moves none of the request's frames, and neither posts nor   *)
(* hands out anything for it, keeps its account.                           *)
LEMMA AccountKept ==
    ASSUME NEW i \in Id, Account(i),
           UNCHANGED <<owed[i], InFlight(i), frames[i], Pushing(i), want[i]>>,
           Fresh(i)' => Fresh(i), Awaits(i)' => Awaits(i), dead => dead'
    PROVE  Account(i)'
<1>1. UNCHANGED <<Unread(i), want[i]>>
  BY DEF Unread
<1> QED
  BY <1>1 DEF Account

(* The callers: only Post and Check change the account, by what they say.  *)
LEMMA CallerAccount ==
    ASSUME TypeOK, RouteInv, NEW i \in Id, Account(i), NEW j \in Id,
           \/ Begin(j) \/ Post(j) \/ Wait(j) \/ GiveUp(j) \/ Again(j) \/ Over(j)
    PROVE  Account(i)'
<1>0. /\ owed[i] \in Nat /\ InFlight(i) \in Nat /\ frames[i] \in Nat
      /\ Pushing(i) \in Nat /\ want[i] \in Nat /\ Unread(i) \in Nat
  BY UnreadType
<1> USE DEF TypeOK, routeVars, callVars, actorVars, workerVars
<1>1. UNCHANGED <<InFlight(i), Pushing(i), dead>>
  BY DEF Begin, Post, Wait, Check, Sleep, WakeUp, GiveUp, Again, Over, InFlight, Pushing
<1>2. CASE Begin(j) \/ Sleep(j) \/ WakeUp(j) \/ GiveUp(j) \/ Again(j)
  <2>1. UNCHANGED <<owed, frames, want>>
    BY <1>2 DEF Begin, Sleep, WakeUp, GiveUp, Again
  <2>2. (Fresh(i)' => Fresh(i)) /\ (Awaits(i)' => Awaits(i))
    BY <1>2 DEF Begin, Sleep, WakeUp, GiveUp, Again, Fresh, Awaits
  <2> QED
    BY <1>1, <2>1, <2>2, AccountKept
<1>3. CASE Post(j)
  <2>1. CASE i # j
    <3>1. UNCHANGED <<owed[i], frames[i], want[i], pc[i]>>
      BY <1>3, <2>1 DEF Post
    <3> QED
      BY <1>1, <3>1, AccountKept DEF Fresh, Awaits
  <2>2. CASE i = j
    <3>1. Unread(i) = 0
      BY <1>3, <2>2 DEF Post, Account, Fresh
    <3>2. InFlight(i) = 0 /\ frames[i] = 0 /\ Pushing(i) = 0
      BY <3>1, <1>0 DEF Unread
    <3>3. /\ frames'[i] = frames[i] /\ want'[i] = MaxFrames[i] /\ pc'[i] = "check"
          /\ owed'[i] = IF up THEN MaxFrames[i] ELSE 0
      BY <1>3, <2>2 DEF Post
    <3>4. MaxFrames[i] \in Nat
      BY FramesAssumption
    <3>5. Unread(i)' = owed'[i]
      BY <1>1, <3>2, <3>3, <3>4 DEF Unread
    <3>6. ~ up => dead'
      BY <1>1 DEF RouteInv
    <3> QED
      BY <3>3, <3>4, <3>5, <3>6 DEF Account, Fresh
  <2> QED
    BY <2>1, <2>2
<1>4. CASE Check(j)
  <2>1. UNCHANGED owed
    BY <1>4 DEF Check
  <2>2. CASE i # j \/ ~ HasFrame(j)
    <3>1. UNCHANGED <<frames[i], want[i]>>
      BY <1>4, <2>2 DEF Check
    <3>2. (Fresh(i)' => Fresh(i)) /\ (Awaits(i)' => Awaits(i))
      BY <1>4, <2>2 DEF Check, Fresh, Awaits
    <3> QED
      BY <1>1, <2>1, <3>1, <3>2, AccountKept
  <2>3. CASE i = j /\ HasFrame(j)
    <3>1. /\ frames'[i] = frames[i] - 1 /\ want'[i] = want[i] - 1 /\ pc'[i] = "got"
          /\ Awaits(i)
      BY <1>4, <2>3 DEF Check, Awaits
    <3>2. Unread(i)' = Unread(i) - 1
      <4>1. owed'[i] = owed[i]
        BY <2>1
      <4> HIDE DEF TypeOK
      <4> QED
        BY <1>1, <3>1, <4>1, <1>0 DEF Unread
    <3>3. Unread(i) \in Nat /\ want[i] \in Nat
      BY <1>0
    <3> QED
      BY <1>1, <3>1, <3>2, <3>3 DEF Account, Fresh
  <2> QED
    BY <2>2, <2>3
<1>5. CASE Over(j)
  <2>1. CASE i # j
    <3>1. UNCHANGED <<owed[i], frames[i], want[i], pc[i]>>
      BY <1>5, <2>1 DEF Over
    <3> QED
      BY <1>1, <3>1, AccountKept DEF Fresh, Awaits
  <2>2. CASE i = j
    <3>1. pc'[i] = "ended"
      BY <1>5, <2>2 DEF Over
    <3> QED
      BY <3>1 DEF Account, Fresh, Awaits
  <2> QED
    BY <2>1, <2>2
<1> QED
  BY <1>2, <1>3, <1>4, <1>5 DEF Wait

(* The messages: a frame is owed, then in flight, then about to be pushed. *)
LEMMA MessageAccount ==
    ASSUME TypeOK, RouteInv, NEW i \in Id, Account(i),
           WorkerFails \/ Receive \/ \E j \in Id : Reply(j)
    PROVE  Account(i)'
<1>0. /\ owed[i] \in Nat /\ InFlight(i) \in Nat /\ frames[i] \in Nat
      /\ Pushing(i) \in Nat /\ want[i] \in Nat /\ Unread(i) \in Nat
  BY UnreadType
<1> USE DEF TypeOK, routeVars, callVars, actorVars, workerVars
<1>1. /\ inbox \in Seq(Id \cup {Error}) /\ i # Error
      /\ Error \in Id \cup {Error} /\ \A j \in Id : j \in Id \cup {Error}
  BY MaxIdAssumption DEF Id, Error
<1>2. CASE WorkerFails
  <2>1. inbox' = Append(inbox, Error)
    BY <1>2 DEF WorkerFails
  <2>2. Count(inbox', i) = Count(inbox, i) + (IF Error = i THEN 1 ELSE 0)
    <3> DEFINE M == Id \cup {Error}
    <3>1. /\ inbox \in Seq(M) /\ inbox' \in Seq(M)
          /\ Len(inbox') = Len(inbox) + 1 /\ inbox'[Len(inbox) + 1] = Error
          /\ \A k \in 1..Len(inbox) : inbox'[k] = inbox[k]
      BY <1>1, <2>1
    <3> HIDE DEF M, TypeOK
    <3> QED
      BY <3>1, CountAppend
  <2>3. InFlight(i)' = InFlight(i)
    BY <1>1, <2>2, <1>0 DEF InFlight
  <2>4. UNCHANGED <<owed, frames, want, pc, dead, Pushing(i)>>
    BY <1>2 DEF WorkerFails, Pushing
  <2> QED
    BY <2>3, <2>4, AccountKept DEF Fresh, Awaits
<1>3. ASSUME NEW j \in Id, Reply(j)
      PROVE  Account(i)'
  <2>1. inbox' = Append(inbox, j) /\ owed' = [owed EXCEPT ![j] = @ - 1]
    BY <1>3 DEF Reply
  <2>2. Count(inbox', i) = Count(inbox, i) + (IF j = i THEN 1 ELSE 0)
    <3> DEFINE M == Id \cup {Error}
    <3>1. /\ inbox \in Seq(M) /\ inbox' \in Seq(M)
          /\ Len(inbox') = Len(inbox) + 1 /\ inbox'[Len(inbox) + 1] = j
          /\ \A k \in 1..Len(inbox) : inbox'[k] = inbox[k]
      BY <1>1, <2>1
    <3> HIDE DEF M, TypeOK
    <3> QED
      BY <3>1, CountAppend
  <2>3. owed'[i] + InFlight(i)' = owed[i] + InFlight(i)
    BY <2>1, <2>2, <1>0 DEF InFlight
  <2>4. UNCHANGED <<frames, want, pc, dead, Pushing(i)>>
    BY <1>3 DEF Reply, Pushing
  <2>5. Unread(i)' = Unread(i)
    BY <2>3, <2>4 DEF Unread
  <2> QED
    BY <2>4, <2>5 DEF Account, Fresh, Awaits
<1>4. CASE Receive
  <2>1. /\ inbox # <<>> /\ inbox' = Tail(inbox) /\ at["loop"] = "idle"
        /\ UNCHANGED <<owed, frames, want, pc, dead>>
    BY <1>4 DEF Receive
  <2>2. Count(inbox, i) = Count(inbox', i) + (IF Head(inbox) = i THEN 1 ELSE 0)
    BY <1>1, <2>1, CountTail
  <2>3. Tail(inbox) \in Seq(Id \cup {Error})
    BY <1>1, <2>1
  <2>4. Count(inbox', i) \in Nat
    BY <2>1, <2>3, CountType
  <2>5. Pushing(i) = 0
    BY <2>1 DEF Pushing
  <2>6. CASE Head(inbox) \in routes
    <3>1. Pushing(i)' = IF Head(inbox) = i THEN 1 ELSE 0
      BY <1>4, <2>6 DEF Receive, Pushing, Actor
    <3>2. InFlight(i)' + Pushing(i)' = InFlight(i) + Pushing(i)
      BY <2>2, <2>4, <2>5, <3>1 DEF InFlight
    <3>3. Unread(i)' = Unread(i)
      <4>1. InFlight(i)' \in Nat /\ Pushing(i)' \in Nat
        BY <2>4, <3>1 DEF InFlight
      <4>2. owed'[i] = owed[i] /\ frames'[i] = frames[i]
        BY <2>1
      <4> HIDE DEF TypeOK
      <4> QED
        BY <3>2, <4>1, <4>2, <1>0 DEF Unread
    <3> QED
      BY <2>1, <3>3 DEF Account, Fresh, Awaits
  <2>7. CASE Head(inbox) \notin routes
    <3>1. Pushing(i)' = 0
      BY <1>4, <2>5, <2>7 DEF Receive, Pushing
    <3>2. CASE Head(inbox) # i
      <4>1. InFlight(i)' = InFlight(i)
        BY <2>2, <2>4, <3>2 DEF InFlight
      <4> QED
        BY <2>1, <2>5, <3>1, <4>1, AccountKept DEF Fresh, Awaits
    <3>3. CASE Head(inbox) = i
      <4>1. InFlight(i) = InFlight(i)' + 1 /\ InFlight(i)' \in Nat
        BY <2>2, <2>4, <3>3 DEF InFlight
      <4>5. owed'[i] = owed[i] /\ frames'[i] = frames[i]
        BY <2>1
      <4>2. Unread(i) = Unread(i)' + 1 /\ Unread(i)' \in Nat
        <5> HIDE DEF TypeOK
        <5> QED
          BY <2>5, <3>1, <4>1, <4>5, <1>0 DEF Unread
      <4>3. ~ Fresh(i)
        BY <4>2 DEF Account
      <4>4. Awaits(i) => dead
        BY <2>7, <3>3 DEF RouteInv, Awaits, Waits
      <4> QED
        BY <2>1, <4>2, <4>3, <4>4, <1>0 DEF Account, Fresh, Awaits
    <3> QED
      BY <3>2, <3>3
  <2> QED
    BY <2>6, <2>7
<1> QED
  BY <1>2, <1>3, <1>4

(* The actors: push lands the frame; dying only ends the equality.         *)
LEMMA ActorAccount ==
    ASSUME TypeOK, RouteInv, NEW i \in Id, Account(i),
           \/ Push \/ Close \/ ReceiveError
           \/ \E a \in Actor : Actors(a)
    PROVE  Account(i)'
<1>0. /\ owed[i] \in Nat /\ InFlight(i) \in Nat /\ frames[i] \in Nat
      /\ Pushing(i) \in Nat /\ want[i] \in Nat /\ Unread(i) \in Nat
  BY UnreadType
<1> USE DEF TypeOK, routeVars, callVars, actorVars, workerVars
<1>1. inbox \in Seq(Id \cup {Error})
  OBVIOUS
<1>2. CASE Push
  <2>1. /\ at["loop"] = "push" /\ at'["loop"] = "signal"
        /\ frames' = [frames EXCEPT ![on["loop"]] = @ + 1]
        /\ UNCHANGED <<owed, want, pc, dead, inbox>>
    BY <1>2 DEF Push, Added, Actor
  <2>2. frames'[i] + Pushing(i)' = frames[i] + Pushing(i)
    BY <2>1 DEF Pushing
  <2>3. Unread(i)' = Unread(i)
    <3>1. InFlight(i)' = InFlight(i) /\ owed'[i] = owed[i]
      BY <2>1 DEF InFlight
    <3>2. frames'[i] \in Nat /\ Pushing(i)' \in Nat
      BY <2>1 DEF Pushing
    <3> HIDE DEF TypeOK
    <3> QED
      BY <2>2, <3>1, <3>2, <1>0 DEF Unread
  <2> QED
    BY <2>1, <2>3 DEF Account, Fresh, Awaits
<1>3. CASE Close
  <2>1. UNCHANGED <<owed, frames, want, pc, inbox, on, at["loop"]>> /\ dead'
    BY <1>3 DEF Close, Die
  <2> QED
    BY <2>1, AccountKept DEF Fresh, Awaits, InFlight, Pushing
<1>4. CASE ReceiveError
  <2>1. /\ UNCHANGED <<owed, frames, want, pc, on>> /\ dead'
        /\ inbox # <<>> /\ inbox' = Tail(inbox) /\ Head(inbox) # i
        /\ at["loop"] = "idle" /\ at'["loop"] = "failing"
    BY <1>4 DEF ReceiveError, Die, Actor
  <2>2. Count(inbox, i) = Count(inbox', i) + (IF Head(inbox) = i THEN 1 ELSE 0)
    BY <1>1, <2>1, CountTail
  <2>3. Tail(inbox) \in Seq(Id \cup {Error})
    BY <1>1, <2>1
  <2>4. Count(inbox', i) \in Nat
    BY <2>1, <2>3, CountType
  <2>5. InFlight(i)' = InFlight(i)
    BY <2>1, <2>2, <2>4 DEF InFlight
  <2> QED
    BY <2>1, <2>5, AccountKept DEF Fresh, Awaits, Pushing
<1>5. ASSUME NEW a \in Actor, Signal(a) \/ \E j \in Id : Fail(a, j)
      PROVE  Account(i)'
  <2>1. UNCHANGED <<owed, frames, want, pc, dead, inbox>>
    BY <1>5 DEF Signal, Fail
  <2>2. Pushing(i)' = Pushing(i)
    BY <1>5 DEF Signal, Fail, Pushing, Actor
  <2> QED
    BY <2>1, <2>2, AccountKept DEF Fresh, Awaits, InFlight
<1>6. ASSUME NEW a \in Actor, DieDone(a)
      PROVE  Account(i)'
  <2>1. UNCHANGED <<frames, want, pc, dead, on>>
    BY <1>6 DEF DieDone
  <2>2. Pushing(i)' = Pushing(i)
    BY <1>6 DEF DieDone, Pushing
  <2>3. CASE a # "closer"
    <3>1. UNCHANGED <<owed, inbox>>
      BY <1>6, <2>3 DEF DieDone
    <3> QED
      BY <2>1, <2>2, <3>1, AccountKept DEF Fresh, Awaits, InFlight
  <2>4. CASE a = "closer"
    <3>1. inbox' = <<>> /\ owed'[i] = 0
      BY <1>6, <2>4 DEF DieDone
    <3>2. InFlight(i)' = 0
      BY <3>1, CountEmpty DEF InFlight
    <3>3. Unread(i)' = frames[i] + Pushing(i)
      BY <2>1, <2>2, <3>1, <3>2, <1>0 DEF Unread
    <3>4. Unread(i)' \in Nat /\ Unread(i)' <= Unread(i)
      <4> HIDE DEF TypeOK
      <4>1. Unread(i) = owed[i] + InFlight(i) + frames[i] + Pushing(i)
        BY DEF Unread
      <4> QED
        BY <3>3, <4>1, <1>0
    <3>5. dead
      BY <1>6 DEF DieDone, RouteInv, Failing
    <3> QED
      BY <2>1, <3>4, <3>5, <1>0 DEF Account, Fresh, Awaits
  <2> QED
    BY <2>3, <2>4
<1> QED
  BY <1>2, <1>3, <1>4, <1>5, <1>6 DEF Actors

(* Every step keeps every account.                                         *)
LEMMA FrameStep ==
    ASSUME TypeOK, RouteInv, FreshInv, NoFrameLost, [Next]_vars
    PROVE  FreshInv' /\ NoFrameLost'
<1>1. SUFFICES ASSUME NEW i \in Id PROVE Account(i)'
  BY <1>1 DEF Account, Fresh, Awaits, FreshInv, NoFrameLost
<1>2. Account(i)
  BY DEF Account, Fresh, Awaits, FreshInv, NoFrameLost
<1>3. CASE UNCHANGED vars
  <2>1. UNCHANGED <<owed, frames, want, pc, dead, inbox, at, on>>
    BY <1>3 DEF vars, routeVars, callVars, actorVars, workerVars
  <2> QED
    BY <1>2, <2>1, AccountKept DEF Fresh, Awaits, InFlight, Pushing
<1>4. 0 \in Id
  BY MaxIdAssumption DEF Id
<1> QED
  BY <1>2, <1>3, <1>4, CallerAccount, MessageAccount, ActorAccount
  DEF Next, Callback, End, SpawnDone

-----------------------------------------------------------------------------
(* The theorems.                                                           *)

(* The invariant holds when Spawn has created the worker.                  *)
LEMMA TransportInit == Init => TransportIInv
<1> SUFFICES ASSUME Init PROVE TransportIInv
  OBVIOUS
<1>1. 0 \in Id /\ \A i \in Id : MaxFrames[i] \in Nat /\ MaxFrames[i] >= 1
  BY MaxIdAssumption, FramesAssumption DEF Id
<1>2. TypeOK
  <2>1. <<>> \in Seq(Id \cup {Error})
    OBVIOUS
  <2>2. /\ want \in [Id -> Nat] /\ owed \in [Id -> Nat]
        /\ \A i \in Id : want[i] <= MaxFrames[i] /\ owed[i] <= MaxFrames[i]
    BY <1>1 DEF Init
  <2>3. /\ pc \in [Id -> {"idle", "posting", "check", "select", "asleep", "got",
                          "failed", "gone", "ended"}]
        /\ frames \in [Id -> Nat] /\ failed \in [Id -> BOOLEAN]
        /\ wake \in [Id -> BOOLEAN] /\ routes \subseteq Id
    BY <1>1 DEF Init
  <2>4. /\ at \in [Actor -> {"idle", "push", "signal", "failing", "failSignal", "closed"}]
        /\ on \in [Actor -> Id] /\ toFail \in [Actor -> SUBSET Id]
    BY <1>1 DEF Init
  <2> QED
    BY <2>1, <2>2, <2>3, <2>4 DEF Init, TypeOK
<1>3. RouteInv /\ NoLostWakeup /\ DeadFailsAll
  BY <1>1 DEF Init, RouteInv, NoLostWakeup, DeadFailsAll, Waits, Failing
<1>4. \A i \in Id : Unread(i) = IF i = 0 THEN 1 ELSE 0
  <2>1. \A i \in Id : InFlight(i) = 0
    BY CountEmpty DEF Init, InFlight
  <2> QED
    BY <2>1 DEF Init, Unread, Pushing, Actor
<1>5. FreshInv /\ NoFrameLost
  BY <1>4 DEF Init, FreshInv, NoFrameLost
<1> QED
  BY <1>2, <1>3, <1>5 DEF TransportIInv

(* The invariant is inductive: it holds in every state of every instance.  *)
THEOREM TransportInvariant == Spec => []TransportIInv
<1>1. TransportIInv /\ [Next]_vars => TransportIInv'
  BY TypeStep, RouteStep, WakeupStep, DeadStep, FrameStep DEF TransportIInv
<1> QED
  BY TransportInit, <1>1, PTL DEF Spec

(* No wake-up is lost, for any number of requests and frames: the token of *)
(* route.wake outlives the moment at which nobody waits for it.            *)
THEOREM NoWakeupIsLost == Spec => []NoLostWakeup
<1>1. TransportIInv => NoLostWakeup
  BY DEF TransportIInv
<1> QED
  BY <1>1, TransportInvariant, PTL

(* Nobody outlives the worker, whoever kills it and whatever begins then.  *)
THEOREM NobodyOutlivesWorker == Spec => []DeadFailsAll
<1>1. TransportIInv => DeadFailsAll
  BY DEF TransportIInv
<1> QED
  BY <1>1, TransportInvariant, PTL

(* No frame is read twice, and while the worker lives none is lost.        *)
THEOREM FramesAccounted == Spec => []NoFrameLost
<1>1. TransportIInv => NoFrameLost
  BY DEF TransportIInv
<1> QED
  BY <1>1, TransportInvariant, PTL

(* Every variable of Transport keeps its type: a route's wake channel holds*)
(* at most one token and its frames are no more than were sent, for any    *)
(* number of requests and of frames in an answer.                          *)
THEOREM TypeCorrect == Spec => []TypeOK
<1>1. TransportIInv => TypeOK
  BY DEF TransportIInv
<1> QED
  BY <1>1, TransportInvariant, PTL
=============================================================================
