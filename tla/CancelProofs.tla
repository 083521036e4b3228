---------------------------- MODULE CancelProofs ----------------------------
(***************************************************************************)
(* Theorems about Cancel, for every width of the word, every first id and  *)
(* every number of requests short of the one that gets an id a second time.*)
(***************************************************************************)
EXTENDS Cancel, TLAPS

(* The ids there are: nextID counts 1..MaxUint and starts again.           *)
Width == 2 * Sign - 1

-----------------------------------------------------------------------------
(* Worker.begin's ids.                                                     *)

(* What a remainder is below the modulus, and below twice the modulus.     *)
LEMMA Remainder ==
    ASSUME NEW m \in Nat \ {0}, NEW x \in 0..(2 * m - 1)
    PROVE  x % m = IF x < m THEN x ELSE x - m
OBVIOUS

(* An id is a uint32 other than 0.                                         *)
LEMMA IdType ==
    ASSUME first \in FirstIds, NEW n \in Call
    PROVE  Id(n) \in 1..Width
BY SignAssumption, FirstAssumption, CallsAssumption DEF Id, Call, Width

(* No id is given out twice before nextID has gone round.                  *)
LEMMA IdsDiffer ==
    ASSUME MaxCalls <= Width, first \in FirstIds,
           NEW m \in Call, NEW n \in Call, Id(m) = Id(n)
    PROVE  m = n
<1>1. Width \in Nat \ {0} /\ first \in 1..Width
  BY SignAssumption, FirstAssumption DEF Width
<1>2. /\ first + m - 2 \in 0..(2 * Width - 1)
      /\ first + n - 2 \in 0..(2 * Width - 1)
  BY <1>1, CallsAssumption DEF Call
<1>3. /\ m \in 1..Width /\ n \in 1..Width
  BY <1>1, CallsAssumption DEF Call
<1>4. (first + m - 2) % Width = (first + n - 2) % Width
  <2> DEFINE a == (first + m - 2) % Width
             b == (first + n - 2) % Width
  <2>1. a + 1 = b + 1
    BY DEF Id, Width
  <2>2. a \in Int /\ b \in Int
    BY <1>1, <1>2
  <2> HIDE DEF a, b
  <2>3. a = b
    BY <2>1, <2>2
  <2> QED
    BY <2>3 DEF a, b
<1> DEFINE Rest(x) == IF x < Width THEN x ELSE x - Width
<1>5. Rest(first + m - 2) = Rest(first + n - 2)
  BY <1>1, <1>2, <1>4, Remainder, Zenon
<1> QED
  BY <1>1, <1>3, <1>5

(* What setCancel writes for a smaller id is that id; for one from 2^31 on *)
(* it is negative, like no id.                                             *)
LEMMA WordOfId ==
    ASSUME NEW i \in 1..Width, NEW j \in 1..Width, Int32(i) = j
    PROVE  i = j
BY SignAssumption DEF Int32, Width

(* The word is wide enough for every id.                                   *)
LEMMA WordType ==
    ASSUME NEW i \in 1..Width
    PROVE  Int32(i) \in (-Sign)..(Sign - 1)
BY SignAssumption DEF Int32, Width

-----------------------------------------------------------------------------
(* The invariant.  The word is 0 or what the watcher of a cancelled call   *)
(* wrote; the session has the id of the request it runs, so that the two   *)
(* agree only where that request is the one cancelled.                     *)
WordInv ==
    /\ word # 0 => \E n \in Call : watch[n] = "stored" /\ word = Int32(Id(n))
    /\ \A n \in Call : /\ watch[n] = "stored" => ctx[n] = "done"
                       /\ op[n] = "none" => watch[n] = "none"

RunInv ==
    /\ phase # "idle" => at \in Call
    /\ phase \in {"running", "parked"} => running = Id(at)

CancelIInv == TypeOK /\ WordInv /\ RunInv

(* It holds before the first request.                                      *)
LEMMA CancelInit == Init => CancelIInv
BY CallsAssumption, SignAssumption
   DEF Init, CancelIInv, TypeOK, WordInv, RunInv

(* Every step keeps the types.                                             *)
LEMMA TypeStep == CancelIInv /\ [Next]_vars => TypeOK'
<1> SUFFICES ASSUME CancelIInv, [Next]_vars PROVE TypeOK'
  OBVIOUS
<1> USE DEF CancelIInv, TypeOK, goVars, workerVars
<1>1. ASSUME NEW n \in Call, NEW o \in Ops, Post(n, o) PROVE TypeOK'
  BY <1>1 DEF Post
<1>2. ASSUME NEW n \in Call, CtxDone(n) \/ Leave(n) \/ WatchStop(n) PROVE TypeOK'
  BY <1>2 DEF CtxDone, Leave, WatchStop
<1>3. ASSUME NEW n \in Call, WatchStore(n) PROVE TypeOK'
  <2>1. Id(n) \in 1..Width
    BY IdType
  <2>2. Int32(Id(n)) \in (-Sign)..(Sign - 1)
    BY <2>1, WordType
  <2> QED
    BY <1>3, <2>2 DEF WatchStore
<1>4. CASE Start
  <2>1. at + 1 \in Call /\ Id(at + 1) \in 0..(2 * Sign - 1)
    BY <1>4, IdType, SignAssumption DEF Start, Width
  <2>2. at + 1 \in 0..MaxCalls
    BY <2>1, CallsAssumption DEF Call
  <2> QED
    BY <1>4, <2>1, <2>2 DEF Start, AtDequeue
<1>5. CASE Compiled
  <2>1. Id(at) \in 0..(2 * Sign - 1)
    BY <1>5, IdType, SignAssumption DEF Compiled, Width, RunInv
  <2> QED
    BY <1>5, <2>1 DEF Compiled
<1>6. CASE Park \/ Resume
  BY <1>6 DEF Park, Resume
<1>7. CASE Finish
  BY <1>7, SignAssumption DEF Finish, Reset
<1>8. CASE Interrupt
  <2>1. at \in Call
    BY <1>8, PollsAssumption DEF Interrupt, RunInv
  <2> QED
    BY <1>8, <2>1, SignAssumption DEF Interrupt, Reset
<1>9. CASE UNCHANGED vars
  BY <1>9 DEF vars
<1> QED
  BY <1>1, <1>2, <1>3, <1>4, <1>5, <1>6, <1>7, <1>8, <1>9 DEF Next

(* Every step keeps what is known of the word: only a watcher whose context*)
(* is done writes it, and neither forgets that it did.                     *)
LEMMA WordStep == CancelIInv /\ [Next]_vars => WordInv'
<1> SUFFICES ASSUME CancelIInv, [Next]_vars PROVE WordInv'
  OBVIOUS
<1> USE DEF CancelIInv, TypeOK, WordInv
<1>1. first' = first /\ \A n \in Call : Id(n)' = Id(n)
  BY DEF Next, vars, goVars, workerVars, Post, CtxDone, Leave, WatchStop, WatchStore,
     Start, Compiled, Park, Resume, Finish, Interrupt, Id
<1>2. ASSUME NEW n \in Call, NEW o \in Ops, Post(n, o) PROVE WordInv'
  <2>1. /\ watch[n] = "none" /\ watch'[n] # "stored" /\ op'[n] # "none"
        /\ \A m \in Call : m # n => op'[m] = op[m] /\ watch'[m] = watch[m]
        /\ UNCHANGED <<ctx, word>>
    BY <1>2, OpsAssumption DEF Post
  <2>2. \A m \in Call : Int32(Id(m))' = Int32(Id(m))
    BY <1>1 DEF Int32
  <2> QED
    BY <2>1, <2>2
<1>3. ASSUME NEW n \in Call, CtxDone(n) \/ Leave(n) \/ WatchStop(n) PROVE WordInv'
  BY <1>1, <1>3 DEF CtxDone, Leave, WatchStop
<1>4. ASSUME NEW n \in Call, WatchStore(n) PROVE WordInv'
  <2>1. /\ word' = Int32(Id(n)) /\ ctx[n] = "done" /\ UNCHANGED <<op, ctx>>
        /\ op[n] # "none" /\ watch'[n] = "stored"
        /\ \A m \in Call : m # n => watch'[m] = watch[m]
    BY <1>4 DEF WatchStore
  <2>2. word' = Int32(Id(n))'
    BY <1>1, <2>1 DEF Int32
  <2> QED
    BY <2>1, <2>2
<1>5. ASSUME UNCHANGED <<op, watch, ctx, word>> PROVE WordInv'
  <2>1. \A n \in Call : Int32(Id(n))' = Int32(Id(n))
    BY <1>1 DEF Int32
  <2> QED
    BY <1>5, <2>1
<1>6. CASE Start \/ Compiled \/ Park \/ Resume \/ Finish \/ Interrupt \/ UNCHANGED vars
  BY <1>5, <1>6 DEF Start, AtDequeue, Compiled, Park, Resume, Finish, Interrupt,
     vars, goVars
<1> QED
  BY <1>2, <1>3, <1>4, <1>6 DEF Next

(* Every step keeps runningRequestId at the id of what runs: it is set with*)
(* the phase, and the finally blocks reset it.                             *)
LEMMA RunStep == CancelIInv /\ [Next]_vars => RunInv'
<1> SUFFICES ASSUME CancelIInv, [Next]_vars PROVE RunInv'
  OBVIOUS
<1> USE DEF CancelIInv, RunInv, Id
<1>1. ASSUME UNCHANGED <<first, workerVars>> PROVE RunInv'
  BY <1>1 DEF workerVars
<1>2. ASSUME NEW n \in Call,
             \/ \E o \in Ops : Post(n, o)
             \/ CtxDone(n) \/ Leave(n) \/ WatchStore(n) \/ WatchStop(n)
      PROVE  RunInv'
  BY <1>1, <1>2 DEF Post, CtxDone, Leave, WatchStore, WatchStop
<1>3. CASE Start
  BY <1>3 DEF Start, goVars
<1>4. CASE Compiled \/ Park \/ Resume
  BY <1>4 DEF Compiled, Park, Resume, goVars
<1>5. CASE Finish \/ Interrupt
  BY <1>5 DEF Finish, Interrupt
<1>6. CASE UNCHANGED vars
  BY <1>1, <1>6 DEF vars, goVars
<1> QED
  BY <1>2, <1>3, <1>4, <1>5, <1>6 DEF Next

(* Where the ids in use differ and SQLite polls only while a statement     *)
(* runs, a request whose progress handler answers 1 is a cancelled one:    *)
(* the word is not 0, so some cancelled call wrote it, and as it reads as  *)
(* the id that runs, that call is this one.                                *)
LEMMA FiresForItsOwn ==
    ASSUME MaxCalls <= Width, "compiling" \notin Polls, CancelIInv, Interrupt
    PROVE  at \in Call /\ ctx[at] = "done"
<1>1. phase = "running" /\ at \in Call /\ word = running /\ running = Id(at)
  BY PollsAssumption DEF Interrupt, Fires, CancelIInv, RunInv
<1>2. Id(at) \in 1..Width
  BY <1>1, IdType DEF CancelIInv, TypeOK
<1>3. word # 0
  BY <1>1, <1>2, SignAssumption DEF Width
<1>4. PICK n \in Call : watch[n] = "stored" /\ word = Int32(Id(n))
  BY <1>3 DEF CancelIInv, WordInv
<1>5. Id(n) \in 1..Width
  BY IdType DEF CancelIInv, TypeOK
<1>6. Id(n) = Id(at)
  BY <1>1, <1>2, <1>4, <1>5, WordOfId
<1>7. n = at
  BY <1>1, <1>6, IdsDiffer DEF CancelIInv, TypeOK
<1> QED
  BY <1>1, <1>4, <1>7 DEF CancelIInv, WordInv

(* Every step keeps it that only cancelled requests were interrupted.      *)
LEMMA OnlyStep ==
    ASSUME MaxCalls <= Width, "compiling" \notin Polls, CancelIInv,
           OnlyTheCancelled, [Next]_vars
    PROVE  OnlyTheCancelled'
<1> USE DEF OnlyTheCancelled
<1>1. \A n \in Call : ctx[n] = "done" => ctx'[n] = "done"
  BY DEF CancelIInv, TypeOK, Next, vars, goVars, Post, CtxDone, Leave, WatchStop,
     WatchStore, Start, Compiled, Park, Resume, Finish, Interrupt
<1>2. stopped \subseteq Call /\ \A n \in stopped : ctx[n] = "done"
  BY DEF CancelIInv, TypeOK
<1>3. CASE Interrupt
  <2>1. stopped' = stopped \cup {at} /\ at \in Call /\ ctx[at] = "done"
    BY <1>3, FiresForItsOwn DEF Interrupt
  <2> QED
    BY <1>1, <1>2, <2>1
<1>4. CASE ~ Interrupt
  <2>1. stopped' = stopped
    BY <1>4 DEF Next, vars, goVars, workerVars, Post, CtxDone, Leave, WatchStop,
       WatchStore, Start, Compiled, Park, Resume, Finish
  <2> QED
    BY <1>1, <1>2, <2>1
<1> QED
  BY <1>3, <1>4

-----------------------------------------------------------------------------
(* The theorems.                                                           *)

(* The invariant, of every behaviour.                                      *)
THEOREM CancelInvariant == Spec => []CancelIInv
<1>1. CancelIInv /\ [Next]_vars => CancelIInv'
  BY TypeStep, WordStep, RunStep DEF CancelIInv
<1> QED
  BY <1>1, CancelInit, PTL DEF Spec

(* The variables keep their types: a stored word is an Int32 and           *)
(* runningRequestId a uint32, whatever is cancelled and whenever.          *)
THEOREM TypeCorrect == Spec => []TypeOK
<1>1. CancelIInv => TypeOK
  BY DEF CancelIInv
<1> QED
  BY <1>1, CancelInvariant, PTL

(* No request is interrupted for another's cancellation (PROTOCOL.md       *)
(* 280-282), however late a watcher stores and whatever the word still     *)
(* holds: as long as no id comes round again and SQLite polls nothing but  *)
(* a running statement.                                                    *)
THEOREM OnlyCancelledStop ==
    ASSUME MaxCalls <= Width, "compiling" \notin Polls
    PROVE  Spec => []OnlyTheCancelled
<1>1. Init => OnlyTheCancelled
  BY DEF Init, OnlyTheCancelled
<1>2. CancelIInv /\ OnlyTheCancelled /\ [Next]_vars => OnlyTheCancelled'
  BY OnlyStep
<1> QED
  BY <1>1, <1>2, CancelInvariant, PTL DEF Spec
=============================================================================
