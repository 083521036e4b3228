------------------------------- MODULE Session -------------------------------
(***************************************************************************)
(* What the database worker holds on behalf of its clients: the open       *)
(* databases with their cancellation slots, the compiled statements, and   *)
(* the statement cache of each database (src/worker/session.ts, and the    *)
(* handlers of src/worker/index.ts that open, close, prepare, finalize and *)
(* query).  A statement is a sqlite3_stmt pointer; sqlite3 may hand out    *)
(* the address of a finalized one again.                                   *)
(*                                                                         *)
(* Requests of one database are handled one at a time (InOrder of Stream), *)
(* a query holds its database until it ends, and OPEN and SHUTDOWN have a  *)
(* chain of their own: what interleaves here is the handlers of different  *)
(* chains, at the awaits of runQuery and of Session.open.  EXEC finalizes  *)
(* what it compiles before it yields, so it is no step of this module.     *)
(***************************************************************************)
EXTENDS Integers, FiniteSets, Sequences, SequencesExt

CONSTANTS
    Slots,           \* CANCEL_SLOTS: slots 0..Slots-1
    CacheLimit,      \* STATEMENT_CACHE_LIMIT
    Ptr,             \* bound: addresses of statements
    MaxDb,           \* bound: databases ever opened
    MaxStmt,         \* bound: statements ever prepared
    Whole,           \* SQL texts that are one statement and nothing else,
    Trailing,        \* one statement, then blanks or a comment,
    BadTail,         \* one statement, then text that does not compile
    WithShutdown,    \* whether some client sends SHUTDOWN (Go never does)
    None             \* null, undefined

ASSUME SlotsAssumption == Slots \in Nat
ASSUME LimitAssumption == CacheLimit \in Nat
ASSUME BoundsAssumption == MaxDb \in Nat /\ MaxStmt \in Nat
ASSUME SqlAssumption == /\ Whole \cap (Trailing \cup BadTail) = {}
                        /\ Trailing \cap BadTail = {}
ASSUME ShutdownAssumption == WithShutdown \in BOOLEAN

Sql == Whole \cup Trailing \cup BadTail
DbId == 1..MaxDb
StmtId == 1..MaxStmt
Slot == 0..(Slots - 1)
ASSUME NoneAssumption == None \notin Ptr \cup DbId \cup Slot \cup Sql

VARIABLES
    nextDbId, nextStmtId,
    freeSlots,   \* a stack
    opening,     \* the slot held by the OPEN in progress, or None
    sessions,    \* ids of the open databases
    slot,        \* Session.cancelSlot of the open databases
    home,        \* the database of each statement; None once finalized
    text,        \* PreparedStatement.sql
    cache,       \* Session.cache, least recently used first
    statements,  \* what PREPARE registered: a statement or None
    using,       \* the statement of the query in progress, or None
    owns,        \* ownsStatement of that query
    lost,        \* history: live statements nobody will finalize
    shut         \* history: a SHUTDOWN was handled

slotVars == <<nextDbId, freeSlots, opening, slot>>
useVars == <<using, owns>>
regVars == <<nextStmtId, statements>>
stmtVars == <<home, text, cache>>
history == <<lost, shut>>
vars == <<slotVars, sessions, useVars, regVars, stmtVars, history>>

Init ==
    /\ nextDbId = 1 /\ nextStmtId = 1
    /\ freeSlots = [i \in 1..Slots |-> Slots - i]
    /\ opening = None
    /\ sessions = {}
    /\ slot = [d \in DbId |-> None]
    /\ home = [p \in Ptr |-> None]
    /\ text = [p \in Ptr |-> None]
    /\ cache = [d \in DbId |-> <<>>]
    /\ statements = [s \in StmtId |-> None]
    /\ using = [d \in DbId |-> None]
    /\ owns = [d \in DbId |-> FALSE]
    /\ lost = {} /\ shut = FALSE

Live == {p \in Ptr : home[p] # None}

(* sqlite3_prepare_v3 at a free address, and sqlite3_finalize.             *)
Compile(d, q, p) ==
    /\ p \in Ptr \ Live
    /\ home' = [home EXCEPT ![p] = d]
    /\ text' = [text EXCEPT ![p] = q]

FinalizeAll(S) ==
    /\ home' = [p \in Ptr |-> IF p \in S THEN None ELSE home[p]]
    /\ text' = [p \in Ptr |-> IF p \in S THEN None ELSE text[p]]

-----------------------------------------------------------------------------
(* OPEN and CLOSE.                                                         *)

(* openDatabase up to the await; with no slot left it only throws.         *)
OpenStart ==
    /\ opening = None
    /\ nextDbId \in DbId
    /\ freeSlots # <<>>
    /\ opening' = Last(freeSlots)
    /\ freeSlots' = Front(freeSlots)
    /\ UNCHANGED <<nextDbId, slot, sessions, useVars, regVars, stmtVars, history>>

OpenFail ==
    /\ opening # None
    /\ freeSlots' = Append(freeSlots, opening)
    /\ opening' = None
    /\ UNCHANGED <<nextDbId, slot, sessions, useVars, regVars, stmtVars, history>>

OpenDone ==
    /\ opening # None
    /\ nextDbId' = nextDbId + 1
    /\ sessions' = sessions \cup {nextDbId}
    /\ slot' = [slot EXCEPT ![nextDbId] = opening]
    /\ opening' = None
    /\ UNCHANGED <<freeSlots, useVars, regVars, stmtVars, history>>

Cached(d) == ToSet(cache[d])
Registered(d) == {p \in Ptr : home[p] = d /\ \E s \in StmtId : statements[s] = p}

(* closeDatabase: the prepared statements of the database and its cache    *)
(* are finalized before sqlite3_close_v2, and its slot is free again.      *)
ForgetSlot(d) == freeSlots
ReleaseSlot(d) == Append(freeSlots, slot[d])
DroppedByText(d) ==
    Registered(d) \cup {p \in Cached(d) : \A r \in Registered(d) : text[r] # text[p]}
Closed(d) == Cached(d) \cup Registered(d)

CloseDb(d) ==
    /\ d \in sessions /\ using[d] = None
    /\ FinalizeAll(Closed(d))
    /\ cache' = [cache EXCEPT ![d] = <<>>]
    /\ statements' = [s \in StmtId |-> IF statements[s] \in Registered(d)
                                       THEN None ELSE statements[s]]
    /\ sessions' = sessions \ {d}
    /\ freeSlots' = ReleaseSlot(d)
    /\ slot' = [slot EXCEPT ![d] = None]
    /\ UNCHANGED <<nextDbId, opening, useVars, nextStmtId, history>>

(* shutdown closes every database, whatever its chain is doing, forgets    *)
(* the prepared statements and keeps the slots.                            *)
PreparedToo == UNION {Closed(d) : d \in sessions}
ShutDown == UNION {Cached(d) : d \in sessions}

Shutdown ==
    /\ WithShutdown
    /\ opening = None
    /\ FinalizeAll(ShutDown)
    /\ cache' = [d \in DbId |-> <<>>]
    /\ statements' = [s \in StmtId |-> None]
    /\ sessions' = {}
    /\ slot' = [d \in DbId |-> None]
    /\ lost' = lost \cup UNION {Registered(d) : d \in DbId} /\ shut' = TRUE
    /\ UNCHANGED <<nextDbId, freeSlots, opening, useVars, nextStmtId>>

-----------------------------------------------------------------------------
(* Session.prepareOne, release and discard.                                *)

Hit(d, q) == {p \in Cached(d) : text[p] = q}
Without(s, p) ==
    IF p \in ToSet(s)
    THEN RemoveAt(s, CHOOSE i \in 1..Len(s) : s[i] = p)
    ELSE s

(* A cached statement leaves the cache while it is in use.                 *)
TakeOut(s, p) == Without(s, p)

(* prepareOne returns p: cached, or compiled at a free address.            *)
PrepareOne(d, q, p) ==
    IF Hit(d, q) # {}
    THEN /\ p \in Hit(d, q)
         /\ cache' = [cache EXCEPT ![d] = TakeOut(@, p)]
         /\ UNCHANGED <<home, text>>
    ELSE /\ q \in Whole \cup Trailing
         /\ Compile(d, q, p)
         /\ UNCHANGED cache

(* prepareOne throws because the second statement of the text does not     *)
(* compile: the first one has been compiled, and stays so.  (When the tail *)
(* holds a good statement, both are finalized and nothing has changed.)    *)
PrepareFails(d) ==
    /\ d \in sessions /\ using[d] = None
    /\ \E q \in BadTail, p \in Ptr : Compile(d, q, p) /\ lost' = lost \cup {p}
    /\ UNCHANGED <<slotVars, sessions, useVars, regVars, cache, shut>>

WholeOrNot(d, p) == d \in sessions
Cacheable(d, p) == text[p] \in Whole /\ d \in sessions

(* release.  A second copy of a cached text is not kept, and the oldest    *)
(* entries beyond the limit are finalized.                                 *)
SecondCopy(d, p) == Hit(d, text[p]) # {}

KeepAll(s) == 0
Excess(s) == IF Len(s) > CacheLimit THEN Len(s) - CacheLimit ELSE 0

Release(d, p) ==
    IF ~Cacheable(d, p) \/ SecondCopy(d, p)
    THEN FinalizeAll({p}) /\ UNCHANGED cache
    ELSE LET all == Append(cache[d], p) IN
         /\ cache' = [cache EXCEPT ![d] = SubSeq(all, Excess(all) + 1, Len(all))]
         /\ FinalizeAll(ToSet(SubSeq(all, 1, Excess(all))))

(* discard: by identity, not by key.                                       *)
Discard(d, p) ==
    /\ cache' = [cache EXCEPT ![d] = Without(@, p)]
    /\ FinalizeAll({p})

-----------------------------------------------------------------------------
(* PREPARE, FINALIZE and the queries.                                      *)

Prepare(d, q) ==
    /\ d \in sessions /\ using[d] = None
    /\ nextStmtId \in StmtId
    /\ \E p \in Ptr : /\ PrepareOne(d, q, p)
                      /\ statements' = [statements EXCEPT ![nextStmtId] = p]
    /\ nextStmtId' = nextStmtId + 1
    /\ UNCHANGED <<slotVars, sessions, useVars, history>>

Finalize(s) ==
    /\ statements[s] # None
    /\ LET d == home[statements[s]] IN
       /\ using[d] = None
       /\ Release(d, statements[s])
    /\ statements' = [statements EXCEPT ![s] = None]
    /\ UNCHANGED <<slotVars, sessions, useVars, nextStmtId, history>>

(* QUERY and QUERY_STMT up to their end, which some event of the stream    *)
(* brings: the last row, an error, an abort or an interrupt.               *)
Query(d, q) ==
    /\ d \in sessions /\ using[d] = None
    /\ \E p \in Ptr : /\ PrepareOne(d, q, p)
                      /\ using' = [using EXCEPT ![d] = p]
    /\ owns' = [owns EXCEPT ![d] = TRUE]
    /\ UNCHANGED <<slotVars, sessions, regVars, history>>

QueryStmt(s) ==
    /\ statements[s] # None
    /\ LET d == home[statements[s]] IN
       /\ using[d] = None
       /\ using' = [using EXCEPT ![d] = statements[s]]
       /\ owns' = [owns EXCEPT ![d] = FALSE]
    /\ UNCHANGED <<slotVars, sessions, regVars, stmtVars, history>>

(* runQuery's finally; stopped: interrupted or aborted.                    *)
QueryEnd(d, stopped) ==
    /\ using[d] # None
    /\ IF owns[d]
       THEN IF stopped THEN Discard(d, using[d]) ELSE Release(d, using[d])
       ELSE UNCHANGED stmtVars
    /\ using' = [using EXCEPT ![d] = None]
    /\ owns' = [owns EXCEPT ![d] = FALSE]
    /\ UNCHANGED <<slotVars, sessions, regVars, history>>

Next ==
    \/ OpenStart \/ OpenFail \/ OpenDone \/ Shutdown
    \/ \E d \in DbId : CloseDb(d) \/ PrepareFails(d)
    \/ \E d \in DbId, q \in Sql : Prepare(d, q) \/ Query(d, q)
    \/ \E s \in StmtId : Finalize(s) \/ QueryStmt(s)
    \/ \E d \in DbId, stopped \in BOOLEAN : QueryEnd(d, stopped)

Spec == Init /\ [][Next]_vars

-----------------------------------------------------------------------------
(* Properties.                                                             *)

(* Type invariant; it bounds the cache of every database.                  *)
TypeOK ==
    /\ nextDbId \in 1..(MaxDb + 1) /\ nextStmtId \in 1..(MaxStmt + 1)
    /\ freeSlots \in Seq(Slot)
    /\ opening \in Slot \cup {None}
    /\ sessions \in SUBSET (DbId \cap 1..(nextDbId - 1))
    /\ slot \in [DbId -> Slot \cup {None}]
    /\ home \in [Ptr -> DbId \cup {None}]
    /\ text \in [Ptr -> Sql \cup {None}]
    /\ cache \in [DbId -> Seq(Ptr)]
    /\ \A d \in DbId : Len(cache[d]) <= CacheLimit
    /\ statements \in [StmtId -> Ptr \cup {None}]
    /\ using \in [DbId -> Ptr \cup {None}]
    /\ owns \in [DbId -> BOOLEAN]
    /\ lost \subseteq Ptr /\ shut \in BOOLEAN

(* The places that will finalize p one day.                                *)
Keepers(p) ==
    {<<"cache", x[1], x[2]>> : x \in {y \in DbId \X (1..CacheLimit) :
         y[2] <= Len(cache[y[1]]) /\ cache[y[1]][y[2]] = p}}
    \cup {<<"prepared", s, 0>> : s \in {t \in StmtId : statements[t] = p}}
    \cup {<<"query", d, 0>> : d \in {e \in DbId : using[e] = p /\ owns[e]}}

(* A live statement has exactly one keeper and a finalized one none:       *)
(* nothing is finalized twice, handed to two queries, kept after it was    *)
(* finalized, or left for nobody to finalize, whichever way it came into   *)
(* and out of the cache; but for what prepareOne loses by throwing and     *)
(* what SHUTDOWN forgets.  So CLOSE leaves no other statement behind.      *)
OwnedOnce ==
    \A p \in Ptr : Cardinality(Keepers(p)) = IF p \in Live \ lost THEN 1 ELSE 0

(* A query steps a live statement of its own database, also when it        *)
(* borrowed a prepared one.                                                *)
QueriesLive ==
    \A d \in DbId : using[d] # None => home[using[d]] = d

(* A cancellation slot belongs to one open database, or to the OPEN in     *)
(* progress, or is free: two databases on one slot would interrupt each    *)
(* other, a slot that is lost is lost for good, as SHUTDOWN's are.         *)
HeldSlots == {slot[d] : d \in sessions} \cup ({opening} \ {None})
SlotsPartition ==
    /\ \A c, d \in sessions : slot[c] = slot[d] => c = d
    /\ \A d \in sessions : slot[d] # opening
    /\ \A i, j \in 1..Len(freeSlots) : freeSlots[i] = freeSlots[j] => i = j
    /\ HeldSlots \cap ToSet(freeSlots) = {}
    /\ shut \/ HeldSlots \cup ToSet(freeSlots) = Slot

(* A cache has one entry per text, none that leaves part of its text       *)
(* uncompiled, and none once its database is closed, when nobody would     *)
(* finalize it: a hit runs the text that was asked for.                    *)
CacheFaithful ==
    \A d \in DbId : \A i, j \in 1..Len(cache[d]) :
        LET p == cache[d][i] IN
        /\ d \in sessions /\ home[p] = d /\ text[p] \in Whole
        /\ text[p] = text[cache[d][j]] => i = j

(* sqlite3_close_v2 is given no database with a live statement, which      *)
(* would keep the handle, its page cache and its VFS lock (the comment in  *)
(* Session.discard).                                                       *)
CleanClose ==
    [][\A d \in sessions \ sessions' : \A p \in Ptr : home'[p] # d]_vars
=============================================================================
