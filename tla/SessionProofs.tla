---------------------------- MODULE SessionProofs ----------------------------
(***************************************************************************)
(* What is proved of Session for every number of slots, of databases, of   *)
(* statements and of addresses, and every cache limit: each live statement *)
(* has exactly one keeper, queries step live statements of their own       *)
(* database, a cache holds what it says, and a slot is in one place.       *)
(*                                                                         *)
(* SessionIInv is the inductive invariant.  It says of the entries of the  *)
(* caches, of the prepared statements and of the running queries which     *)
(* live statements they may share (a query and the prepared statement it   *)
(* borrows), and that between them and the lost ones no live statement is  *)
(* left over; OwnedOnce counts what it says.                               *)
(***************************************************************************)
EXTENDS Session, FiniteSetTheorems, SequenceTheorems, TLAPS

(* An entry of a cache is a live, whole statement of that database, which  *)
(* is open, and the only entry with its text.                              *)
CacheInv ==
    \A d \in DbId :
        /\ \A i, j \in 1..Len(cache[d]) : cache[d][i] = cache[d][j] => i = j
        /\ \A p \in Cached(d) :
              /\ d \in sessions /\ home[p] = d /\ text[p] \in Whole
              /\ \A q \in Cached(d) : text[q] = text[p] => q = p

(* A query in progress steps a live statement that is in no cache.         *)
UsingInv ==
    \A d \in DbId : using[d] # None => home[using[d]] = d /\ using[d] \notin Cached(d)

(* A prepared statement is live, registered once, in no cache, and not     *)
(* what some query will release.                                           *)
PreparedInv ==
    \A s \in StmtId, p \in Ptr : statements[s] = p =>
        /\ p \in Live \ lost
        /\ p \notin Cached(home[p])
        /\ using[home[p]] = p => ~ owns[home[p]]
        /\ s < nextStmtId /\ \A t \in StmtId : statements[t] = p => t = s

(* A lost statement is live, in no cache, and not what some query will     *)
(* release.                                                                *)
LostInv ==
    \A p \in lost :
        /\ p \in Live
        /\ p \notin Cached(home[p])
        /\ using[home[p]] = p => ~ owns[home[p]]

(* Every other live statement has a keeper.                                *)
KeptInv ==
    \A p \in Live \ lost :
        \/ p \in Cached(home[p])
        \/ \E s \in StmtId : statements[s] = p
        \/ using[home[p]] = p /\ owns[home[p]]

(* An open database has a slot, and the OPEN in progress an id.            *)
OpenInv ==
    /\ \A d \in sessions : slot[d] \in Slot
    /\ opening # None => nextDbId \in DbId

SessionIInv ==
    /\ TypeOK /\ CacheInv /\ UsingInv /\ PreparedInv /\ LostInv /\ KeptInv
    /\ OpenInv /\ SlotsPartition

-----------------------------------------------------------------------------
(* A cache without one of its entries, which are distinct.                 *)

(* ToSet names the entries of a sequence.                                  *)
LEMMA EntriesOf ==
    ASSUME NEW S, NEW s \in Seq(S)
    PROVE  /\ \A x : x \in ToSet(s) <=> \E i \in 1..Len(s) : s[i] = x
           /\ ToSet(s) \subseteq S
  BY DEF ToSet

(* Without takes out the entry and nothing else (discard, prepareOne).     *)
LEMMA WithoutFacts ==
    ASSUME NEW S, NEW s \in Seq(S), NEW p,
           \A i, j \in 1..Len(s) : s[i] = s[j] => i = j
    PROVE  /\ Without(s, p) \in Seq(S)
           /\ Len(Without(s, p)) <= Len(s)
           /\ \A x : x \in ToSet(Without(s, p)) <=> x \in ToSet(s) /\ x # p
           /\ \A i, j \in 1..Len(Without(s, p)) :
                 Without(s, p)[i] = Without(s, p)[j] => i = j
<1>1. CASE p \notin ToSet(s)
  BY <1>1 DEF Without
<1>2. CASE p \in ToSet(s)
  <2> DEFINE n == CHOOSE i \in 1..Len(s) : s[i] = p
             t == RemoveAt(s, n)
  <2>1. n \in 1..Len(s) /\ s[n] = p
    BY <1>2, EntriesOf
  <2>2. Without(s, p) = t
    BY <1>2 DEF Without
  <2> HIDE DEF n
  <2>3. Len(s) \in Nat
    OBVIOUS
  <2>4. /\ SubSeq(s, 1, n - 1) \in Seq(S)
        /\ Len(SubSeq(s, 1, n - 1)) = n - 1
        /\ \A j \in 1..(n - 1) : SubSeq(s, 1, n - 1)[j] = s[j]
    BY <2>1, <2>3
  <2>5. /\ SubSeq(s, n + 1, Len(s)) \in Seq(S)
        /\ Len(SubSeq(s, n + 1, Len(s))) = Len(s) - n
        /\ \A j \in 1..(Len(s) - n) : SubSeq(s, n + 1, Len(s))[j] = s[n + j]
    BY <2>1, <2>3
  <2>6. /\ t \in Seq(S) /\ Len(t) = Len(s) - 1
        /\ \A j \in 1..(Len(s) - 1) :
              t[j] = IF j < n THEN s[j] ELSE s[j + 1]
    <3> DEFINE u == SubSeq(s, 1, n - 1)
               v == SubSeq(s, n + 1, Len(s))
    <3>1. t = u \o v
      BY DEF RemoveAt
    <3>2. /\ u \in Seq(S) /\ Len(u) = n - 1 /\ \A j \in 1..(n - 1) : u[j] = s[j]
          /\ v \in Seq(S) /\ Len(v) = Len(s) - n
          /\ \A j \in 1..(Len(s) - n) : v[j] = s[n + j]
      BY <2>4, <2>5
    <3> HIDE DEF u, v
    <3>3. /\ u \o v \in Seq(S) /\ Len(u \o v) = Len(s) - 1
          /\ \A j \in 1..(Len(s) - 1) :
                (u \o v)[j] = IF j <= n - 1 THEN u[j] ELSE v[j - (n - 1)]
      <4>1. u \in Seq(S) /\ v \in Seq(S)
        BY <3>2
      <4>2. /\ u \o v \in Seq(S) /\ Len(u \o v) = Len(u) + Len(v)
            /\ \A j \in 1..(Len(u) + Len(v)) :
                  (u \o v)[j] = IF j <= Len(u) THEN u[j] ELSE v[j - Len(u)]
        BY <4>1, ConcatProperties
      <4>3. Len(u) = n - 1 /\ Len(u) + Len(v) = Len(s) - 1
        BY <2>1, <2>3, <3>2
      <4> QED
        BY <4>2, <4>3
    <3>4. ASSUME NEW j \in 1..(Len(s) - 1)
          PROVE  (u \o v)[j] = IF j < n THEN s[j] ELSE s[j + 1]
      <4>1. CASE j < n
        BY <4>1, <3>2, <3>3, <2>1, <2>3
      <4>2. CASE ~ (j < n)
        <5>1. j - (n - 1) \in 1..(Len(s) - n) /\ n + (j - (n - 1)) = j + 1
          BY <4>2, <2>1, <2>3
        <5>2. v[j - (n - 1)] = s[j + 1]
          BY <5>1, <3>2
        <5> QED
          BY <5>2, <4>2, <3>3, <2>1, <2>3
      <4> QED
        BY <4>1, <4>2
    <3> QED
      BY <3>1, <3>3, <3>4
  <2> HIDE DEF t
  <2>7. ASSUME NEW x
        PROVE  (\E i \in 1..Len(t) : t[i] = x)
               <=> x # p /\ \E i \in 1..Len(s) : s[i] = x
    <3>1. ASSUME NEW i \in 1..Len(t), t[i] = x
          PROVE  x # p /\ \E j \in 1..Len(s) : s[j] = x
      <4>1. CASE i < n
        <5>1. i \in 1..Len(s) /\ i # n /\ s[i] = x
          BY <4>1, <3>1, <2>1, <2>3, <2>6
        <5> QED
          BY <5>1, <2>1
      <4>2. CASE ~ (i < n)
        <5>1. i + 1 \in 1..Len(s) /\ i + 1 # n /\ s[i + 1] = x
          BY <4>2, <3>1, <2>1, <2>3, <2>6
        <5> QED
          BY <5>1, <2>1
      <4> QED
        BY <4>1, <4>2
    <3>2. ASSUME x # p, NEW i \in 1..Len(s), s[i] = x
          PROVE  \E j \in 1..Len(t) : t[j] = x
      <4>1. i # n
        BY <3>2, <2>1
      <4>2. CASE i < n
        BY <4>2, <3>2, <2>1, <2>3, <2>6
      <4>3. CASE i > n
        <5>1. i - 1 \in 1..Len(t) /\ ~ (i - 1 < n) /\ (i - 1) + 1 = i
          BY <4>3, <2>1, <2>3, <2>6
        <5> QED
          BY <5>1, <3>2, <2>6
      <4> QED
        BY <4>1, <4>2, <4>3, <2>1, <2>3
    <3> QED
      BY <3>1, <3>2
  <2>8. ASSUME NEW i \in 1..Len(t), NEW j \in 1..Len(t), t[i] = t[j]
        PROVE  i = j
    <3>1. /\ i \in 1..(Len(s) - 1) /\ i \in 1..Len(s) /\ i + 1 \in 1..Len(s)
          /\ j \in 1..(Len(s) - 1) /\ j \in 1..Len(s) /\ j + 1 \in 1..Len(s)
      BY <2>3, <2>6
    <3>2. /\ i < n => t[i] = s[i]
          /\ ~ (i < n) => t[i] = s[i + 1]
          /\ j < n => t[j] = s[j]
          /\ ~ (j < n) => t[j] = s[j + 1]
      BY <3>1, <2>6
    <3>3. n \in 1..Len(s) /\ \A h, k \in 1..Len(s) : s[h] = s[k] => h = k
      BY <2>1
    <3>4. CASE i < n /\ j < n
      BY <3>1, <3>2, <3>3, <3>4, <2>8
    <3>5. CASE ~ (i < n) /\ ~ (j < n)
      <4>1. i + 1 = j + 1
        BY <3>1, <3>2, <3>3, <3>5, <2>8
      <4> QED
        BY <4>1, <3>1
    <3>6. CASE i < n /\ ~ (j < n)
      <4>1. i = j + 1
        BY <3>1, <3>2, <3>3, <3>6, <2>8
      <4> QED
        BY <4>1, <3>1, <3>3, <3>6
    <3>7. CASE ~ (i < n) /\ j < n
      <4>1. i + 1 = j
        BY <3>1, <3>2, <3>3, <3>7, <2>8
      <4> QED
        BY <4>1, <3>1, <3>3, <3>7
    <3> QED
      BY <3>4, <3>5, <3>6, <3>7
  <2>9. \A x : x \in ToSet(t) <=> x \in ToSet(s) /\ x # p
    <3>1. t \in Seq(S)
      BY <2>6
    <3>2. \A x : x \in ToSet(t) <=> \E i \in 1..Len(t) : t[i] = x
      BY <3>1, EntriesOf
    <3>3. \A x : x \in ToSet(s) <=> \E i \in 1..Len(s) : s[i] = x
      BY EntriesOf
    <3> QED
      BY <3>2, <3>3, <2>7, Zenon
  <2> QED
    BY <2>2, <2>3, <2>6, <2>8, <2>9
<1> QED
  BY <1>1, <1>2

-----------------------------------------------------------------------------
(* What prepareOne, release and discard do to the caches.                  *)

(* CacheFaithful, entry by entry, is CacheInv.                             *)
LEMMA CacheFaithfulIs == TypeOK => (CacheFaithful <=> CacheInv)
<1> SUFFICES ASSUME TypeOK PROVE CacheFaithful <=> CacheInv
  OBVIOUS
<1>1. ASSUME NEW d \in DbId
      PROVE  /\ cache[d] \in Seq(Ptr)
             /\ \A x : x \in Cached(d) <=> \E i \in 1..Len(cache[d]) : cache[d][i] = x
  <2>1. cache[d] \in Seq(Ptr)
    BY DEF TypeOK
  <2> QED
    BY <2>1, EntriesOf DEF Cached
<1>2. ASSUME CacheFaithful, NEW d \in DbId
      PROVE  /\ \A i, j \in 1..Len(cache[d]) : cache[d][i] = cache[d][j] => i = j
             /\ \A p \in Cached(d) :
                   /\ d \in sessions /\ home[p] = d /\ text[p] \in Whole
                   /\ \A q \in Cached(d) : text[q] = text[p] => q = p
  BY <1>1, <1>2 DEF CacheFaithful
<1>3. ASSUME CacheInv, NEW d \in DbId,
             NEW i \in 1..Len(cache[d]), NEW j \in 1..Len(cache[d])
      PROVE  LET p == cache[d][i] IN
             /\ d \in sessions /\ home[p] = d /\ text[p] \in Whole
             /\ text[p] = text[cache[d][j]] => i = j
  <2>1. cache[d][i] \in Cached(d) /\ cache[d][j] \in Cached(d)
    BY <1>1
  <2> QED
    BY <2>1, <1>3 DEF CacheInv
<1> QED
  BY <1>2, <1>3 DEF CacheInv, CacheFaithful

(* Entries of caches are addresses of statements.                          *)
LEMMA CachedFacts ==
    ASSUME TypeOK, NEW d \in DbId
    PROVE  /\ cache[d] \in Seq(Ptr) /\ Cached(d) \subseteq Ptr
           /\ \A x : x \in Cached(d) <=> \E i \in 1..Len(cache[d]) : cache[d][i] = x
<1>1. cache[d] \in Seq(Ptr)
  BY DEF TypeOK
<1> QED
  BY <1>1, EntriesOf DEF Cached

(* The caches after one of them, that of d, has become s.                  *)
LEMMA CacheBecomes ==
    ASSUME TypeOK, NEW d \in DbId, NEW s \in Seq(Ptr), Len(s) <= CacheLimit,
           cache' = [cache EXCEPT ![d] = s]
    PROVE  /\ cache' \in [DbId -> Seq(Ptr)]
           /\ \A e \in DbId : Len(cache'[e]) <= CacheLimit
           /\ cache'[d] = s
           /\ \A x : x \in Cached(d)' <=> x \in ToSet(s)
           /\ \A e \in DbId : e # d => cache'[e] = cache[e] /\ Cached(e)' = Cached(e)
<1>1. /\ cache \in [DbId -> Seq(Ptr)] /\ \A e \in DbId : Len(cache[e]) <= CacheLimit
  BY DEF TypeOK
<1>2. cache'[d] = s /\ \A e \in DbId : e # d => cache'[e] = cache[e]
  BY <1>1
<1> QED
  BY <1>1, <1>2 DEF Cached

(* release finalizes the statement, or keeps it and finalizes the entries  *)
(* there is no room for: whatever it had or was given is now in the cache  *)
(* or finalized.                                                           *)
LEMMA ReleaseFacts ==
    ASSUME TypeOK, CacheInv, NEW d \in DbId, NEW p \in Ptr,
           home[p] = d, p \notin Cached(d), Release(d, p), sessions' = sessions
    PROVE  \E gone \in SUBSET (Cached(d) \cup {p}) :
              /\ FinalizeAll(gone)
              /\ \A x : x \in Cached(d)' <=> x \in Cached(d) \cup {p} /\ x \notin gone
              /\ \A e \in DbId : e # d => Cached(e)' = Cached(e)
              /\ cache' \in [DbId -> Seq(Ptr)]
              /\ \A e \in DbId : Len(cache'[e]) <= CacheLimit
              /\ CacheInv'
<1>1. CASE ~ Cacheable(d, p) \/ SecondCopy(d, p)
  <2>1. FinalizeAll({p}) /\ cache' = cache
    BY <1>1 DEF Release
  <2>2. \A e \in DbId : cache'[e] = cache[e] /\ Cached(e)' = Cached(e)
    BY <2>1 DEF Cached
  <2>3. ASSUME NEW e \in DbId, NEW x \in Cached(e)
        PROVE  home'[x] = home[x] /\ text'[x] = text[x]
    <3>1. x \in Ptr /\ home[x] = e
      BY <2>3, CachedFacts DEF CacheInv
    <3>2. x # p
      BY <3>1
    <3> QED
      BY <3>1, <3>2, <2>1 DEF FinalizeAll
  <2>4. CacheInv'
    BY <2>2, <2>3 DEF CacheInv
  <2>5. cache \in [DbId -> Seq(Ptr)] /\ \A e \in DbId : Len(cache[e]) <= CacheLimit
    BY DEF TypeOK
  <2> QED
    BY <2>1, <2>2, <2>4, <2>5
<1>2. CASE ~ (~ Cacheable(d, p) \/ SecondCopy(d, p))
  <2> DEFINE all == Append(cache[d], p)
             k == Excess(all)
             kept == SubSeq(all, k + 1, Len(all))
             out == SubSeq(all, 1, k)
  <2>1. cache' = [cache EXCEPT ![d] = kept] /\ FinalizeAll(ToSet(out))
    BY <1>2 DEF Release
  <2>2. d \in sessions /\ text[p] \in Whole /\ Hit(d, text[p]) = {}
    BY <1>2 DEF Cacheable, SecondCopy
  <2>3. /\ cache[d] \in Seq(Ptr) /\ Len(cache[d]) \in Nat /\ Len(cache[d]) <= CacheLimit
        /\ CacheLimit \in Nat
    BY LimitAssumption DEF TypeOK
  <2>4. /\ all \in Seq(Ptr) /\ Len(all) = Len(cache[d]) + 1
        /\ all[Len(all)] = p
        /\ \A i \in 1..Len(cache[d]) : all[i] = cache[d][i]
    BY <2>3
  <2>5. \A x : x \in ToSet(all) <=> x \in Cached(d) \/ x = p
    <3>1. \A x : x \in ToSet(all) <=> \E i \in 1..Len(all) : all[i] = x
      <4>1. PICK a : a = all
        OBVIOUS
      <4>2. a \in Seq(Ptr)
        BY <2>4, <4>1
      <4>3. \A x : x \in ToSet(a) <=> \E i \in 1..Len(a) : a[i] = x
        BY <4>2, EntriesOf
      <4> QED
        BY <4>1, <4>3, Zenon
    <3>2. \A x : x \in Cached(d) <=> \E i \in 1..Len(cache[d]) : cache[d][i] = x
      BY CachedFacts
    <3>3. ASSUME NEW i \in 1..Len(all) PROVE all[i] \in Cached(d) \/ all[i] = p
      <4>1. i = Len(all) \/ i \in 1..Len(cache[d])
        BY <2>3, <2>4
      <4> QED
        BY <4>1, <3>2, <2>4
    <3>4. ASSUME NEW i \in 1..Len(cache[d])
          PROVE  i \in 1..Len(all) /\ all[i] = cache[d][i]
      BY <2>3, <2>4
    <3>5. Len(all) \in 1..Len(all)
      BY <2>3, <2>4
    <3>6. all[Len(all)] = p
      BY <2>4
    <3> HIDE DEF all
    <3> QED
      BY <3>1, <3>2, <3>3, <3>4, <3>5, <3>6
  <2>6. \A i, j \in 1..Len(all) : all[i] = all[j] => i = j
    <3>1. \A i \in 1..Len(cache[d]) : all[i] # p
      BY <2>4, CachedFacts
    <3>2. \A i, j \in 1..Len(cache[d]) : cache[d][i] = cache[d][j] => i = j
      BY DEF CacheInv
    <3>3. \A i \in 1..Len(all) : i = Len(all) \/ i \in 1..Len(cache[d])
      BY <2>3, <2>4
    <3>4. ASSUME NEW i \in 1..Len(all), NEW j \in 1..Len(all), all[i] = all[j]
          PROVE  i = j
      <4>1. CASE i \in 1..Len(cache[d]) /\ j \in 1..Len(cache[d])
        BY <4>1, <3>2, <3>4, <2>4
      <4>2. CASE i = Len(all) /\ j = Len(all)
        BY <4>2
      <4>3. CASE i \in 1..Len(cache[d]) /\ j = Len(all)
        BY <4>3, <3>1, <3>4, <2>4
      <4>4. CASE i = Len(all) /\ j \in 1..Len(cache[d])
        BY <4>4, <3>1, <3>4, <2>4
      <4> QED
        BY <3>3, <4>1, <4>2, <4>3, <4>4
    <3> QED
      BY <3>4, Zenon
  <2>7. k \in 0..Len(all) /\ Len(all) - k <= CacheLimit
    BY <2>3, <2>4 DEF Excess
  <2> HIDE DEF all, k
  <2>8. /\ kept \in Seq(Ptr) /\ Len(kept) = Len(all) - k
        /\ \A i \in 1..(Len(all) - k) : kept[i] = all[k + i]
    BY <2>3, <2>4, <2>7
  <2>9. /\ out \in Seq(Ptr) /\ Len(out) = k
        /\ \A i \in 1..k : out[i] = all[i]
    BY <2>3, <2>4, <2>7
  <2> HIDE DEF kept, out
  <2>10. \A x : x \in ToSet(kept) <=> x \in ToSet(all) /\ x \notin ToSet(out)
    <3>1. /\ \A x : x \in ToSet(kept) <=> \E i \in 1..Len(kept) : kept[i] = x
          /\ \A x : x \in ToSet(out) <=> \E i \in 1..Len(out) : out[i] = x
          /\ \A x : x \in ToSet(all) <=> \E i \in 1..Len(all) : all[i] = x
      BY <2>4, <2>8, <2>9, EntriesOf
    <3>2. ASSUME NEW i \in 1..Len(kept)
          PROVE  kept[i] \in ToSet(all) /\ kept[i] \notin ToSet(out)
      <4>1. k + i \in 1..Len(all) /\ kept[i] = all[k + i] /\ k + i > k
        BY <2>3, <2>4, <2>7, <2>8
      <4>2. ASSUME NEW j \in 1..Len(out) PROVE out[j] # kept[i]
        <5>1. j \in 1..Len(all) /\ out[j] = all[j] /\ j # k + i
          BY <2>3, <2>4, <2>7, <2>9, <4>1
        <5> QED
          BY <5>1, <4>1, <2>6
      <4> QED
        BY <4>1, <4>2, <3>1
    <3>3. ASSUME NEW i \in 1..Len(all), all[i] \notin ToSet(out)
          PROVE  all[i] \in ToSet(kept)
      <4>1. i > k
        BY <3>1, <3>3, <2>3, <2>4, <2>7, <2>9
      <4>2. i - k \in 1..Len(kept) /\ k + (i - k) = i
        BY <4>1, <2>3, <2>4, <2>7, <2>8
      <4> QED
        BY <4>2, <2>8, <3>1
    <3> QED
      BY <3>1, <3>2, <3>3
  <2>11. \A i, j \in 1..Len(kept) : kept[i] = kept[j] => i = j
    <3>1. ASSUME NEW i \in 1..Len(kept)
          PROVE  k + i \in 1..Len(all) /\ kept[i] = all[k + i]
      <4>1. Len(all) \in Nat /\ k \in 0..Len(all) /\ i \in 1..(Len(all) - k)
        BY <2>3, <2>4, <2>7, <2>8
      <4>2. k + i \in 1..Len(all)
        BY <4>1
      <4>3. kept[i] = all[k + i]
        BY <4>1, <2>8
      <4> QED
        BY <4>2, <4>3
    <3>2. ASSUME NEW i \in 1..Len(kept), NEW j \in 1..Len(kept), kept[i] = kept[j]
          PROVE  i = j
      <4>1. k + i = k + j
        BY <3>1, <3>2, <2>6
      <4> QED
        BY <4>1, <2>3, <2>4, <2>7, <2>8
    <3> QED
      BY <3>2
  <2>12. ToSet(out) \in SUBSET (Cached(d) \cup {p})
    <3>1. ASSUME NEW x \in ToSet(out) PROVE x \in ToSet(all)
      <4>1. PICK i \in 1..Len(out) : out[i] = x
        BY <2>9, EntriesOf
      <4>2. i \in 1..Len(all) /\ all[i] = x
        BY <4>1, <2>3, <2>4, <2>7, <2>9
      <4> QED
        BY <4>2, <2>4, EntriesOf
    <3> QED
      BY <3>1, <2>5
  <2>13. /\ cache' \in [DbId -> Seq(Ptr)]
         /\ \A e \in DbId : Len(cache'[e]) <= CacheLimit
         /\ cache'[d] = kept
         /\ \A x : x \in Cached(d)' <=> x \in ToSet(kept)
         /\ \A e \in DbId : e # d => cache'[e] = cache[e] /\ Cached(e)' = Cached(e)
    <3>1. kept \in Seq(Ptr) /\ Len(kept) <= CacheLimit
      BY <2>7, <2>8
    <3> QED
      BY <2>1, <3>1, CacheBecomes
  <2>14. ASSUME NEW e \in DbId, NEW x \in Cached(e)'
         PROVE  /\ e \in sessions /\ home[x] = e /\ text[x] \in Whole
                /\ home'[x] = home[x] /\ text'[x] = text[x]
    <3>1. CASE e = d
      <4>1. x \in Cached(d) \cup {p} /\ x \notin ToSet(out)
        BY <3>1, <2>5, <2>10, <2>13
      <4>2. x \in Ptr /\ home[x] = e /\ text[x] \in Whole
        BY <4>1, <3>1, <2>2, CachedFacts DEF CacheInv
      <4> QED
        BY <4>1, <4>2, <3>1, <2>1, <2>2 DEF FinalizeAll
    <3>2. CASE e # d
      <4>1. x \in Cached(e)
        BY <3>2, <2>13
      <4>2. e \in sessions /\ x \in Ptr /\ home[x] = e /\ text[x] \in Whole
        BY <4>1, CachedFacts DEF CacheInv
      <4>3. x \notin ToSet(out)
        BY <4>2, <3>2, <2>12 DEF CacheInv
      <4> QED
        BY <4>2, <4>3, <2>1 DEF FinalizeAll
    <3> QED
      BY <3>1, <3>2
  <2>15. ASSUME NEW e \in DbId, NEW x \in Cached(e)', NEW y \in Cached(e)', text[x] = text[y]
         PROVE  x = y
    <3>1. CASE e = d
      <4>1. x \in Cached(d) \cup {p} /\ y \in Cached(d) \cup {p}
        BY <3>1, <2>5, <2>10, <2>13
      <4>2. \A z \in Cached(d) : text[z] # text[p]
        BY <2>2 DEF Hit
      <4> QED
        BY <4>1, <4>2, <2>15 DEF CacheInv
    <3>2. CASE e # d
      BY <3>2, <2>13, <2>15 DEF CacheInv
    <3> QED
      BY <3>1, <3>2
  <2>16. CacheInv'
    <3>1. \A e \in DbId : \A i, j \in 1..Len(cache'[e]) :
             cache'[e][i] = cache'[e][j] => i = j
      BY <2>11, <2>13 DEF CacheInv
    <3> QED
      BY <3>1, <2>14, <2>15 DEF CacheInv
  <2> QED
    BY <2>1, <2>5, <2>10, <2>12, <2>13, <2>16
<1> QED
  BY <1>1, <1>2

(* prepareOne hands out a statement that was cached, and no longer is, or  *)
(* one at an address that was free.                                        *)
LEMMA PrepareOneFacts ==
    ASSUME TypeOK, CacheInv, NEW d \in DbId, d \in sessions, NEW q \in Sql,
           NEW p \in Ptr, PrepareOne(d, q, p), sessions' = sessions
    PROVE  /\ p \in Cached(d) \/ p \notin Live
           /\ home' \in [Ptr -> DbId \cup {None}]
           /\ text' \in [Ptr -> Sql \cup {None}]
           /\ home'[p] = d /\ \A x \in Ptr : x # p => home'[x] = home[x]
           /\ \A x : x \in Cached(d)' <=> x \in Cached(d) /\ x # p
           /\ \A e \in DbId : e # d => Cached(e)' = Cached(e)
           /\ cache' \in [DbId -> Seq(Ptr)]
           /\ \A e \in DbId : Len(cache'[e]) <= CacheLimit
           /\ CacheInv'
<1>1. /\ cache \in [DbId -> Seq(Ptr)] /\ \A e \in DbId : Len(cache[e]) <= CacheLimit
      /\ home \in [Ptr -> DbId \cup {None}]
      /\ text \in [Ptr -> Sql \cup {None}]
      /\ CacheLimit \in Nat
  BY LimitAssumption DEF TypeOK
<1>2. CASE Hit(d, q) # {}
  <2>1. /\ p \in Cached(d) /\ home' = home /\ text' = text
        /\ cache' = [cache EXCEPT ![d] = Without(cache[d], p)]
    BY <1>2 DEF PrepareOne, Hit, TakeOut
  <2>2. home[p] = d
    BY <2>1 DEF CacheInv
  <2> DEFINE s == Without(cache[d], p)
  <2>3. /\ s \in Seq(Ptr) /\ Len(s) <= Len(cache[d])
        /\ \A x : x \in ToSet(s) <=> x \in ToSet(cache[d]) /\ x # p
        /\ \A i, j \in 1..Len(s) : s[i] = s[j] => i = j
    <3>1. /\ cache[d] \in Seq(Ptr)
          /\ \A i, j \in 1..Len(cache[d]) : cache[d][i] = cache[d][j] => i = j
      BY CachedFacts DEF CacheInv
    <3> QED
      BY <3>1, WithoutFacts
  <2> HIDE DEF s
  <2>4. /\ cache' \in [DbId -> Seq(Ptr)]
        /\ \A e \in DbId : Len(cache'[e]) <= CacheLimit
        /\ cache'[d] = s
        /\ \A x : x \in Cached(d)' <=> x \in ToSet(s)
        /\ \A e \in DbId : e # d => cache'[e] = cache[e] /\ Cached(e)' = Cached(e)
    <3>1. cache' = [cache EXCEPT ![d] = s]
      BY <2>1 DEF s
    <3>2. Len(s) <= CacheLimit
      BY <2>3, <1>1
    <3> QED
      BY <3>1, <3>2, <2>3, CacheBecomes
  <2>5. \A x : x \in Cached(d)' <=> x \in Cached(d) /\ x # p
    BY <2>3, <2>4 DEF Cached
  <2>6. CacheInv'
    <3>1. \A e \in DbId : \A i, j \in 1..Len(cache'[e]) :
             cache'[e][i] = cache'[e][j] => i = j
      BY <2>3, <2>4 DEF CacheInv
    <3>2. \A e \in DbId : \A x : x \in Cached(e)' => x \in Cached(e)
      BY <2>4, <2>5
    <3> QED
      BY <3>1, <3>2, <2>1 DEF CacheInv
  <2> QED
    BY <1>1, <2>1, <2>2, <2>4, <2>5, <2>6
<1>3. CASE Hit(d, q) = {}
  <2>1. Compile(d, q, p) /\ cache' = cache
    BY <1>3 DEF PrepareOne
  <2>2. /\ home[p] = None /\ p \notin Live
        /\ home' = [home EXCEPT ![p] = d] /\ text' = [text EXCEPT ![p] = q]
    BY <2>1 DEF Compile, Live
  <2>3. /\ home' \in [Ptr -> DbId \cup {None}] /\ text' \in [Ptr -> Sql \cup {None}]
        /\ home'[p] = d
        /\ \A x \in Ptr : x # p => home'[x] = home[x] /\ text'[x] = text[x]
    BY <1>1, <2>2
  <2>4. \A e \in DbId : cache'[e] = cache[e] /\ Cached(e)' = Cached(e)
    BY <2>1 DEF Cached
  <2>5. ASSUME NEW e \in DbId, NEW x \in Cached(e) PROVE x \in Ptr /\ x # p
    <3>1. x \in Ptr /\ home[x] = e
      BY CachedFacts DEF CacheInv
    <3> QED
      BY <3>1, <2>2, NoneAssumption
  <2>6. CacheInv'
    BY <2>3, <2>4, <2>5 DEF CacheInv
  <2> QED
    BY <1>1, <2>1, <2>2, <2>3, <2>4, <2>5, <2>6
<1> QED
  BY <1>2, <1>3

(* discard of a statement that is not cached finalizes it, and that is all. *)
LEMMA DiscardFacts ==
    ASSUME TypeOK, CacheInv, NEW d \in DbId, NEW p \in Ptr,
           home[p] = d, p \notin Cached(d), Discard(d, p), sessions' = sessions
    PROVE  /\ FinalizeAll({p})
           /\ \A x : x \in Cached(d)' <=> x \in Cached(d) \cup {p} /\ x \notin {p}
           /\ \A e \in DbId : e # d => Cached(e)' = Cached(e)
           /\ cache' \in [DbId -> Seq(Ptr)]
           /\ \A e \in DbId : Len(cache'[e]) <= CacheLimit
           /\ CacheInv'
<1>1. /\ cache \in [DbId -> Seq(Ptr)] /\ \A e \in DbId : Len(cache[e]) <= CacheLimit
  BY DEF TypeOK
<1>2. Without(cache[d], p) = cache[d]
  BY DEF Without, Cached
<1>3. cache' = cache /\ FinalizeAll({p})
  BY <1>1, <1>2 DEF Discard
<1>4. \A e \in DbId : cache'[e] = cache[e] /\ Cached(e)' = Cached(e)
  BY <1>3 DEF Cached
<1>5. ASSUME NEW e \in DbId, NEW x \in Cached(e)
      PROVE  home'[x] = home[x] /\ text'[x] = text[x]
  <2>1. x \in Ptr /\ home[x] = e
    BY <1>5, CachedFacts DEF CacheInv
  <2>2. x # p
    BY <2>1
  <2> QED
    BY <2>1, <2>2, <1>3 DEF FinalizeAll
<1>6. CacheInv'
  BY <1>4, <1>5 DEF CacheInv
<1> QED
  BY <1>1, <1>3, <1>4, <1>6

(* sqlite3_finalize, of several statements.                                *)
LEMMA FinalizeFacts ==
    ASSUME TypeOK, NEW gone, FinalizeAll(gone)
    PROVE  /\ home' \in [Ptr -> DbId \cup {None}]
           /\ text' \in [Ptr -> Sql \cup {None}]
           /\ \A x \in Ptr : x \in gone => home'[x] = None
           /\ \A x \in Ptr : x \notin gone => home'[x] = home[x] /\ text'[x] = text[x]
  BY DEF TypeOK, FinalizeAll

-----------------------------------------------------------------------------
(* The parts of the invariant that a step can be shown to keep at once.    *)

(* Nothing that a step compiles, or takes out of a cache, has a keeper     *)
(* elsewhere.                                                              *)
LEMMA NotElsewhere ==
    ASSUME TypeOK, CacheInv, UsingInv, PreparedInv, LostInv, NEW d \in DbId,
           NEW p \in Ptr, p \in Cached(d) \/ p \notin Live
    PROVE  /\ p \notin lost
           /\ \A s \in StmtId : statements[s] # p
           /\ \A e \in DbId : using[e] # p
<1>1. CASE p \in Cached(d)
  <2>1. home[p] = d
    BY <1>1 DEF CacheInv
  <2>2. p # None
    BY NoneAssumption
  <2> QED
    BY <1>1, <2>1, <2>2 DEF UsingInv, PreparedInv, LostInv
<1>2. CASE p \notin Live
  <2>1. home[p] = None /\ p # None
    BY <1>2, NoneAssumption DEF Live
  <2>2. \A e \in DbId : e # None
    BY NoneAssumption
  <2> QED
    BY <1>2, <2>1, <2>2 DEF UsingInv, PreparedInv, LostInv
<1> QED
  BY <1>1, <1>2

(* A keeper of p gives it up, and p goes to the cache of its database or   *)
(* is finalized, with what that cache has no room for.                     *)
LEMMA GivenUp ==
    ASSUME TypeOK, CacheInv, UsingInv, PreparedInv, LostInv, KeptInv,
           NEW d \in DbId, NEW p \in Ptr, home[p] = d, p \notin Cached(d), p \notin lost,
           NEW gone \in SUBSET (Cached(d) \cup {p}), FinalizeAll(gone),
           \A x : x \in Cached(d)' <=> x \in Cached(d) \cup {p} /\ x \notin gone,
           \A e \in DbId : e # d => Cached(e)' = Cached(e),
           using'[d] = None,
           using[d] = None \/ using[d] = p,
           \A e \in DbId : e # d => using'[e] = using[e] /\ owns'[e] = owns[e],
           \A s \in StmtId : statements'[s] # p,
           \A s \in StmtId : statements[s] # p => statements'[s] = statements[s],
           \A s \in StmtId : statements[s] = p => statements'[s] = None,
           lost' = lost, nextStmtId' = nextStmtId
    PROVE  UsingInv' /\ PreparedInv' /\ LostInv' /\ KeptInv'
<1>1. /\ \A x \in Ptr : x \in gone => home'[x] = None
      /\ \A x \in Ptr : x \notin gone => home'[x] = home[x]
  BY FinalizeFacts
<1>2. /\ home \in [Ptr -> DbId \cup {None}] /\ using \in [DbId -> Ptr \cup {None}]
      /\ statements \in [StmtId -> Ptr \cup {None}] /\ lost \subseteq Ptr
  BY DEF TypeOK
<1>3. None \notin Ptr /\ None \notin DbId
  BY NoneAssumption
<1>4. \A x \in Ptr : x # p /\ x \notin Cached(d) => home'[x] = home[x]
  BY <1>1
<1>5. \A e \in DbId : \A x : x \in Cached(e)' => x \in Cached(e) \/ x = p
  OBVIOUS
<1>6. \A x \in Cached(d) : home[x] = d
  BY DEF CacheInv
<1>7. \A x \in Ptr : home'[x] # None => x \notin gone /\ home[x] = home'[x]
  BY <1>1
<1>8. UsingInv'
  <2> SUFFICES ASSUME NEW e \in DbId, using'[e] # None
               PROVE  home'[using'[e]] = e /\ using'[e] \notin Cached(e)'
    BY DEF UsingInv
  <2>1. e # d /\ using'[e] = using[e] /\ using[e] \in Ptr
    BY <1>2
  <2>2. home[using[e]] = e /\ using[e] \notin Cached(e)
    BY <2>1 DEF UsingInv
  <2>3. using[e] # p /\ using[e] \notin Cached(d)
    BY <2>1, <2>2, <1>6
  <2> QED
    BY <2>1, <2>2, <2>3, <1>4
<1>9. PreparedInv'
  <2> SUFFICES ASSUME NEW s \in StmtId, NEW x \in Ptr, statements'[s] = x
               PROVE  /\ x \in Live' \ lost'
                      /\ x \notin Cached(home[x])'
                      /\ using'[home'[x]] = x => ~ owns'[home'[x]]
                      /\ s < nextStmtId' /\ \A t \in StmtId : statements'[t] = x => t = s
    BY DEF PreparedInv
  <2>1. x = statements[s] /\ x # p
    BY <1>2, <1>3
  <2>2. /\ x \in Live \ lost /\ x \notin Cached(home[x])
        /\ using[home[x]] = x => ~ owns[home[x]]
        /\ s < nextStmtId /\ \A t \in StmtId : statements[t] = x => t = s
    BY <2>1, <1>3 DEF PreparedInv
  <2>3. home[x] \in DbId /\ x \notin Cached(d)
    BY <2>2, <1>2, <1>6 DEF Live
  <2>4. home'[x] = home[x] /\ x \in Live'
    BY <2>1, <2>2, <2>3, <1>4 DEF Live
  <2>5. x \notin Cached(home[x])'
    BY <2>1, <2>2, <2>3, <2>4, <1>5
  <2>6. using'[home'[x]] = x => ~ owns'[home'[x]]
    BY <2>2, <2>3, <2>4, <1>3
  <2>7. \A t \in StmtId : statements'[t] = x => t = s
    BY <2>1, <2>2, <1>3
  <2> QED
    BY <2>1, <2>2, <2>4, <2>5, <2>6, <2>7
<1>10. LostInv'
  <2> SUFFICES ASSUME NEW x \in lost
               PROVE  /\ x \in Live' /\ x \notin Cached(home[x])'
                      /\ using'[home'[x]] = x => ~ owns'[home'[x]]
    BY DEF LostInv
  <2>1. /\ x \in Live /\ x \notin Cached(home[x])
        /\ using[home[x]] = x => ~ owns[home[x]]
    BY DEF LostInv
  <2>2. x \in Ptr /\ x # p /\ home[x] \in DbId /\ x \notin Cached(d)
    BY <2>1, <1>2, <1>6 DEF Live
  <2>3. home'[x] = home[x] /\ x \in Live'
    BY <2>1, <2>2, <1>4 DEF Live
  <2>4. x \notin Cached(home[x])'
    BY <2>1, <2>2, <2>3, <1>5
  <2>5. using'[home'[x]] = x => ~ owns'[home'[x]]
    BY <2>1, <2>2, <2>3, <1>3
  <2> QED
    BY <2>3, <2>4, <2>5
<1>11. KeptInv'
  <2> SUFFICES ASSUME NEW x \in Live' \ lost
               PROVE  \/ x \in Cached(home[x])'
                      \/ \E s \in StmtId : statements'[s] = x
                      \/ using'[home'[x]] = x /\ owns'[home'[x]]
    BY DEF KeptInv
  <2>1. x \in Ptr /\ home'[x] = home[x] /\ x \notin gone /\ x \in Live /\ home[x] \in DbId
    BY <1>7, <1>2 DEF Live
  <2>2. CASE x = p \/ x \in Cached(d)
    <3>1. home'[x] = d /\ x \in Cached(d)'
      BY <2>1, <2>2, <1>6
    <3> QED
      BY <3>1
  <2>3. CASE x # p /\ x \notin Cached(d)
    <3>1. \/ x \in Cached(home[x])
          \/ \E s \in StmtId : statements[s] = x
          \/ using[home[x]] = x /\ owns[home[x]]
      BY <2>1 DEF KeptInv
    <3>2. CASE x \in Cached(home[x])
      <4>1. home[x] # d /\ x \in Cached(home[x])'
        BY <3>2, <2>1, <2>3
      <4> QED
        BY <4>1, <2>1
    <3>3. CASE \E s \in StmtId : statements[s] = x
      BY <3>3, <2>3
    <3>4. CASE using[home[x]] = x /\ owns[home[x]]
      <4>1. home[x] # d
        BY <3>4, <2>1, <2>3, <1>3
      <4> QED
        BY <4>1, <3>4, <2>1
    <3> QED
      BY <3>1, <3>2, <3>3, <3>4
  <2> QED
    BY <2>2, <2>3
<1> QED
  BY <1>8, <1>9, <1>10, <1>11

(* A statement that was cached or just compiled gets a keeper, the query   *)
(* of its database or a number of its own.                                 *)
LEMMA HandedOut ==
    ASSUME SessionIInv, NEW d \in DbId, d \in sessions, using[d] = None,
           NEW q \in Sql, NEW p \in Ptr, PrepareOne(d, q, p),
           UNCHANGED <<slotVars, sessions, history>>,
           nextStmtId' \in 1..(MaxStmt + 1),
           \/ /\ using' = [using EXCEPT ![d] = p] /\ owns' = [owns EXCEPT ![d] = TRUE]
              /\ UNCHANGED regVars
           \/ /\ nextStmtId \in StmtId /\ nextStmtId' = nextStmtId + 1
              /\ statements' = [statements EXCEPT ![nextStmtId] = p]
              /\ UNCHANGED useVars
    PROVE  TypeOK' /\ CacheInv' /\ UsingInv' /\ PreparedInv' /\ LostInv' /\ KeptInv'
<1>1. /\ TypeOK /\ CacheInv /\ UsingInv /\ PreparedInv /\ LostInv /\ KeptInv
      /\ UNCHANGED sessions /\ lost' = lost
  BY DEF SessionIInv, history
<1>2. /\ p \in Cached(d) \/ p \notin Live
      /\ home' \in [Ptr -> DbId \cup {None}]
      /\ text' \in [Ptr -> Sql \cup {None}]
      /\ home'[p] = d /\ \A x \in Ptr : x # p => home'[x] = home[x]
      /\ \A x : x \in Cached(d)' <=> x \in Cached(d) /\ x # p
      /\ \A e \in DbId : e # d => Cached(e)' = Cached(e)
      /\ cache' \in [DbId -> Seq(Ptr)]
      /\ \A e \in DbId : Len(cache'[e]) <= CacheLimit
      /\ CacheInv'
  BY <1>1, PrepareOneFacts
<1>3. /\ p \notin lost /\ \A s \in StmtId : statements[s] # p
      /\ \A e \in DbId : using[e] # p
  BY <1>1, <1>2, NotElsewhere
<1>4. /\ home \in [Ptr -> DbId \cup {None}] /\ using \in [DbId -> Ptr \cup {None}]
      /\ statements \in [StmtId -> Ptr \cup {None}] /\ lost \subseteq Ptr
      /\ owns \in [DbId -> BOOLEAN] /\ None \notin Ptr /\ None \notin DbId
  BY <1>1, NoneAssumption DEF TypeOK
<1>5. /\ \A e \in DbId : \A x : x \in Cached(e)' => x \in Cached(e)
      /\ \A e \in DbId : \A x : x \in Cached(e) /\ x # p => x \in Cached(e)'
  BY <1>2
<1>6. /\ \A e \in DbId : e # d => using'[e] = using[e] /\ owns'[e] = owns[e]
      /\ \/ using'[d] = p /\ owns'[d] = TRUE /\ UNCHANGED regVars
         \/ /\ using' = using /\ owns' = owns
            /\ nextStmtId \in StmtId /\ nextStmtId' = nextStmtId + 1
            /\ statements'[nextStmtId] = p
            /\ \A t \in StmtId : t # nextStmtId => statements'[t] = statements[t]
  BY <1>4 DEF useVars
<1>7. TypeOK'
  <2>1. /\ using' \in [DbId -> Ptr \cup {None}] /\ owns' \in [DbId -> BOOLEAN]
        /\ statements' \in [StmtId -> Ptr \cup {None}]
    BY <1>4 DEF useVars, regVars
  <2> QED
    BY <1>1, <1>2, <2>1 DEF TypeOK, slotVars, history
<1>8. UsingInv'
  <2> SUFFICES ASSUME NEW e \in DbId, using'[e] # None
               PROVE  home'[using'[e]] = e /\ using'[e] \notin Cached(e)'
    BY DEF UsingInv
  <2>1. CASE e = d
    BY <2>1, <1>2, <1>6
  <2>2. CASE e # d
    <3>1. using'[e] = using[e] /\ using[e] \in Ptr /\ using[e] # p
      BY <2>2, <1>3, <1>4, <1>6
    <3>2. home[using[e]] = e /\ using[e] \notin Cached(e)
      BY <3>1, <1>1, <1>4 DEF UsingInv
    <3> QED
      BY <3>1, <3>2, <1>2, <1>5
  <2> QED
    BY <2>1, <2>2
<1>9. PreparedInv'
  <2> SUFFICES ASSUME NEW s \in StmtId, NEW x \in Ptr, statements'[s] = x
               PROVE  /\ x \in Live' \ lost'
                      /\ x \notin Cached(home[x])'
                      /\ using'[home'[x]] = x => ~ owns'[home'[x]]
                      /\ s < nextStmtId' /\ \A t \in StmtId : statements'[t] = x => t = s
    BY DEF PreparedInv
  <2>1. CASE x = p
    <3>1. s = nextStmtId /\ using' = using /\ nextStmtId' = nextStmtId + 1
      BY <2>1, <1>3, <1>6 DEF regVars
    <3>2. x \in Live' /\ x \notin Cached(home[x])'
      BY <2>1, <1>2, <1>4 DEF Live
    <3>3. using'[home'[x]] # x
      BY <2>1, <3>1, <1>2, <1>3
    <3>4. \A t \in StmtId : statements'[t] = x => t = s
      BY <2>1, <3>1, <1>3, <1>6 DEF regVars
    <3>5. s < nextStmtId'
      BY <3>1 DEF StmtId
    <3> QED
      BY <2>1, <3>2, <3>3, <3>4, <3>5, <1>1, <1>3
  <2>2. CASE x # p
    <3>1. statements[s] = x
      BY <2>2, <1>6 DEF regVars
    <3>2. /\ x \in Live \ lost /\ x \notin Cached(home[x])
          /\ using[home[x]] = x => ~ owns[home[x]]
          /\ s < nextStmtId /\ \A t \in StmtId : statements[t] = x => t = s
      BY <3>1, <1>1 DEF PreparedInv
    <3>3. home'[x] = home[x] /\ home[x] \in DbId /\ x \in Live'
      BY <2>2, <3>2, <1>2, <1>4 DEF Live
    <3>4. x \notin Cached(home[x])'
      BY <3>2, <3>3, <1>5
    <3>5. using'[home'[x]] = x => ~ owns'[home'[x]]
      BY <2>2, <3>2, <3>3, <1>6
    <3>6. \A t \in StmtId : statements'[t] = x => t = s
      BY <2>2, <3>2, <1>6 DEF regVars
    <3>7. s < nextStmtId'
      <4>1. nextStmtId \in Nat /\ nextStmtId' \in {nextStmtId, nextStmtId + 1}
        BY <1>1, <1>6, BoundsAssumption DEF regVars, TypeOK
      <4> QED
        BY <4>1, <3>2 DEF StmtId
    <3> QED
      BY <3>2, <3>3, <3>4, <3>5, <3>6, <3>7, <1>1
  <2> QED
    BY <2>1, <2>2
<1>10. LostInv'
  <2> SUFFICES ASSUME NEW x \in lost
               PROVE  /\ x \in Live' /\ x \notin Cached(home[x])'
                      /\ using'[home'[x]] = x => ~ owns'[home'[x]]
    BY <1>1 DEF LostInv
  <2>1. /\ x \in Live /\ x \notin Cached(home[x])
        /\ using[home[x]] = x => ~ owns[home[x]]
    BY <1>1 DEF LostInv
  <2>2. x \in Ptr /\ x # p /\ home'[x] = home[x] /\ home[x] \in DbId
    BY <2>1, <1>2, <1>3, <1>4 DEF Live
  <2>3. x \in Live'
    BY <2>1, <2>2 DEF Live
  <2>4. x \notin Cached(home[x])'
    BY <2>1, <2>2, <1>5
  <2>5. using'[home'[x]] = x => ~ owns'[home'[x]]
    BY <2>1, <2>2, <1>6
  <2> QED
    BY <2>3, <2>4, <2>5
<1>11. KeptInv'
  <2> SUFFICES ASSUME NEW x \in Live' \ lost
               PROVE  \/ x \in Cached(home[x])'
                      \/ \E s \in StmtId : statements'[s] = x
                      \/ using'[home'[x]] = x /\ owns'[home'[x]]
    BY <1>1 DEF KeptInv
  <2>1. CASE x = p
    BY <2>1, <1>2, <1>6
  <2>2. CASE x # p
    <3>1. x \in Ptr /\ home'[x] = home[x] /\ home[x] \in DbId /\ x \in Live
      BY <2>2, <1>2, <1>4 DEF Live
    <3>2. \/ x \in Cached(home[x])
          \/ \E s \in StmtId : statements[s] = x
          \/ using[home[x]] = x /\ owns[home[x]]
      BY <3>1, <1>1 DEF KeptInv
    <3>3. CASE x \in Cached(home[x])
      BY <3>1, <3>3, <2>2, <1>5
    <3>4. CASE \E s \in StmtId : statements[s] = x
      <4>1. PICK s \in StmtId : statements[s] = x
        BY <3>4
      <4>2. s < nextStmtId
        BY <4>1, <3>1, <1>1 DEF PreparedInv
      <4>3. s # nextStmtId
        BY <4>2 DEF StmtId
      <4>4. statements'[s] = x
        BY <4>1, <4>3, <1>6 DEF regVars
      <4> QED
        BY <4>4
    <3>5. CASE using[home[x]] = x /\ owns[home[x]]
      <4>1. home[x] # d
        BY <3>1, <3>5, <1>4
      <4> QED
        BY <4>1, <3>1, <3>5, <1>6
    <3> QED
      BY <3>2, <3>3, <3>4, <3>5
  <2> QED
    BY <2>1, <2>2
<1> QED
  BY <1>2, <1>7, <1>8, <1>9, <1>10, <1>11

(* What the handlers of queries and statements leave alone.                *)
LEMMA SlotsKept ==
    ASSUME SlotsPartition, OpenInv, UNCHANGED <<slotVars, sessions, shut>>
    PROVE  SlotsPartition' /\ OpenInv'
  BY DEF SlotsPartition, OpenInv, HeldSlots, slotVars

(* What OPEN leaves alone.                                                 *)
LEMMA StatementsKept ==
    ASSUME CacheInv, UsingInv, PreparedInv, LostInv, KeptInv,
           UNCHANGED <<useVars, regVars, stmtVars, lost>>, sessions \subseteq sessions'
    PROVE  CacheInv' /\ UsingInv' /\ PreparedInv' /\ LostInv' /\ KeptInv'
<1>1. /\ cache' = cache /\ home' = home /\ text' = text /\ using' = using
      /\ owns' = owns /\ statements' = statements /\ nextStmtId' = nextStmtId
      /\ lost' = lost
  BY DEF useVars, regVars, stmtVars
<1>2. Live' = Live /\ \A d : Cached(d)' = Cached(d)
  BY <1>1 DEF Live, Cached
<1>3. CacheInv'
  BY <1>1, <1>2 DEF CacheInv
<1>4. UsingInv'
  BY <1>1, <1>2 DEF UsingInv
<1>5. PreparedInv'
  BY <1>1, <1>2 DEF PreparedInv
<1>6. LostInv'
  BY <1>1, <1>2 DEF LostInv
<1>7. KeptInv'
  BY <1>1, <1>2 DEF KeptInv
<1> QED
  BY <1>3, <1>4, <1>5, <1>6, <1>7

-----------------------------------------------------------------------------
(* The slots.                                                              *)

(* The last entry of a sequence of distinct entries, and the others.       *)
LEMMA LastAndFront ==
    ASSUME NEW S, NEW s \in Seq(S), s # <<>>,
           \A i, j \in 1..Len(s) : s[i] = s[j] => i = j
    PROVE  /\ Last(s) \in ToSet(s) /\ Front(s) \in Seq(S)
           /\ \A x : x \in ToSet(Front(s)) <=> x \in ToSet(s) /\ x # Last(s)
           /\ \A i, j \in 1..Len(Front(s)) : Front(s)[i] = Front(s)[j] => i = j
<1>1. Len(s) \in Nat /\ Len(s) >= 1 /\ Last(s) = s[Len(s)]
  BY DEF Last
<1>2. /\ Front(s) \in Seq(S) /\ Len(Front(s)) = Len(s) - 1
      /\ \A i \in 1..(Len(s) - 1) : Front(s)[i] = s[i]
  <2> DEFINE n == Len(s) - 1
  <2>1. n \in Nat /\ n <= Len(s) /\ Front(s) = SubSeq(s, 1, n)
    BY <1>1 DEF Front
  <2>2. \A i \in 1..n : s[i] \in S
    BY <1>1
  <2> HIDE DEF n
  <2>3. /\ SubSeq(s, 1, n) \in Seq(S) /\ Len(SubSeq(s, 1, n)) = n
        /\ \A i \in 1..n : SubSeq(s, 1, n)[i] = s[i]
    BY <1>1, <2>1, <2>2
  <2> QED
    BY <2>1, <2>3 DEF n
<1>3. \A i, j \in 1..Len(Front(s)) : Front(s)[i] = Front(s)[j] => i = j
  BY <1>1, <1>2
<1>4. /\ \A x : x \in ToSet(s) <=> \E i \in 1..Len(s) : s[i] = x
      /\ \A x : x \in ToSet(Front(s)) <=> \E i \in 1..Len(Front(s)) : Front(s)[i] = x
  BY <1>2, EntriesOf
<1>5. Last(s) \in ToSet(s)
  BY <1>1, <1>4
<1>6. \A i \in 1..Len(s) : i = Len(s) \/ i \in 1..(Len(s) - 1)
  BY <1>1
<1>7. \A i \in 1..(Len(s) - 1) : i \in 1..Len(s) /\ i # Len(s)
  BY <1>1
<1>8. ASSUME NEW x \in ToSet(Front(s)) PROVE x \in ToSet(s) /\ x # Last(s)
  <2>1. PICK i \in 1..Len(Front(s)) : Front(s)[i] = x
    BY <1>4
  <2>2. i \in 1..(Len(s) - 1) /\ s[i] = x
    BY <2>1, <1>2
  <2>3. Len(s) \in 1..Len(s)
    BY <1>1
  <2>4. i \in 1..Len(s) /\ s[i] # s[Len(s)]
    BY <2>2, <2>3, <1>7
  <2> QED
    BY <2>2, <2>4, <1>1, <1>4
<1>9. ASSUME NEW x \in ToSet(s), x # Last(s) PROVE x \in ToSet(Front(s))
  BY <1>1, <1>2, <1>4, <1>6, <1>9
<1> QED
  BY <1>2, <1>3, <1>5, <1>8, <1>9

(* A new entry after distinct entries.                                     *)
LEMMA Appended ==
    ASSUME NEW S, NEW s \in Seq(S), NEW y \in S, y \notin ToSet(s),
           \A i, j \in 1..Len(s) : s[i] = s[j] => i = j
    PROVE  /\ Append(s, y) \in Seq(S)
           /\ \A x : x \in ToSet(Append(s, y)) <=> x \in ToSet(s) \/ x = y
           /\ \A i, j \in 1..Len(Append(s, y)) :
                 Append(s, y)[i] = Append(s, y)[j] => i = j
<1> DEFINE t == Append(s, y)
<1>1. /\ t \in Seq(S) /\ Len(s) \in Nat /\ Len(t) = Len(s) + 1
      /\ t[Len(t)] = y /\ \A i \in 1..Len(s) : t[i] = s[i]
  OBVIOUS
<1> HIDE DEF t
<1>2. /\ \A x : x \in ToSet(s) <=> \E i \in 1..Len(s) : s[i] = x
      /\ \A x : x \in ToSet(t) <=> \E i \in 1..Len(t) : t[i] = x
  BY <1>1, EntriesOf
<1>3. \A i : i \in 1..Len(t) <=> i = Len(t) \/ i \in 1..Len(s)
  BY <1>1
<1>4. \A x : x \in ToSet(t) <=> x \in ToSet(s) \/ x = y
  BY <1>1, <1>2, <1>3
<1>5. \A i \in 1..Len(s) : s[i] # y
  BY <1>2
<1>6. \A i, j \in 1..Len(t) : t[i] = t[j] => i = j
  BY <1>1, <1>3, <1>5
<1> QED
  BY <1>1, <1>4, <1>6 DEF t

(* OPEN takes the last free slot.                                          *)
LEMMA OpenStartKeeps == ASSUME SessionIInv, OpenStart PROVE SessionIInv'
<1>1. /\ TypeOK /\ OpenInv /\ SlotsPartition
      /\ CacheInv /\ UsingInv /\ PreparedInv /\ LostInv /\ KeptInv
  BY DEF SessionIInv
<1>2. /\ opening = None /\ nextDbId \in DbId /\ freeSlots # <<>>
      /\ opening' = Last(freeSlots) /\ freeSlots' = Front(freeSlots)
      /\ nextDbId' = nextDbId /\ slot' = slot /\ sessions' = sessions /\ shut' = shut
      /\ UNCHANGED <<useVars, regVars, stmtVars, lost>>
  BY DEF OpenStart, history
<1>3. /\ freeSlots \in Seq(Slot) /\ \A d \in sessions : slot[d] \in Slot
      /\ \A i, j \in 1..Len(freeSlots) : freeSlots[i] = freeSlots[j] => i = j
  BY <1>1 DEF TypeOK, OpenInv, SlotsPartition
<1>4. /\ Last(freeSlots) \in ToSet(freeSlots) /\ Front(freeSlots) \in Seq(Slot)
      /\ \A x : x \in ToSet(Front(freeSlots)) <=> x \in ToSet(freeSlots) /\ x # Last(freeSlots)
      /\ \A i, j \in 1..Len(Front(freeSlots)) :
            Front(freeSlots)[i] = Front(freeSlots)[j] => i = j
  BY <1>2, <1>3, LastAndFront
<1>5. Last(freeSlots) \in Slot /\ Last(freeSlots) # None
  BY <1>3, <1>4, EntriesOf, NoneAssumption
<1>6. TypeOK'
  BY <1>1, <1>2, <1>4, <1>5 DEF TypeOK, useVars, regVars, stmtVars
<1>7. HeldSlots' = HeldSlots \cup {Last(freeSlots)}
  BY <1>2, <1>5 DEF HeldSlots
<1>8. SlotsPartition' /\ OpenInv'
  <2>1. \A d \in sessions' : slot'[d] # opening'
    BY <1>1, <1>2, <1>4 DEF SlotsPartition, HeldSlots
  <2>2. HeldSlots' \cap ToSet(freeSlots') = {}
    BY <1>1, <1>2, <1>4, <1>7 DEF SlotsPartition
  <2>3. shut' \/ HeldSlots' \cup ToSet(freeSlots') = Slot
    BY <1>1, <1>2, <1>4, <1>7 DEF SlotsPartition
  <2> QED
    BY <1>1, <1>2, <1>4, <2>1, <2>2, <2>3 DEF SlotsPartition, OpenInv
<1> QED
  BY <1>1, <1>2, <1>6, <1>8, StatementsKept DEF SessionIInv

(* An OPEN that fails gives its slot back.                                 *)
LEMMA OpenFailKeeps == ASSUME SessionIInv, OpenFail PROVE SessionIInv'
<1>1. /\ TypeOK /\ OpenInv /\ SlotsPartition
      /\ CacheInv /\ UsingInv /\ PreparedInv /\ LostInv /\ KeptInv
  BY DEF SessionIInv
<1>2. /\ opening # None /\ opening' = None /\ freeSlots' = Append(freeSlots, opening)
      /\ nextDbId' = nextDbId /\ slot' = slot /\ sessions' = sessions /\ shut' = shut
      /\ UNCHANGED <<useVars, regVars, stmtVars, lost>>
  BY DEF OpenFail, history
<1>3. /\ freeSlots \in Seq(Slot) /\ opening \in Slot /\ opening \in HeldSlots
      /\ \A d \in sessions : slot[d] \in Slot /\ slot[d] # None /\ slot[d] # opening
      /\ \A i, j \in 1..Len(freeSlots) : freeSlots[i] = freeSlots[j] => i = j
      /\ HeldSlots \cap ToSet(freeSlots) = {}
  BY <1>1, <1>2, NoneAssumption DEF TypeOK, OpenInv, SlotsPartition, HeldSlots
<1>4. /\ Append(freeSlots, opening) \in Seq(Slot)
      /\ \A x : x \in ToSet(Append(freeSlots, opening)) <=> x \in ToSet(freeSlots) \/ x = opening
      /\ \A i, j \in 1..Len(Append(freeSlots, opening)) :
            Append(freeSlots, opening)[i] = Append(freeSlots, opening)[j] => i = j
  <2>1. opening \in Slot /\ opening \notin ToSet(freeSlots)
    BY <1>3
  <2> QED
    BY <2>1, <1>3, Appended
<1>5. TypeOK'
  BY <1>1, <1>2, <1>4 DEF TypeOK, useVars, regVars, stmtVars
<1>6. HeldSlots' = HeldSlots \ {opening}
  BY <1>2, <1>3 DEF HeldSlots
<1>7. SlotsPartition' /\ OpenInv'
  <2>1. HeldSlots' \cap ToSet(freeSlots') = {}
    BY <1>2, <1>3, <1>4, <1>6
  <2>2. shut' \/ HeldSlots' \cup ToSet(freeSlots') = Slot
    BY <1>1, <1>2, <1>3, <1>4, <1>6 DEF SlotsPartition
  <2> QED
    BY <1>1, <1>2, <1>3, <1>4, <2>1, <2>2 DEF SlotsPartition, OpenInv
<1> QED
  BY <1>1, <1>2, <1>5, <1>7, StatementsKept DEF SessionIInv

(* The database that OPEN opened keeps the slot.                           *)
LEMMA OpenDoneKeeps == ASSUME SessionIInv, OpenDone PROVE SessionIInv'
<1>1. /\ TypeOK /\ OpenInv /\ SlotsPartition
      /\ CacheInv /\ UsingInv /\ PreparedInv /\ LostInv /\ KeptInv
  BY DEF SessionIInv
<1>2. /\ opening # None /\ opening' = None /\ freeSlots' = freeSlots
      /\ nextDbId' = nextDbId + 1 /\ slot' = [slot EXCEPT ![nextDbId] = opening]
      /\ sessions' = sessions \cup {nextDbId} /\ shut' = shut
      /\ UNCHANGED <<useVars, regVars, stmtVars, lost>>
  BY DEF OpenDone, history
<1>3. /\ nextDbId \in DbId /\ opening \in Slot /\ slot \in [DbId -> Slot \cup {None}]
      /\ \A d \in sessions : d \in DbId /\ d \in 1..(nextDbId - 1)
      /\ \A d \in sessions : slot[d] \in Slot
  BY <1>1, <1>2 DEF TypeOK, OpenInv
<1>4. nextDbId \in Nat /\ nextDbId \notin sessions /\ nextDbId <= MaxDb
  BY <1>3 DEF DbId
<1>5. /\ slot' \in [DbId -> Slot \cup {None}] /\ slot'[nextDbId] = opening
      /\ \A d \in sessions : slot'[d] = slot[d]
  BY <1>2, <1>3, <1>4
<1>6. nextDbId' \in 1..(MaxDb + 1) /\ sessions' \in SUBSET (DbId \cap 1..(nextDbId' - 1))
  BY <1>2, <1>3, <1>4, BoundsAssumption DEF DbId
<1>7. TypeOK'
  BY <1>1, <1>2, <1>5, <1>6 DEF TypeOK, useVars, regVars, stmtVars
<1>8. HeldSlots' = HeldSlots
  <2>1. HeldSlots' = {slot'[d] : d \in sessions'}
    BY <1>2 DEF HeldSlots
  <2>2. {slot'[d] : d \in sessions'} = {slot[d] : d \in sessions} \cup {opening}
    BY <1>2, <1>5
  <2> QED
    BY <2>1, <2>2, <1>2 DEF HeldSlots
<1>9. SlotsPartition' /\ OpenInv'
  <2>1. \A c, d \in sessions' : slot'[c] = slot'[d] => c = d
    BY <1>1, <1>2, <1>5 DEF SlotsPartition
  <2>2. \A d \in sessions' : slot'[d] # opening' /\ slot'[d] \in Slot
    BY <1>2, <1>3, <1>5, NoneAssumption
  <2> QED
    BY <1>1, <1>2, <1>8, <2>1, <2>2 DEF SlotsPartition, OpenInv
<1> QED
  BY <1>1, <1>2, <1>7, <1>9, StatementsKept DEF SessionIInv

-----------------------------------------------------------------------------
(* The statements.                                                         *)

(* CLOSE finalizes the cached and the prepared statements of the database  *)
(* and frees its slot.                                                     *)
LEMMA CloseDbKeeps ==
    ASSUME SessionIInv, NEW d \in DbId, CloseDb(d) PROVE SessionIInv'
<1>1. /\ TypeOK /\ OpenInv /\ SlotsPartition
      /\ CacheInv /\ UsingInv /\ PreparedInv /\ LostInv /\ KeptInv
  BY DEF SessionIInv
<1>2. /\ d \in sessions /\ using[d] = None
      /\ FinalizeAll(Closed(d)) /\ cache' = [cache EXCEPT ![d] = <<>>]
      /\ statements' = [s \in StmtId |-> IF statements[s] \in Registered(d)
                                         THEN None ELSE statements[s]]
      /\ sessions' = sessions \ {d} /\ freeSlots' = Append(freeSlots, slot[d])
      /\ slot' = [slot EXCEPT ![d] = None]
      /\ nextDbId' = nextDbId /\ opening' = opening /\ nextStmtId' = nextStmtId
      /\ using' = using /\ owns' = owns /\ lost' = lost /\ shut' = shut
  BY DEF CloseDb, ReleaseSlot, useVars, history
<1>3. /\ home \in [Ptr -> DbId \cup {None}] /\ using \in [DbId -> Ptr \cup {None}]
      /\ statements \in [StmtId -> Ptr \cup {None}] /\ lost \subseteq Ptr
      /\ slot \in [DbId -> Slot \cup {None}] /\ freeSlots \in Seq(Slot)
      /\ sessions \subseteq DbId /\ None \notin Ptr /\ None \notin DbId /\ None \notin Slot
  BY <1>1, NoneAssumption DEF TypeOK
<1>4. /\ home' \in [Ptr -> DbId \cup {None}]
      /\ text' \in [Ptr -> Sql \cup {None}]
      /\ \A x \in Ptr : x \in Closed(d) => home'[x] = None
      /\ \A x \in Ptr : x \notin Closed(d) => home'[x] = home[x] /\ text'[x] = text[x]
  BY <1>1, <1>2, FinalizeFacts
<1>5. /\ \A x \in Closed(d) : x \in Ptr /\ home[x] = d
      /\ \A x : x \in Closed(d) <=> x \in Cached(d) \/ x \in Registered(d)
      /\ \A x \in Ptr : x \in Registered(d) <=>
            home[x] = d /\ \E s \in StmtId : statements[s] = x
  BY <1>1, CachedFacts DEF Closed, Registered, CacheInv
<1>6. /\ cache' \in [DbId -> Seq(Ptr)]
      /\ \A e \in DbId : Len(cache'[e]) <= CacheLimit
      /\ cache'[d] = <<>>
      /\ \A x : x \in Cached(d)' <=> x \in ToSet(<<>>)
      /\ \A e \in DbId : e # d => cache'[e] = cache[e] /\ Cached(e)' = Cached(e)
  <2>1. <<>> \in Seq(Ptr) /\ Len(<<>>) <= CacheLimit
    BY LimitAssumption
  <2> QED
    BY <2>1, <1>1, <1>2, CacheBecomes
<1>7. Cached(d)' = {}
  BY <1>6 DEF ToSet
<1>8. \A s \in StmtId, x \in Ptr : statements'[s] = x <=>
         statements[s] = x /\ x \notin Registered(d)
  BY <1>2, <1>3
<1>9. /\ freeSlots' \in Seq(Slot)
      /\ \A x : x \in ToSet(freeSlots') <=> x \in ToSet(freeSlots) \/ x = slot[d]
      /\ \A i, j \in 1..Len(freeSlots') : freeSlots'[i] = freeSlots'[j] => i = j
      /\ slot[d] \in Slot /\ slot[d] \in HeldSlots
  <2>1. slot[d] \in HeldSlots /\ slot[d] \in Slot
    BY <1>1, <1>2 DEF HeldSlots, OpenInv
  <2>2. slot[d] \notin ToSet(freeSlots)
    BY <2>1, <1>1 DEF SlotsPartition
  <2>3. \A i, j \in 1..Len(freeSlots) : freeSlots[i] = freeSlots[j] => i = j
    BY <1>1 DEF SlotsPartition
  <2>4. PICK u : u = slot[d]
    OBVIOUS
  <2>5. u \in Slot /\ u \notin ToSet(freeSlots) /\ freeSlots' = Append(freeSlots, u)
    BY <2>1, <2>2, <2>4, <1>2
  <2>6. freeSlots \in Seq(Slot)
    BY <1>3
  <2>7. /\ Append(freeSlots, u) \in Seq(Slot)
        /\ \A x : x \in ToSet(Append(freeSlots, u)) <=> x \in ToSet(freeSlots) \/ x = u
        /\ \A i, j \in 1..Len(Append(freeSlots, u)) :
              Append(freeSlots, u)[i] = Append(freeSlots, u)[j] => i = j
    BY <2>3, <2>5, <2>6, Appended
  <2> QED
    BY <2>1, <2>4, <2>5, <2>7, Zenon
<1>10. slot' \in [DbId -> Slot \cup {None}] /\ \A e \in DbId : e # d => slot'[e] = slot[e]
  BY <1>2, <1>3
<1>11. TypeOK'
  <2>1. statements' \in [StmtId -> Ptr \cup {None}]
    BY <1>2, <1>3
  <2> QED
    BY <2>1, <1>1, <1>2, <1>4, <1>6, <1>9, <1>10 DEF TypeOK
<1>12. SlotsPartition' /\ OpenInv'
  <2>1. HeldSlots' = HeldSlots \ {slot[d]}
    <3>1. HeldSlots' = {slot'[e] : e \in sessions \ {d}} \cup ({opening} \ {None})
      BY <1>2 DEF HeldSlots
    <3>2. {slot'[e] : e \in sessions \ {d}} = {slot[e] : e \in sessions} \ {slot[d]}
      <4>1. \A e \in sessions \ {d} : slot'[e] = slot[e] /\ slot[e] # slot[d]
        BY <1>1, <1>2, <1>3, <1>10 DEF SlotsPartition
      <4> QED
        BY <4>1
    <3>3. slot[d] # opening
      BY <1>1, <1>2 DEF SlotsPartition
    <3> QED
      BY <3>1, <3>2, <3>3 DEF HeldSlots
  <2>2. \A b, c \in sessions' : slot'[b] = slot'[c] => b = c
    BY <1>1, <1>2, <1>3, <1>10 DEF SlotsPartition
  <2>3. \A c \in sessions' : slot'[c] # opening' /\ slot'[c] \in Slot
    BY <1>1, <1>2, <1>3, <1>10 DEF SlotsPartition, OpenInv
  <2>4. HeldSlots' \cap ToSet(freeSlots') = {}
    BY <2>1, <1>1, <1>9 DEF SlotsPartition
  <2>5. shut' \/ HeldSlots' \cup ToSet(freeSlots') = Slot
    BY <2>1, <1>1, <1>2, <1>9 DEF SlotsPartition
  <2> QED
    BY <1>1, <1>2, <1>9, <2>2, <2>3, <2>4, <2>5 DEF SlotsPartition, OpenInv
<1>13. CacheInv'
  <2> SUFFICES ASSUME NEW e \in DbId
               PROVE  /\ \A i, j \in 1..Len(cache'[e]) : cache'[e][i] = cache'[e][j] => i = j
                      /\ \A p \in Cached(e)' :
                            /\ e \in sessions' /\ home'[p] = e /\ text'[p] \in Whole
                            /\ \A q \in Cached(e)' : text'[q] = text'[p] => q = p
    BY DEF CacheInv
  <2>1. CASE e = d
    BY <2>1, <1>6, <1>7
  <2>2. CASE e # d
    <3>1. cache'[e] = cache[e] /\ Cached(e)' = Cached(e)
      BY <2>2, <1>6
    <3>2. \A p \in Cached(e) : p \in Ptr /\ home[p] = e /\ e \in sessions
      BY <1>1, CachedFacts DEF CacheInv
    <3>3. \A p \in Cached(e) : home'[p] = home[p] /\ text'[p] = text[p]
      BY <3>2, <2>2, <1>4, <1>5
    <3>4. /\ \A i, j \in 1..Len(cache[e]) : cache[e][i] = cache[e][j] => i = j
          /\ \A p \in Cached(e) :
                text[p] \in Whole /\ \A q \in Cached(e) : text[q] = text[p] => q = p
      BY <1>1 DEF CacheInv
    <3>5. \A p \in Cached(e) : e \in sessions'
      BY <3>2, <2>2, <1>2
    <3>6. ASSUME NEW p \in Cached(e)
          PROVE  /\ e \in sessions' /\ home'[p] = e /\ text'[p] \in Whole
                 /\ \A q \in Cached(e) : text'[q] = text'[p] => q = p
      <4>1. home'[p] = e /\ text'[p] = text[p] /\ e \in sessions'
        BY <3>2, <3>3, <3>5
      <4>2. \A q \in Cached(e) : text'[q] = text[q]
        BY <3>3
      <4> QED
        BY <4>1, <4>2, <3>4
    <3> QED
      BY <3>1, <3>4, <3>6
  <2> QED
    BY <2>1, <2>2
<1>14. ASSUME NEW x \in Ptr, home[x] # d
       PROVE  /\ home'[x] = home[x]
              /\ \A e \in DbId : x \in Cached(e)' <=> x \in Cached(e)
              /\ \A s \in StmtId : statements'[s] = x <=> statements[s] = x
  <2>1. x \notin Closed(d) /\ x \notin Registered(d) /\ x \notin Cached(d)
    BY <1>14, <1>5
  <2> QED
    BY <2>1, <1>4, <1>6, <1>7, <1>8
<1>15. UsingInv'
  <2> SUFFICES ASSUME NEW e \in DbId, using[e] # None
               PROVE  home'[using[e]] = e /\ using[e] \notin Cached(e)'
    BY <1>2 DEF UsingInv
  <2>1. e # d /\ using[e] \in Ptr /\ home[using[e]] = e /\ using[e] \notin Cached(e)
    BY <1>1, <1>2, <1>3 DEF UsingInv
  <2> QED
    BY <2>1, <1>14, <1>6
<1>16. PreparedInv'
  <2> SUFFICES ASSUME NEW s \in StmtId, NEW x \in Ptr, statements'[s] = x
               PROVE  /\ x \in Live' \ lost
                      /\ x \notin Cached(home[x])'
                      /\ using[home'[x]] = x => ~ owns[home'[x]]
                      /\ s < nextStmtId /\ \A t \in StmtId : statements'[t] = x => t = s
    BY <1>2 DEF PreparedInv
  <2>1. statements[s] = x /\ x \notin Registered(d)
    BY <1>8
  <2>2. /\ x \in Live \ lost /\ x \notin Cached(home[x])
        /\ using[home[x]] = x => ~ owns[home[x]]
        /\ s < nextStmtId /\ \A t \in StmtId : statements[t] = x => t = s
    BY <2>1, <1>1 DEF PreparedInv
  <2>3. home[x] # d /\ home[x] \in DbId
    BY <2>1, <2>2, <1>3, <1>5 DEF Live
  <2>4. home'[x] = home[x] /\ x \in Live'
    BY <2>2, <2>3, <1>14 DEF Live
  <2>5. x \notin Cached(home[x])'
    BY <2>2, <2>3, <2>4, <1>14
  <2> QED
    BY <2>2, <2>3, <2>4, <2>5, <1>14
<1>17. LostInv'
  <2> SUFFICES ASSUME NEW x \in lost
               PROVE  /\ x \in Live' /\ x \notin Cached(home[x])'
                      /\ using[home'[x]] = x => ~ owns[home'[x]]
    BY <1>2 DEF LostInv
  <2>1. /\ x \in Ptr /\ x \in Live /\ x \notin Cached(home[x])
        /\ using[home[x]] = x => ~ owns[home[x]]
    BY <1>1, <1>3 DEF LostInv
  <2>2. x \notin Registered(d)
    BY <1>1, <1>5 DEF PreparedInv
  <2>3. x \notin Closed(d)
    BY <2>1, <2>2, <1>5
  <2>4. home'[x] = home[x] /\ x \in Live' /\ home[x] \in DbId
    BY <2>1, <2>3, <1>3, <1>4 DEF Live
  <2>5. x \notin Cached(home[x])'
    BY <2>1, <2>4, <1>6, <1>7
  <2> QED
    BY <2>1, <2>4, <2>5
<1>18. KeptInv'
  <2> SUFFICES ASSUME NEW x \in Live' \ lost
               PROVE  \/ x \in Cached(home[x])'
                      \/ \E s \in StmtId : statements'[s] = x
                      \/ using[home'[x]] = x /\ owns[home'[x]]
    BY <1>2 DEF KeptInv
  <2>1. x \in Ptr /\ x \notin Closed(d) /\ home'[x] = home[x] /\ x \in Live /\ home[x] \in DbId
    BY <1>3, <1>4 DEF Live
  <2>2. \/ x \in Cached(home[x])
        \/ \E s \in StmtId : statements[s] = x
        \/ using[home[x]] = x /\ owns[home[x]]
    BY <2>1, <1>1 DEF KeptInv
  <2>3. home[x] # d
    BY <2>1, <2>2, <1>2, <1>3, <1>5
  <2> QED
    BY <2>1, <2>2, <2>3, <1>14
<1> QED
  BY <1>11, <1>12, <1>13, <1>15, <1>16, <1>17, <1>18 DEF SessionIInv

(* SHUTDOWN finalizes every cached statement and loses the prepared ones.  *)
LEMMA ShutdownKeeps == ASSUME SessionIInv, Shutdown PROVE SessionIInv'
<1> DEFINE Dropped == UNION {Registered(d) : d \in DbId}
<1>1. /\ TypeOK /\ OpenInv /\ SlotsPartition
      /\ CacheInv /\ UsingInv /\ PreparedInv /\ LostInv /\ KeptInv
  BY DEF SessionIInv
<1>2. /\ opening = None /\ FinalizeAll(ShutDown)
      /\ cache' = [d \in DbId |-> <<>>] /\ statements' = [s \in StmtId |-> None]
      /\ sessions' = {} /\ slot' = [d \in DbId |-> None]
      /\ lost' = lost \cup Dropped /\ shut' = TRUE
      /\ nextDbId' = nextDbId /\ freeSlots' = freeSlots /\ opening' = opening
      /\ using' = using /\ owns' = owns /\ nextStmtId' = nextStmtId
  BY DEF Shutdown, useVars
<1>3. /\ home \in [Ptr -> DbId \cup {None}] /\ using \in [DbId -> Ptr \cup {None}]
      /\ lost \subseteq Ptr /\ None \notin Ptr /\ None \notin DbId /\ sessions \subseteq DbId
  BY <1>1, NoneAssumption DEF TypeOK
<1>4. /\ home' \in [Ptr -> DbId \cup {None}]
      /\ text' \in [Ptr -> Sql \cup {None}]
      /\ \A x \in Ptr : x \in ShutDown => home'[x] = None
      /\ \A x \in Ptr : x \notin ShutDown => home'[x] = home[x] /\ text'[x] = text[x]
  BY <1>1, <1>2, FinalizeFacts
<1>5. \A x \in Ptr : x \in ShutDown <=> home[x] \in DbId /\ x \in Cached(home[x])
  BY <1>1, <1>3 DEF ShutDown, CacheInv
<1>6. \A x : x \in Dropped <=>
         x \in Ptr /\ home[x] \in DbId /\ \E s \in StmtId : statements[s] = x
  BY DEF Registered
<1> HIDE DEF Dropped
<1>7. /\ \A d \in DbId : cache'[d] = <<>> /\ Cached(d)' = {}
      /\ \A s \in StmtId : statements'[s] = None
  BY <1>2 DEF Cached, ToSet
<1>8. TypeOK'
  <2>1. /\ cache' \in [DbId -> Seq(Ptr)] /\ \A d \in DbId : Len(cache'[d]) <= CacheLimit
    BY <1>2, LimitAssumption
  <2>2. /\ statements' \in [StmtId -> Ptr \cup {None}] /\ slot' \in [DbId -> Slot \cup {None}]
        /\ lost' \subseteq Ptr /\ shut' \in BOOLEAN
    BY <1>2, <1>3, <1>6
  <2> QED
    BY <2>1, <2>2, <1>1, <1>2, <1>4 DEF TypeOK
<1>9. SlotsPartition' /\ OpenInv'
  <2>1. HeldSlots' = {}
    BY <1>2 DEF HeldSlots
  <2> QED
    BY <2>1, <1>1, <1>2 DEF SlotsPartition, OpenInv
<1>10. CacheInv'
  BY <1>7 DEF CacheInv
<1>11. UsingInv'
  <2> SUFFICES ASSUME NEW d \in DbId, using[d] # None
               PROVE  home'[using[d]] = d /\ using[d] \notin Cached(d)'
    BY <1>2 DEF UsingInv
  <2>1. using[d] \in Ptr /\ home[using[d]] = d /\ using[d] \notin Cached(d)
    BY <1>1, <1>3 DEF UsingInv
  <2> QED
    BY <2>1, <1>4, <1>5, <1>7
<1>12. PreparedInv'
  BY <1>3, <1>7 DEF PreparedInv
<1>13. LostInv'
  <2> SUFFICES ASSUME NEW x \in lost'
               PROVE  /\ x \in Live' /\ x \notin Cached(home[x])'
                      /\ using[home'[x]] = x => ~ owns[home'[x]]
    BY <1>2 DEF LostInv
  <2>1. /\ x \in Ptr /\ x \in Live /\ x \notin Cached(home[x])
        /\ using[home[x]] = x => ~ owns[home[x]]
    <3>1. CASE x \in lost
      BY <3>1, <1>1, <1>3 DEF LostInv
    <3>2. CASE x \in Dropped
      BY <3>2, <1>1, <1>6 DEF PreparedInv
    <3> QED
      BY <3>1, <3>2, <1>2
  <2>2. home'[x] = home[x] /\ x \in Live' /\ home[x] \in DbId
    BY <2>1, <1>3, <1>4, <1>5 DEF Live
  <2> QED
    BY <2>1, <2>2, <1>7
<1>14. KeptInv'
  <2> SUFFICES ASSUME NEW x \in Live' \ lost'
               PROVE  using[home'[x]] = x /\ owns[home'[x]]
    BY <1>2 DEF KeptInv
  <2>1. /\ x \in Ptr /\ x \notin ShutDown /\ home'[x] = home[x] /\ x \in Live
        /\ home[x] \in DbId /\ x \notin lost /\ x \notin Dropped
    BY <1>2, <1>3, <1>4 DEF Live
  <2> QED
    BY <2>1, <1>1, <1>5, <1>6 DEF KeptInv
<1> QED
  BY <1>8, <1>9, <1>10, <1>11, <1>12, <1>13, <1>14 DEF SessionIInv

(* A prepareOne that throws leaves its first statement lost.               *)
LEMMA PrepareFailsKeeps ==
    ASSUME SessionIInv, NEW d \in DbId, PrepareFails(d) PROVE SessionIInv'
<1>1. /\ TypeOK /\ OpenInv /\ SlotsPartition
      /\ CacheInv /\ UsingInv /\ PreparedInv /\ LostInv /\ KeptInv
  BY DEF SessionIInv
<1>2. PICK q \in BadTail, p \in Ptr : Compile(d, q, p) /\ lost' = lost \cup {p}
  BY DEF PrepareFails
<1>3. /\ using[d] = None
      /\ UNCHANGED <<slotVars, sessions, useVars, regVars, cache, shut>>
  BY DEF PrepareFails
<1>4. /\ home \in [Ptr -> DbId \cup {None}] /\ text \in [Ptr -> Sql \cup {None}]
      /\ lost \subseteq Ptr /\ None \notin Ptr /\ None \notin DbId
      /\ using \in [DbId -> Ptr \cup {None}]
  BY <1>1, NoneAssumption DEF TypeOK
<1>5. /\ p \notin Live /\ home[p] = None /\ home'[p] = d
      /\ \A x \in Ptr : x # p => home'[x] = home[x] /\ text'[x] = text[x]
      /\ home' \in [Ptr -> DbId \cup {None}] /\ text' \in [Ptr -> Sql \cup {None}]
  BY <1>2, <1>4 DEF Compile, Live, Sql
<1>6. /\ p \notin lost /\ \A s \in StmtId : statements[s] # p
      /\ \A e \in DbId : using[e] # p
  BY <1>1, <1>5, NotElsewhere
<1>7. /\ cache' = cache /\ statements' = statements /\ using' = using /\ owns' = owns
      /\ sessions' = sessions /\ nextStmtId' = nextStmtId
      /\ \A e \in DbId : Cached(e)' = Cached(e)
  BY <1>3 DEF useVars, regVars, Cached
<1>8. ASSUME NEW e \in DbId, NEW x \in Cached(e)
      PROVE  x \in Ptr /\ home[x] = e /\ x # p
  <2>1. x \in Ptr /\ home[x] = e
    BY <1>1, <1>8, CachedFacts DEF CacheInv
  <2> QED
    BY <2>1, <1>4, <1>5
<1>9. TypeOK'
  BY <1>1, <1>2, <1>3, <1>4, <1>5 DEF TypeOK, slotVars, useVars, regVars
<1>10. SlotsPartition' /\ OpenInv'
  BY <1>1, <1>3, SlotsKept
<1>11. CacheInv'
  BY <1>1, <1>5, <1>7, <1>8 DEF CacheInv
<1>12. ASSUME NEW x \in Live
       PROVE  x \in Ptr /\ x # p /\ home'[x] = home[x] /\ home[x] \in DbId /\ x \in Live'
  BY <1>4, <1>5 DEF Live
<1>13. UsingInv'
  <2> SUFFICES ASSUME NEW e \in DbId, using[e] # None
               PROVE  home'[using[e]] = e /\ using[e] \notin Cached(e)'
    BY <1>7 DEF UsingInv
  <2>1. using[e] \in Ptr /\ home[using[e]] = e /\ using[e] \notin Cached(e)
    BY <1>1, <1>4 DEF UsingInv
  <2> QED
    BY <2>1, <1>5, <1>6, <1>7
<1>14. PreparedInv'
  <2> SUFFICES ASSUME NEW s \in StmtId, NEW x \in Ptr, statements[s] = x
               PROVE  /\ x \in Live' \ lost'
                      /\ x \notin Cached(home[x])'
                      /\ using[home'[x]] = x => ~ owns[home'[x]]
                      /\ s < nextStmtId /\ \A t \in StmtId : statements[t] = x => t = s
    BY <1>7 DEF PreparedInv
  <2>1. /\ x \in Live \ lost /\ x \notin Cached(home[x])
        /\ using[home[x]] = x => ~ owns[home[x]]
        /\ s < nextStmtId /\ \A t \in StmtId : statements[t] = x => t = s
    BY <1>1 DEF PreparedInv
  <2>2. x # p /\ home'[x] = home[x] /\ home[x] \in DbId /\ x \in Live'
    BY <2>1, <1>12
  <2>3. x \notin Cached(home[x])'
    BY <2>1, <2>2, <1>7
  <2> QED
    BY <2>1, <2>2, <2>3, <1>2
<1>15. LostInv'
  <2> SUFFICES ASSUME NEW x \in lost'
               PROVE  /\ x \in Live' /\ x \notin Cached(home[x])'
                      /\ using[home'[x]] = x => ~ owns[home'[x]]
    BY <1>7 DEF LostInv
  <2>1. CASE x = p
    <3>1. x \in Live' /\ x \notin Cached(home[x])'
      BY <2>1, <1>4, <1>5, <1>7, <1>8 DEF Live
    <3> QED
      BY <3>1, <2>1, <1>5, <1>6
  <2>2. CASE x \in lost
    <3>1. /\ x \in Live /\ x \notin Cached(home[x])
          /\ using[home[x]] = x => ~ owns[home[x]]
      BY <2>2, <1>1 DEF LostInv
    <3>2. home'[x] = home[x] /\ home[x] \in DbId /\ x \in Live'
      BY <3>1, <1>12
    <3>3. x \notin Cached(home[x])'
      BY <3>1, <3>2, <1>7
    <3> QED
      BY <3>1, <3>2, <3>3
  <2> QED
    BY <2>1, <2>2, <1>2
<1>16. KeptInv'
  <2> SUFFICES ASSUME NEW x \in Live' \ lost'
               PROVE  \/ x \in Cached(home[x])'
                      \/ \E s \in StmtId : statements[s] = x
                      \/ using[home'[x]] = x /\ owns[home'[x]]
    BY <1>7 DEF KeptInv
  <2>1. x \in Live \ lost
    BY <1>2, <1>5 DEF Live
  <2>2. home'[x] = home[x] /\ home[x] \in DbId
    BY <2>1, <1>12
  <2>3. \/ x \in Cached(home[x])
        \/ \E s \in StmtId : statements[s] = x
        \/ using[home[x]] = x /\ owns[home[x]]
    BY <2>1, <1>1 DEF KeptInv
  <2>4. x \in Cached(home[x]) => x \in Cached(home[x])'
    BY <2>2, <1>7
  <2> QED
    BY <2>2, <2>3, <2>4
<1> QED
  BY <1>9, <1>10, <1>11, <1>13, <1>14, <1>15, <1>16 DEF SessionIInv

(* PREPARE and QUERY hand out what prepareOne returned.                    *)
LEMMA PrepareKeeps ==
    ASSUME SessionIInv, NEW d \in DbId, NEW q \in Sql, Prepare(d, q) \/ Query(d, q)
    PROVE  SessionIInv'
<1>1. TypeOK /\ SlotsPartition /\ OpenInv
  BY DEF SessionIInv
<1>2. CASE Prepare(d, q)
  <2>1. PICK p \in Ptr : /\ PrepareOne(d, q, p)
                         /\ statements' = [statements EXCEPT ![nextStmtId] = p]
    BY <1>2 DEF Prepare
  <2>2. /\ d \in sessions /\ using[d] = None /\ nextStmtId \in StmtId
        /\ nextStmtId' = nextStmtId + 1 /\ UNCHANGED <<slotVars, sessions, useVars, history>>
    BY <1>2 DEF Prepare
  <2>3. nextStmtId' \in 1..(MaxStmt + 1)
    BY <2>2, BoundsAssumption DEF StmtId
  <2>4. UNCHANGED <<slotVars, sessions, history>> /\ UNCHANGED useVars
    BY <2>2
  <2>5. TypeOK' /\ CacheInv' /\ UsingInv' /\ PreparedInv' /\ LostInv' /\ KeptInv'
    BY <2>1, <2>2, <2>3, <2>4, HandedOut
  <2>6. SlotsPartition' /\ OpenInv'
    BY <2>2, <1>1, SlotsKept DEF history
  <2> QED
    BY <2>5, <2>6 DEF SessionIInv
<1>3. CASE Query(d, q)
  <2>1. PICK p \in Ptr : PrepareOne(d, q, p) /\ using' = [using EXCEPT ![d] = p]
    BY <1>3 DEF Query
  <2>2. /\ d \in sessions /\ using[d] = None /\ owns' = [owns EXCEPT ![d] = TRUE]
        /\ UNCHANGED <<slotVars, sessions, regVars, history>>
    BY <1>3 DEF Query
  <2>3. nextStmtId' \in 1..(MaxStmt + 1)
    BY <2>2, <1>1 DEF regVars, TypeOK
  <2>4. UNCHANGED <<slotVars, sessions, history>> /\ UNCHANGED regVars
    BY <2>2
  <2>5. TypeOK' /\ CacheInv' /\ UsingInv' /\ PreparedInv' /\ LostInv' /\ KeptInv'
    BY <2>1, <2>2, <2>3, <2>4, HandedOut
  <2>6. SlotsPartition' /\ OpenInv'
    BY <2>2, <1>1, SlotsKept DEF history
  <2> QED
    BY <2>5, <2>6 DEF SessionIInv
<1> QED
  BY <1>2, <1>3

(* FINALIZE releases the statement it was registered for.                  *)
LEMMA FinalizeKeeps ==
    ASSUME SessionIInv, NEW s \in StmtId, Finalize(s) PROVE SessionIInv'
<1>1. /\ TypeOK /\ OpenInv /\ SlotsPartition
      /\ CacheInv /\ UsingInv /\ PreparedInv /\ LostInv /\ KeptInv
  BY DEF SessionIInv
<1>2. /\ statements[s] # None /\ statements' = [statements EXCEPT ![s] = None]
      /\ UNCHANGED <<slotVars, sessions, useVars, nextStmtId, history>>
  BY DEF Finalize
<1>3. /\ statements \in [StmtId -> Ptr \cup {None}] /\ home \in [Ptr -> DbId \cup {None}]
      /\ None \notin Ptr
  BY <1>1, NoneAssumption DEF TypeOK
<1>4. PICK p \in Ptr : statements[s] = p
  BY <1>2, <1>3
<1>5. /\ p \in Live \ lost /\ p \notin Cached(home[p]) /\ home[p] \in DbId
      /\ \A t \in StmtId : statements[t] = p => t = s
  BY <1>1, <1>3, <1>4 DEF PreparedInv, Live
<1>6. PICK d \in DbId : d = home[p] /\ using[d] = None /\ Release(d, p)
  BY <1>4, <1>5 DEF Finalize
<1>7. /\ UNCHANGED sessions /\ using' = using /\ owns' = owns /\ lost' = lost
      /\ nextStmtId' = nextStmtId
  BY <1>2 DEF useVars, history
<1>8. PICK gone \in SUBSET (Cached(d) \cup {p}) :
         /\ FinalizeAll(gone)
         /\ \A x : x \in Cached(d)' <=> x \in Cached(d) \cup {p} /\ x \notin gone
         /\ \A e \in DbId : e # d => Cached(e)' = Cached(e)
         /\ cache' \in [DbId -> Seq(Ptr)]
         /\ \A e \in DbId : Len(cache'[e]) <= CacheLimit
         /\ CacheInv'
  <2>1. home[p] = d /\ p \notin Cached(d)
    BY <1>5, <1>6
  <2> QED
    BY <2>1, <1>1, <1>6, <1>7, ReleaseFacts
<1>9. /\ statements'[s] = None
      /\ \A t \in StmtId : t # s => statements'[t] = statements[t]
      /\ statements' \in [StmtId -> Ptr \cup {None}]
  BY <1>2, <1>3
<1>10. UsingInv' /\ PreparedInv' /\ LostInv' /\ KeptInv'
  <2>1. /\ home[p] = d /\ p \notin Cached(d) /\ p \notin lost
        /\ using'[d] = None /\ (using[d] = None \/ using[d] = p)
        /\ \A e \in DbId : e # d => using'[e] = using[e] /\ owns'[e] = owns[e]
    BY <1>5, <1>6, <1>7
  <2>2. /\ \A t \in StmtId : statements'[t] # p
        /\ \A t \in StmtId : statements[t] # p => statements'[t] = statements[t]
        /\ \A t \in StmtId : statements[t] = p => statements'[t] = None
    BY <1>3, <1>4, <1>5, <1>9
  <2>3. lost' = lost /\ nextStmtId' = nextStmtId
    BY <1>7
  <2> QED
    BY <2>1, <2>2, <2>3, <1>1, <1>8, GivenUp
<1>11. home' \in [Ptr -> DbId \cup {None}] /\ text' \in [Ptr -> Sql \cup {None}]
  BY <1>1, <1>8, FinalizeFacts
<1>12. TypeOK'
  BY <1>1, <1>2, <1>8, <1>9, <1>11 DEF TypeOK, slotVars, useVars, history
<1>13. SlotsPartition' /\ OpenInv'
  BY <1>1, <1>2, SlotsKept DEF history
<1> QED
  BY <1>8, <1>10, <1>12, <1>13 DEF SessionIInv

(* QUERY_STMT borrows a prepared statement.                                *)
LEMMA QueryStmtKeeps ==
    ASSUME SessionIInv, NEW s \in StmtId, QueryStmt(s) PROVE SessionIInv'
<1>1. /\ TypeOK /\ OpenInv /\ SlotsPartition
      /\ CacheInv /\ UsingInv /\ PreparedInv /\ LostInv /\ KeptInv
  BY DEF SessionIInv
<1>2. /\ statements[s] # None
      /\ UNCHANGED <<slotVars, sessions, regVars, stmtVars, history>>
  BY DEF QueryStmt
<1>3. /\ statements \in [StmtId -> Ptr \cup {None}] /\ home \in [Ptr -> DbId \cup {None}]
      /\ using \in [DbId -> Ptr \cup {None}] /\ owns \in [DbId -> BOOLEAN]
      /\ None \notin Ptr
  BY <1>1, NoneAssumption DEF TypeOK
<1>4. PICK p \in Ptr : statements[s] = p
  BY <1>2, <1>3
<1>5. p \in Live \ lost /\ p \notin Cached(home[p]) /\ home[p] \in DbId
  BY <1>1, <1>3, <1>4 DEF PreparedInv, Live
<1>6. PICK d \in DbId : /\ d = home[p] /\ using[d] = None
                        /\ using' = [using EXCEPT ![d] = p]
                        /\ owns' = [owns EXCEPT ![d] = FALSE]
  BY <1>4, <1>5 DEF QueryStmt
<1>7. /\ using' \in [DbId -> Ptr \cup {None}] /\ owns' \in [DbId -> BOOLEAN]
      /\ using'[d] = p /\ owns'[d] = FALSE
      /\ \A e \in DbId : e # d => using'[e] = using[e] /\ owns'[e] = owns[e]
  BY <1>3, <1>6
<1>8. /\ cache' = cache /\ home' = home /\ text' = text /\ statements' = statements
      /\ nextStmtId' = nextStmtId /\ lost' = lost /\ sessions' = sessions
      /\ Live' = Live /\ \A e : Cached(e)' = Cached(e)
  BY <1>2 DEF regVars, stmtVars, history, Live, Cached
<1>9. \A e \in DbId : \A x \in Ptr :
         using'[e] = x /\ owns'[e] <=> using[e] = x /\ owns[e]
  BY <1>3, <1>6, <1>7
<1>10. TypeOK'
  BY <1>1, <1>2, <1>7, <1>8 DEF TypeOK, slotVars, history
<1>11. SlotsPartition' /\ OpenInv'
  BY <1>1, <1>2, SlotsKept DEF history
<1>12. CacheInv'
  BY <1>1, <1>8 DEF CacheInv
<1>13. UsingInv'
  <2> SUFFICES ASSUME NEW e \in DbId, using'[e] # None
               PROVE  home[using'[e]] = e /\ using'[e] \notin Cached(e)
    BY <1>8 DEF UsingInv
  <2>1. CASE e = d
    BY <2>1, <1>5, <1>6, <1>7
  <2>2. CASE e # d
    BY <2>2, <1>1, <1>7 DEF UsingInv
  <2> QED
    BY <2>1, <2>2
<1>14. PreparedInv'
  <2> SUFFICES ASSUME NEW t \in StmtId, NEW x \in Ptr, statements[t] = x
               PROVE  /\ x \in Live \ lost
                      /\ x \notin Cached(home[x])
                      /\ using'[home[x]] = x => ~ owns'[home[x]]
                      /\ t < nextStmtId /\ \A u \in StmtId : statements[u] = x => u = t
    BY <1>8 DEF PreparedInv
  <2>1. home[x] \in DbId
    BY <1>1, <1>3 DEF PreparedInv, Live
  <2> QED
    BY <2>1, <1>1, <1>9 DEF PreparedInv
<1>15. LostInv'
  <2> SUFFICES ASSUME NEW x \in lost
               PROVE  /\ x \in Live /\ x \notin Cached(home[x])
                      /\ using'[home[x]] = x => ~ owns'[home[x]]
    BY <1>8 DEF LostInv
  <2>1. x \in Live /\ home[x] \in DbId /\ x \in Ptr
    BY <1>1, <1>3 DEF LostInv, Live
  <2> QED
    BY <2>1, <1>1, <1>9 DEF LostInv
<1>16. KeptInv'
  <2> SUFFICES ASSUME NEW x \in Live \ lost
               PROVE  \/ x \in Cached(home[x])
                      \/ \E t \in StmtId : statements[t] = x
                      \/ using'[home[x]] = x /\ owns'[home[x]]
    BY <1>8 DEF KeptInv
  <2>1. x \in Ptr /\ home[x] \in DbId
    BY <1>3 DEF Live
  <2> QED
    BY <2>1, <1>1, <1>9 DEF KeptInv
<1> QED
  BY <1>10, <1>11, <1>12, <1>13, <1>14, <1>15, <1>16 DEF SessionIInv

(* A query that ends releases or discards the statement it owns.           *)
LEMMA QueryEndKeeps ==
    ASSUME SessionIInv, NEW d \in DbId, NEW stopped \in BOOLEAN, QueryEnd(d, stopped)
    PROVE  SessionIInv'
<1>1. /\ TypeOK /\ OpenInv /\ SlotsPartition
      /\ CacheInv /\ UsingInv /\ PreparedInv /\ LostInv /\ KeptInv
  BY DEF SessionIInv
<1>2. /\ using[d] # None
      /\ using' = [using EXCEPT ![d] = None] /\ owns' = [owns EXCEPT ![d] = FALSE]
      /\ UNCHANGED <<slotVars, sessions, regVars, history>>
  BY DEF QueryEnd
<1>3. /\ home \in [Ptr -> DbId \cup {None}]
      /\ using \in [DbId -> Ptr \cup {None}] /\ owns \in [DbId -> BOOLEAN]
      /\ lost \subseteq Ptr /\ None \notin Ptr
  BY <1>1, NoneAssumption DEF TypeOK
<1>4. /\ using' \in [DbId -> Ptr \cup {None}] /\ owns' \in [DbId -> BOOLEAN]
      /\ using'[d] = None /\ owns'[d] = FALSE
      /\ \A e \in DbId : e # d => using'[e] = using[e] /\ owns'[e] = owns[e]
  BY <1>2, <1>3
<1>5. PICK p \in Ptr : using[d] = p /\ home[p] = d /\ p \notin Cached(d)
  BY <1>1, <1>2, <1>3 DEF UsingInv
<1>6. SlotsPartition' /\ OpenInv'
  BY <1>1, <1>2, SlotsKept DEF history
<1>7. /\ sessions' = sessions /\ statements' = statements /\ nextStmtId' = nextStmtId
      /\ lost' = lost
  BY <1>2 DEF regVars, history
<1>8. CASE owns[d]
  <2>1. IF stopped THEN Discard(d, p) ELSE Release(d, p)
    BY <1>5, <1>8 DEF QueryEnd
  <2>2. PICK gone \in SUBSET (Cached(d) \cup {p}) :
           /\ FinalizeAll(gone)
           /\ \A x : x \in Cached(d)' <=> x \in Cached(d) \cup {p} /\ x \notin gone
           /\ \A e \in DbId : e # d => Cached(e)' = Cached(e)
           /\ cache' \in [DbId -> Seq(Ptr)]
           /\ \A e \in DbId : Len(cache'[e]) <= CacheLimit
           /\ CacheInv'
    <3>1. CASE stopped
      <4>1. /\ FinalizeAll({p})
            /\ \A x : x \in Cached(d)' <=> x \in Cached(d) \cup {p} /\ x \notin {p}
            /\ \A e \in DbId : e # d => Cached(e)' = Cached(e)
            /\ cache' \in [DbId -> Seq(Ptr)]
            /\ \A e \in DbId : Len(cache'[e]) <= CacheLimit
            /\ CacheInv'
        BY <3>1, <2>1, <1>1, <1>5, <1>7, DiscardFacts
      <4>2. {p} \in SUBSET (Cached(d) \cup {p})
        OBVIOUS
      <4> QED
        BY <4>1, <4>2
    <3>2. CASE ~ stopped
      BY <3>2, <2>1, <1>1, <1>5, <1>7, ReleaseFacts
    <3> QED
      BY <3>1, <3>2
  <2>3. \A s \in StmtId : statements[s] # p
    BY <1>1, <1>5, <1>8 DEF PreparedInv
  <2>4. p \notin lost
    BY <1>1, <1>5, <1>8 DEF LostInv
  <2>5. UsingInv' /\ PreparedInv' /\ LostInv' /\ KeptInv'
    <3>1. /\ \A s \in StmtId : statements'[s] # p
          /\ \A s \in StmtId : statements[s] # p => statements'[s] = statements[s]
          /\ \A s \in StmtId : statements[s] = p => statements'[s] = None
      BY <2>3, <1>7
    <3> QED
      BY <3>1, <2>2, <2>4, <1>1, <1>4, <1>5, <1>7, GivenUp
  <2>6. home' \in [Ptr -> DbId \cup {None}] /\ text' \in [Ptr -> Sql \cup {None}]
    BY <1>1, <2>2, FinalizeFacts
  <2>7. TypeOK'
    BY <1>1, <1>2, <1>4, <2>2, <2>6 DEF TypeOK, slotVars, regVars, history
  <2> QED
    BY <2>2, <2>5, <2>7, <1>6 DEF SessionIInv
<1>9. CASE ~ owns[d]
  <2>1. UNCHANGED stmtVars
    BY <1>9 DEF QueryEnd
  <2>2. /\ cache' = cache /\ home' = home /\ text' = text
        /\ Live' = Live /\ \A e : Cached(e)' = Cached(e)
    BY <2>1 DEF stmtVars, Live, Cached
  <2>3. \A e \in DbId : \A x \in Ptr :
           using'[e] = x /\ owns'[e] <=> using[e] = x /\ owns[e]
    BY <1>3, <1>4, <1>9
  <2>4. TypeOK'
    BY <1>1, <1>2, <1>4, <2>2 DEF TypeOK, slotVars, regVars, history
  <2>5. CacheInv'
    BY <1>1, <1>7, <2>2 DEF CacheInv
  <2>6. UsingInv'
    BY <1>1, <1>4, <2>2 DEF UsingInv
  <2>7. PreparedInv'
    <3> SUFFICES ASSUME NEW t \in StmtId, NEW x \in Ptr, statements[t] = x
                 PROVE  /\ x \in Live \ lost
                        /\ x \notin Cached(home[x])
                        /\ using'[home[x]] = x => ~ owns'[home[x]]
                        /\ t < nextStmtId /\ \A u \in StmtId : statements[u] = x => u = t
      BY <1>7, <2>2 DEF PreparedInv
    <3>1. home[x] \in DbId
      BY <1>1, <1>3 DEF PreparedInv, Live
    <3> QED
      BY <3>1, <1>1, <2>3 DEF PreparedInv
  <2>8. LostInv'
    <3> SUFFICES ASSUME NEW x \in lost
                 PROVE  /\ x \in Live /\ x \notin Cached(home[x])
                        /\ using'[home[x]] = x => ~ owns'[home[x]]
      BY <1>7, <2>2 DEF LostInv
    <3>1. x \in Live /\ home[x] \in DbId /\ x \in Ptr
      BY <1>1, <1>3 DEF LostInv, Live
    <3> QED
      BY <3>1, <1>1, <2>3 DEF LostInv
  <2>9. KeptInv'
    <3> SUFFICES ASSUME NEW x \in Live \ lost
                 PROVE  \/ x \in Cached(home[x])
                        \/ \E t \in StmtId : statements[t] = x
                        \/ using'[home[x]] = x /\ owns'[home[x]]
      BY <1>7, <2>2 DEF KeptInv
    <3>1. x \in Ptr /\ home[x] \in DbId
      BY <1>3 DEF Live
    <3> QED
      BY <3>1, <1>1, <2>3 DEF KeptInv
  <2> QED
    BY <2>4, <2>5, <2>6, <2>7, <2>8, <2>9, <1>6 DEF SessionIInv
<1> QED
  BY <1>8, <1>9

-----------------------------------------------------------------------------
(* The theorems.                                                           *)

(* The invariant holds before the first message.                           *)
LEMMA InitEstablishes == ASSUME Init PROVE SessionIInv
<1>1. /\ nextDbId = 1 /\ nextStmtId = 1 /\ freeSlots = [i \in 1..Slots |-> Slots - i]
      /\ opening = None /\ sessions = {} /\ lost = {} /\ shut = FALSE
      /\ slot = [d \in DbId |-> None] /\ cache = [d \in DbId |-> <<>>]
      /\ home = [p \in Ptr |-> None] /\ text = [p \in Ptr |-> None]
      /\ statements = [s \in StmtId |-> None] /\ using = [d \in DbId |-> None]
      /\ owns = [d \in DbId |-> FALSE]
  BY DEF Init
<1>2. /\ freeSlots \in Seq(Slot) /\ Len(freeSlots) = Slots
      /\ \A i \in 1..Slots : freeSlots[i] = Slots - i
  <2>1. \A i \in 1..Slots : Slots - i \in Slot
    BY SlotsAssumption DEF Slot
  <2> QED
    BY <1>1, <2>1, SlotsAssumption
<1>3. \A d \in DbId : cache[d] = <<>> /\ Cached(d) = {}
  BY <1>1 DEF Cached, ToSet
<1>4. TypeOK
  <2>1. nextDbId \in 1..(MaxDb + 1) /\ nextStmtId \in 1..(MaxStmt + 1)
    BY <1>1, BoundsAssumption
  <2>2. /\ cache \in [DbId -> Seq(Ptr)]
        /\ \A d \in DbId : Len(cache[d]) <= CacheLimit
    BY <1>1, <1>3, LimitAssumption
  <2> QED
    BY <1>1, <1>2, <2>1, <2>2 DEF TypeOK
<1>5. Live = {}
  BY <1>1 DEF Live
<1>6. None \notin Ptr
  BY NoneAssumption
<1>7. CacheInv /\ UsingInv /\ PreparedInv /\ LostInv /\ KeptInv
  BY <1>1, <1>3, <1>5, <1>6 DEF CacheInv, UsingInv, PreparedInv, LostInv, KeptInv
<1>8. SlotsPartition
  <2>1. HeldSlots = {}
    BY <1>1 DEF HeldSlots
  <2>2. \A i, j \in 1..Len(freeSlots) : freeSlots[i] = freeSlots[j] => i = j
    BY <1>2, SlotsAssumption
  <2>3. ToSet(freeSlots) = Slot
    <3>1. \A x : x \in ToSet(freeSlots) <=> \E i \in 1..Len(freeSlots) : freeSlots[i] = x
      BY <1>2, EntriesOf
    <3>2. ASSUME NEW x \in Slot PROVE x \in ToSet(freeSlots)
      <4>1. Slots - x \in 1..Slots /\ Slots - (Slots - x) = x
        BY SlotsAssumption DEF Slot
      <4> QED
        BY <4>1, <3>1, <1>2
    <3>3. ToSet(freeSlots) \subseteq Slot
      BY <1>2, EntriesOf
    <3> QED
      BY <3>2, <3>3
  <2> QED
    BY <1>1, <2>1, <2>2, <2>3 DEF SlotsPartition
<1>9. OpenInv
  BY <1>1 DEF OpenInv
<1> QED
  BY <1>4, <1>7, <1>8, <1>9 DEF SessionIInv

(* Every handler keeps the invariant.                                      *)
LEMMA StepKeeps == ASSUME SessionIInv, [Next]_vars PROVE SessionIInv'
<1>1. CASE Next
  <2>1. CASE OpenStart \/ OpenFail \/ OpenDone \/ Shutdown
    BY <2>1, OpenStartKeeps, OpenFailKeeps, OpenDoneKeeps, ShutdownKeeps
  <2>2. CASE \E d \in DbId : CloseDb(d) \/ PrepareFails(d)
    BY <2>2, CloseDbKeeps, PrepareFailsKeeps
  <2>3. CASE \E d \in DbId, q \in Sql : Prepare(d, q) \/ Query(d, q)
    BY <2>3, PrepareKeeps
  <2>4. CASE \E s \in StmtId : Finalize(s) \/ QueryStmt(s)
    BY <2>4, FinalizeKeeps, QueryStmtKeeps
  <2>5. CASE \E d \in DbId, stopped \in BOOLEAN : QueryEnd(d, stopped)
    BY <2>5, QueryEndKeeps
  <2> QED
    BY <1>1, <2>1, <2>2, <2>3, <2>4, <2>5 DEF Next
<1>2. CASE UNCHANGED vars
  <2>1. /\ UNCHANGED <<slotVars, sessions, useVars, regVars, stmtVars, lost, shut>>
    BY <1>2 DEF vars, history
  <2>2. /\ TypeOK /\ OpenInv /\ SlotsPartition
        /\ CacheInv /\ UsingInv /\ PreparedInv /\ LostInv /\ KeptInv
    BY DEF SessionIInv
  <2>3. TypeOK'
    BY <2>1, <2>2 DEF TypeOK, slotVars, useVars, regVars, stmtVars
  <2>4. CacheInv' /\ UsingInv' /\ PreparedInv' /\ LostInv' /\ KeptInv'
    BY <2>1, <2>2, StatementsKept
  <2>5. SlotsPartition' /\ OpenInv'
    BY <2>1, <2>2, SlotsKept
  <2> QED
    BY <2>3, <2>4, <2>5 DEF SessionIInv
<1> QED
  BY <1>1, <1>2

(* The invariant that says which live statements the caches, the prepared  *)
(* statements and the running queries hold holds for ever.                 *)
THEOREM SessionInvariant == Spec => []SessionIInv
<1>1. Init => SessionIInv
  BY InitEstablishes
<1>2. SessionIInv /\ [Next]_vars => SessionIInv'
  BY StepKeeps
<1> QED
  BY <1>1, <1>2, PTL DEF Spec

(* The worker's variables keep their types, and no cache outgrows its      *)
(* limit (release).                                                        *)
THEOREM TypeCorrect == Spec => []TypeOK
<1>1. SessionIInv => TypeOK
  BY DEF SessionIInv
<1> QED
  BY <1>1, SessionInvariant, PTL

(* A query always steps a live statement of its own database, whatever     *)
(* FINALIZE, CLOSE, SHUTDOWN and the other databases do meanwhile.         *)
THEOREM QueriesStepLive == Spec => []QueriesLive
<1>1. SessionIInv => QueriesLive
  BY DEF SessionIInv, UsingInv, QueriesLive
<1> QED
  BY <1>1, SessionInvariant, PTL

(* No two databases share a cancellation slot, and none is lost before a   *)
(* SHUTDOWN (openDatabase, closeDatabase).                                 *)
THEOREM SlotsArePartitioned == Spec => []SlotsPartition
<1>1. SessionIInv => SlotsPartition
  BY DEF SessionIInv
<1> QED
  BY <1>1, SessionInvariant, PTL

(* A cache hit runs the text that was asked for, and a closed database     *)
(* caches nothing (prepareOne, release).                                   *)
THEOREM CachesAreFaithful == Spec => []CacheFaithful
<1>1. SessionIInv => CacheFaithful
  BY CacheFaithfulIs DEF SessionIInv
<1> QED
  BY <1>1, SessionInvariant, PTL

(* What Keepers collects.                                                  *)
LEMMA KeepersAre ==
    ASSUME TypeOK, NEW p \in Ptr
    PROVE  \A k : k \in Keepers(p) <=>
              \/ \E d \in DbId : \E i \in 1..Len(cache[d]) :
                    k = <<"cache", d, i>> /\ cache[d][i] = p
              \/ \E s \in StmtId : k = <<"prepared", s, 0>> /\ statements[s] = p
              \/ \E d \in DbId : k = <<"query", d, 0>> /\ using[d] = p /\ owns[d]
<1> DEFINE A == {y \in DbId \X (1..CacheLimit) :
                    y[2] <= Len(cache[y[1]]) /\ cache[y[1]][y[2]] = p}
           B == {s \in StmtId : statements[s] = p}
           C == {d \in DbId : using[d] = p /\ owns[d]}
<1>1. \A k : k \in Keepers(p) <=>
         \/ k \in {<<"cache", x[1], x[2]>> : x \in A}
         \/ k \in {<<"prepared", s, 0>> : s \in B}
         \/ k \in {<<"query", d, 0>> : d \in C}
  BY DEF Keepers
<1>2. ASSUME NEW k
      PROVE  k \in {<<"cache", x[1], x[2]>> : x \in A} <=>
             \E d \in DbId : \E i \in 1..Len(cache[d]) :
                k = <<"cache", d, i>> /\ cache[d][i] = p
  <2>1. ASSUME NEW d \in DbId, NEW i \in 1..Len(cache[d])
        PROVE  i \in 1..CacheLimit /\ i <= Len(cache[d])
    <3>1. cache[d] \in Seq(Ptr) /\ Len(cache[d]) <= CacheLimit
      BY DEF TypeOK
    <3> QED
      BY <3>1, LimitAssumption
  <2>2. ASSUME NEW d \in DbId, NEW i \in 1..Len(cache[d]), cache[d][i] = p
        PROVE  <<d, i>> \in A
    BY <2>1, <2>2
  <2>3. ASSUME NEW x \in A
        PROVE  /\ x[1] \in DbId /\ x[2] \in 1..Len(cache[x[1]]) /\ cache[x[1]][x[2]] = p
    <3>1. /\ x[1] \in DbId /\ x[2] \in 1..CacheLimit
          /\ x[2] <= Len(cache[x[1]]) /\ cache[x[1]][x[2]] = p
      OBVIOUS
    <3>2. cache[x[1]] \in Seq(Ptr)
      BY <3>1 DEF TypeOK
    <3> QED
      BY <3>1, <3>2, LimitAssumption
  <2> HIDE DEF A
  <2>4. ASSUME NEW x \in A, k = <<"cache", x[1], x[2]>>
        PROVE  \E d \in DbId : \E i \in 1..Len(cache[d]) :
                  k = <<"cache", d, i>> /\ cache[d][i] = p
    BY <2>3, <2>4
  <2>5. ASSUME NEW d \in DbId, NEW i \in 1..Len(cache[d]),
               k = <<"cache", d, i>>, cache[d][i] = p
        PROVE  \E x \in A : k = <<"cache", x[1], x[2]>>
    <3>1. <<d, i>> \in A
      BY <2>2, <2>5
    <3>2. <<d, i>>[1] = d /\ <<d, i>>[2] = i
      OBVIOUS
    <3>3. k = <<"cache", <<d, i>>[1], <<d, i>>[2]>>
      BY <2>5, <3>2
    <3> QED
      BY <3>1, <3>3
  <2> QED
    BY <2>4, <2>5
<1> HIDE DEF A
<1>3. ASSUME NEW k
      PROVE  k \in {<<"prepared", s, 0>> : s \in B} <=>
             \E s \in StmtId : k = <<"prepared", s, 0>> /\ statements[s] = p
  OBVIOUS
<1>4. ASSUME NEW k
      PROVE  k \in {<<"query", d, 0>> : d \in C} <=>
             \E d \in DbId : k = <<"query", d, 0>> /\ using[d] = p /\ owns[d]
  OBVIOUS
<1> QED
  BY <1>1, <1>2, <1>3, <1>4

(* The invariant, counted.                                                 *)
LEMMA InvariantCounts == ASSUME SessionIInv PROVE OwnedOnce
<1>1. /\ TypeOK /\ CacheInv /\ UsingInv /\ PreparedInv /\ LostInv /\ KeptInv
  BY DEF SessionIInv
<1>2. /\ home \in [Ptr -> DbId \cup {None}] /\ lost \subseteq Ptr
      /\ None \notin Ptr /\ None \notin DbId
  BY <1>1, NoneAssumption DEF TypeOK
<1> SUFFICES ASSUME NEW p \in Ptr
             PROVE  Cardinality(Keepers(p)) = IF p \in Live \ lost THEN 1 ELSE 0
  BY DEF OwnedOnce
<1>3. \A k : k \in Keepers(p) <=>
              \/ \E d \in DbId : \E i \in 1..Len(cache[d]) :
                    k = <<"cache", d, i>> /\ cache[d][i] = p
              \/ \E s \in StmtId : k = <<"prepared", s, 0>> /\ statements[s] = p
              \/ \E d \in DbId : k = <<"query", d, 0>> /\ using[d] = p /\ owns[d]
  BY <1>1, KeepersAre
<1>4. /\ \A d \in DbId : \A i \in 1..Len(cache[d]) : cache[d][i] = p =>
            /\ p \in Cached(d) /\ home[p] = d
            /\ \A j \in 1..Len(cache[d]) : cache[d][j] = p => j = i
      /\ \A d \in DbId : p \in Cached(d) => \E i \in 1..Len(cache[d]) : cache[d][i] = p
  <2>1. \A d \in DbId : \A x : x \in Cached(d) <=> \E i \in 1..Len(cache[d]) : cache[d][i] = x
    BY <1>1, CachedFacts
  <2> QED
    BY <2>1, <1>1 DEF CacheInv
<1>5. \A d \in DbId : using[d] = p => home[p] = d /\ p \notin Cached(d)
  BY <1>1, <1>2 DEF UsingInv
<1>6. \A s \in StmtId : statements[s] = p =>
         /\ p \in Live \ lost /\ p \notin Cached(home[p])
         /\ using[home[p]] = p => ~ owns[home[p]]
         /\ \A t \in StmtId : statements[t] = p => t = s
  BY <1>1 DEF PreparedInv
<1>7. p \in Live <=> home[p] # None
  BY DEF Live
<1>8. CASE p \in Live \ lost
  <2>1. home[p] \in DbId
    BY <1>2, <1>7, <1>8
  <2>2. \/ p \in Cached(home[p])
        \/ \E s \in StmtId : statements[s] = p
        \/ using[home[p]] = p /\ owns[home[p]]
    BY <1>1, <1>8 DEF KeptInv
  <2>3. \E k : Keepers(p) = {k}
    <3>1. CASE p \in Cached(home[p])
      <4>1. PICK i \in 1..Len(cache[home[p]]) : cache[home[p]][i] = p
        BY <3>1, <2>1, <1>4
      <4>2. \A s \in StmtId : statements[s] # p
        BY <3>1, <1>6
      <4>3. \A d \in DbId : using[d] # p
        BY <3>1, <1>5
      <4>4. \A d \in DbId : \A j \in 1..Len(cache[d]) :
               cache[d][j] = p => d = home[p] /\ j = i
        BY <4>1, <1>4
      <4>5. ASSUME NEW k \in Keepers(p) PROVE k = <<"cache", home[p], i>>
        BY <4>2, <4>3, <4>4, <1>3
      <4>6. <<"cache", home[p], i>> \in Keepers(p)
        BY <4>1, <2>1, <1>3
      <4> QED
        BY <4>5, <4>6
    <3>2. CASE \E s \in StmtId : statements[s] = p
      <4>1. PICK s \in StmtId : statements[s] = p
        BY <3>2
      <4>2. \A d \in DbId : \A j \in 1..Len(cache[d]) : cache[d][j] # p
        BY <4>1, <1>4, <1>6
      <4>3. \A d \in DbId : ~ (using[d] = p /\ owns[d])
        BY <4>1, <1>5, <1>6
      <4>4. \A t \in StmtId : statements[t] = p => t = s
        BY <4>1, <1>6
      <4>5. ASSUME NEW k \in Keepers(p) PROVE k = <<"prepared", s, 0>>
        BY <4>2, <4>3, <4>4, <1>3
      <4>6. <<"prepared", s, 0>> \in Keepers(p)
        BY <4>1, <1>3
      <4> QED
        BY <4>5, <4>6
    <3>3. CASE using[home[p]] = p /\ owns[home[p]]
      <4>1. \A d \in DbId : \A j \in 1..Len(cache[d]) : cache[d][j] # p
        BY <3>3, <2>1, <1>4, <1>5
      <4>2. \A t \in StmtId : statements[t] # p
        BY <3>3, <1>6
      <4>3. \A d \in DbId : using[d] = p => d = home[p]
        BY <1>5
      <4>4. ASSUME NEW k \in Keepers(p) PROVE k = <<"query", home[p], 0>>
        BY <4>1, <4>2, <4>3, <1>3
      <4>5. <<"query", home[p], 0>> \in Keepers(p)
        BY <3>3, <2>1, <1>3
      <4> QED
        BY <4>4, <4>5
    <3> QED
      BY <2>2, <3>1, <3>2, <3>3
  <2> QED
    BY <2>3, <1>8, FS_Singleton
<1>9. CASE p \notin Live \ lost
  <2>1. ASSUME NEW d \in DbId, p \in Cached(d) PROVE FALSE
    <3>1. home[p] = d
      BY <2>1, <1>1 DEF CacheInv
    <3>2. p \in lost
      BY <3>1, <1>2, <1>7, <1>9
    <3> QED
      BY <3>1, <3>2, <2>1, <1>1 DEF LostInv
  <2>2. ASSUME NEW d \in DbId, using[d] = p, owns[d] PROVE FALSE
    <3>1. home[p] = d
      BY <2>2, <1>5
    <3>2. p \in lost
      BY <3>1, <1>2, <1>7, <1>9
    <3> QED
      BY <3>1, <3>2, <2>2, <1>1 DEF LostInv
  <2>3. \A s \in StmtId : statements[s] # p
    BY <1>6, <1>9
  <2>4. Keepers(p) = {}
    BY <2>1, <2>2, <2>3, <1>3, <1>4
  <2> QED
    BY <2>4, <1>9, FS_EmptySet
<1> QED
  BY <1>8, <1>9

(* Every live statement has exactly one keeper, a finalized one none: no   *)
(* statement is finalized twice, shared, kept after its end or, but for    *)
(* those prepareOne and SHUTDOWN lose, left over (prepareOne, release,     *)
(* discard, closeDatabase, shutdown and the finally of runQuery).          *)
THEOREM StatementsOwnedOnce == Spec => []OwnedOnce
<1>1. SessionIInv => OwnedOnce
  BY InvariantCounts
<1> QED
  BY <1>1, SessionInvariant, PTL
=============================================================================
