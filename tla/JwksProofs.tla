----------------------------- MODULE JwksProofs -----------------------------
(***************************************************************************)
(* The cache of signing keys, for any requests, key ids, refresh interval  *)
(* and download time: type correctness, the age of an accepted key, the    *)
(* distance between downloads, and the wait of a request.                  *)
(***************************************************************************)
EXTENDS JwksCache, TLAPS, FiniteSetTheorems, SequenceTheorems

\* What makes AcceptedKeysAreRecent hold: a cached or downloaded key was
\* published not longer ago than its age tells.
KeysAreRecent ==
  /\ \A k \in published : withdrawn[k] = 0
  /\ doc # {} => owner # NoOne
  /\ \A k \in doc : withdrawn[k] <= elapsed
  /\ age <= Refresh => \A k \in keys : withdrawn[k] <= age + FetchTime

\* What makes DownloadsAreSpaced hold: who downloads is alone and is needed.
DownloadsAreAlone ==
  \A r \in Requests : pc[r] \in {"fetch", "decode"} =>
    owner = r /\ (keys = {} \/ age >= Refresh)

-----------------------------------------------------------------------------

\* The cache starts in a state of the right type.
LEMMA TypeOKInit == Init => TypeOK
<1> SUFFICES ASSUME Init PROVE TypeOK
  OBVIOUS
<1>1. Oldest + 1 \in 0..(Oldest + 1) /\ 0 \in 0..(Oldest + 1) /\ 0 \in 0..(Refresh + 1)
      /\ 0 \in 0..FetchTime /\ 0 \in Nat
  BY CacheAssumption DEF Oldest
<1>2. <<>> \in Seq(Requests)
  OBVIOUS
<1>3. QED BY <1>1, <1>2 DEF Init, TypeOK

\* Counting keeps within its range.
LEMMA CountedRange ==
  ASSUME NEW last \in Nat, NEW n \in 0..(last + 1)
  PROVE  Counted(n, last) \in 0..(last + 1) /\ n <= Counted(n, last) /\ Counted(n, last) <= n + 1
         /\ (n <= last => Counted(n, last) = n + 1)
BY DEF Counted

\* Every step keeps the types.
LEMMA TypeOKNext == TypeOK /\ [Next]_vars => TypeOK'
<1> SUFFICES ASSUME TypeOK, [Next]_vars PROVE TypeOK'
  OBVIOUS
<1> USE CacheAssumption
<1>0. Oldest \in Nat /\ Patience \in Nat /\ 0 \in 0..(Oldest + 1)
  BY FS_CardinalityType DEF Oldest, Patience
<1>1. ASSUME NEW S \in SUBSET Kids, Rotate(S) PROVE TypeOK'
  BY <1>0, <1>1 DEF Rotate, TypeOK, cache, lock
<1>2. CASE Toggle
  BY <1>2 DEF Toggle, TypeOK, cache, lock
<1>3. CASE Tick
  <2>1. age' \in 0..(Refresh + 1)
    BY <1>3, CountedRange DEF Tick, TypeOK
  <2>2. withdrawn' \in [Kids -> 0..(Oldest + 1)]
    BY <1>0, <1>3, CountedRange DEF Tick, TypeOK
  <2>3. elapsed' \in 0..FetchTime
    BY <1>3 DEF Tick, Timely, TypeOK
  <2>4. waited' \in [Requests -> Nat]
    BY <1>0, <1>3 DEF Tick, TypeOK, Counted
  <2>5. QED BY <1>3, <2>1, <2>2, <2>3, <2>4 DEF Tick, TypeOK
<1>4. ASSUME NEW r \in Requests, NEW k \in Kids, Arrive(r, k) PROVE TypeOK'
  BY <1>4 DEF Arrive, TypeOK, idp, cache, lock
<1>5. ASSUME NEW r \in Requests, Lookup(r) PROVE TypeOK'
  <2>1. Append(queue, r) \in Seq(Requests)
    BY DEF TypeOK
  <2>2. queue' \in Seq(Requests)
    BY <1>5, <2>1 DEF Lookup, TypeOK
  <2>3. QED BY <1>5, <2>2 DEF Lookup, TypeOK, idp, cache
<1>6. ASSUME NEW r \in Requests, Refreshes(r) PROVE TypeOK'
  <2>1. Tail(queue) \in Seq(Requests)
    BY <1>6 DEF Refreshes, TypeOK
  <2>2. QED BY <1>6, <2>1 DEF Refreshes, TypeOK, idp, cache
<1>7. ASSUME NEW r \in Requests, Answer(r) PROVE TypeOK'
  BY <1>7 DEF Answer, TypeOK, idp, cache
<1>8. ASSUME NEW r \in Requests, FetchFails(r) PROVE TypeOK'
  <2>1. UNCHANGED <<idp, cache, queue, kid, waited>> /\ owner' = NoOne /\ doc' = {} /\ elapsed' = 0
    BY <1>8 DEF FetchFails, Unlock
  <2>2. pc' \in [Requests ->
          {"idle", "lookup", "queued", "fetch", "decode", "again", "accepted", "rejected"}]
    BY <1>8 DEF FetchFails, TypeOK
  <2>3. QED BY <2>1, <2>2 DEF TypeOK, idp, cache
<1>9. ASSUME NEW r \in Requests, Decode(r) PROVE TypeOK'
  <2>1. UNCHANGED <<idp, queue, kid, waited>> /\ owner' = NoOne /\ doc' = {} /\ elapsed' = 0
    BY <1>9 DEF Decode, Unlock
  <2>2. 0 \in 0..FetchTime /\ 0 \in 0..(Refresh + 1)
    OBVIOUS
  <2>3. keys' \subseteq Kids /\ age' \in 0..(Refresh + 1)
    BY <1>9, <2>2 DEF Decode, TypeOK, cache
  <2>4. \/ pc' = [pc EXCEPT ![r] = "rejected"]
        \/ pc' = [pc EXCEPT ![r] = "again"]
    BY <1>9 DEF Decode
  <2>5. pc' \in [Requests ->
          {"idle", "lookup", "queued", "fetch", "decode", "again", "accepted", "rejected"}]
    BY <2>4 DEF TypeOK
  <2>6. QED BY <2>1, <2>2, <2>3, <2>5 DEF TypeOK, idp
<1>10. CASE UNCHANGED vars
  BY <1>10 DEF vars, TypeOK, idp, cache, lock
<1>11. QED
  BY <1>1, <1>2, <1>3, <1>4, <1>5, <1>6, <1>7, <1>8, <1>9, <1>10 DEF Next, Step

\* The variables of the cache always have their types.
THEOREM CacheTypeCorrect == Spec => []TypeOK
BY TypeOKInit, TypeOKNext, PTL DEF Spec

-----------------------------------------------------------------------------

\* Every step keeps downloads alone.
LEMMA DownloadsAreAloneNext ==
  TypeOK /\ DownloadsAreAlone /\ [Next]_vars => DownloadsAreAlone'
<1> SUFFICES ASSUME TypeOK, DownloadsAreAlone, [Next]_vars,
                    NEW q \in Requests, pc'[q] \in {"fetch", "decode"}
             PROVE  owner' = q /\ (keys' = {} \/ age' >= Refresh)
  BY DEF DownloadsAreAlone
<1> USE CacheAssumption
<1>1. ASSUME NEW S \in SUBSET Kids, Rotate(S) PROVE owner' = q /\ (keys' = {} \/ age' >= Refresh)
  BY <1>1 DEF Rotate, DownloadsAreAlone, cache, lock
<1>2. CASE Toggle
  BY <1>2 DEF Toggle, DownloadsAreAlone, cache, lock
<1>3. CASE Tick
  <2>1. pc[q] \in {"fetch", "decode"}
    BY <1>3 DEF Tick
  <2>2. age \in Nat /\ age' \in Nat /\ age <= age'
    BY <1>3, CountedRange DEF Tick, TypeOK
  <2>3. QED BY <1>3, <2>1, <2>2 DEF Tick, DownloadsAreAlone
<1>4. ASSUME NEW r \in Requests, NEW k \in Kids, Arrive(r, k)
      PROVE  owner' = q /\ (keys' = {} \/ age' >= Refresh)
  BY <1>4 DEF Arrive, DownloadsAreAlone, cache, lock, TypeOK
<1>5. ASSUME NEW r \in Requests, Lookup(r) PROVE owner' = q /\ (keys' = {} \/ age' >= Refresh)
  BY <1>5 DEF Lookup, DownloadsAreAlone, cache, TypeOK
<1>6. ASSUME NEW r \in Requests, Refreshes(r) PROVE owner' = q /\ (keys' = {} \/ age' >= Refresh)
  BY <1>6 DEF Refreshes, MayWrite, Fresh, DownloadsAreAlone, cache, TypeOK
<1>7. ASSUME NEW r \in Requests, Answer(r) PROVE owner' = q /\ (keys' = {} \/ age' >= Refresh)
  BY <1>7 DEF Answer, DownloadsAreAlone, cache, TypeOK
<1>8. ASSUME NEW r \in Requests, FetchFails(r) PROVE owner' = q /\ (keys' = {} \/ age' >= Refresh)
  BY <1>8 DEF FetchFails, DownloadsAreAlone, cache, TypeOK
<1>9. ASSUME NEW r \in Requests, Decode(r) PROVE owner' = q /\ (keys' = {} \/ age' >= Refresh)
  BY <1>9 DEF Decode, DownloadsAreAlone, cache, TypeOK
<1>10. CASE UNCHANGED vars
  BY <1>10 DEF vars, DownloadsAreAlone, cache, lock
<1>11. QED
  BY <1>1, <1>2, <1>3, <1>4, <1>5, <1>6, <1>7, <1>8, <1>9, <1>10 DEF Next, Step

-----------------------------------------------------------------------------

\* Time ages keys and their history alike.
LEMMA TickKeepsKeysRecent ==
  ASSUME TypeOK, KeysAreRecent, Tick
  PROVE  KeysAreRecent'
<1> USE CacheAssumption
<1>0. Oldest \in Nat
  BY DEF Oldest
<1>1. /\ published' = published /\ keys' = keys /\ doc' = doc /\ owner' = owner
      /\ age' = Counted(age, Refresh)
  BY DEF Tick
<1>2. \A k \in Kids : withdrawn'[k] = IF k \in published THEN 0 ELSE Counted(withdrawn[k], Oldest)
  BY DEF Tick
<1>3. \A k \in Kids : withdrawn[k] \in 0..(Oldest + 1) /\ withdrawn'[k] \in 0..(Oldest + 1)
                      /\ withdrawn'[k] <= withdrawn[k] + 1
  <2>1. SUFFICES ASSUME NEW k \in Kids
                 PROVE  withdrawn[k] \in 0..(Oldest + 1) /\ withdrawn'[k] \in 0..(Oldest + 1)
                        /\ withdrawn'[k] <= withdrawn[k] + 1
    OBVIOUS
  <2>2. withdrawn[k] \in 0..(Oldest + 1)
    BY DEF TypeOK
  <2>3. Counted(withdrawn[k], Oldest) \in 0..(Oldest + 1)
        /\ Counted(withdrawn[k], Oldest) <= withdrawn[k] + 1
    BY <1>0, <2>2, CountedRange
  <2>4. QED BY <1>0, <1>2, <2>2, <2>3
<1>4. \A k \in published' : withdrawn'[k] = 0
  BY <1>1, <1>2 DEF TypeOK
<1>5. ASSUME NEW k \in doc' PROVE withdrawn'[k] <= elapsed'
  <2>1. owner # NoOne /\ elapsed < FetchTime /\ withdrawn[k] <= elapsed /\ k \in Kids
    BY <1>1, <1>5 DEF KeysAreRecent, Tick, Timely, TypeOK
  <2>2. elapsed' = elapsed + 1
    BY <2>1 DEF Tick, TypeOK
  <2>3. QED BY <1>3, <2>1, <2>2 DEF TypeOK
<1>6. ASSUME age' <= Refresh, NEW k \in keys' PROVE withdrawn'[k] <= age' + FetchTime
  <2>1. age <= Refresh /\ age' = age + 1
    BY <1>1, <1>6 DEF TypeOK, Counted
  <2>2. withdrawn[k] <= age + FetchTime /\ k \in Kids
    BY <1>1, <1>6, <2>1 DEF KeysAreRecent, TypeOK
  <2>3. QED BY <1>3, <2>1, <2>2 DEF TypeOK
<1>7. QED BY <1>1, <1>4, <1>5, <1>6 DEF KeysAreRecent

\* Every step keeps the cached keys recent.
LEMMA KeysAreRecentNext ==
  TypeOK /\ DownloadsAreAlone /\ KeysAreRecent /\ [Next]_vars => KeysAreRecent'
<1> SUFFICES ASSUME TypeOK, DownloadsAreAlone, KeysAreRecent, [Next]_vars PROVE KeysAreRecent'
  OBVIOUS
<1> USE CacheAssumption
<1>1. ASSUME NEW S \in SUBSET Kids, Rotate(S) PROVE KeysAreRecent'
  <2>1. \A k \in Kids : withdrawn'[k] \in Nat /\ withdrawn'[k] <= withdrawn[k] /\ withdrawn[k] \in Nat
    BY <1>1 DEF Rotate, TypeOK, Oldest
  <2>2. \A k \in S : withdrawn'[k] = 0
    BY <1>1 DEF Rotate
  <2>3. \A k \in doc : withdrawn'[k] <= elapsed
    BY <2>1 DEF KeysAreRecent, TypeOK
  <2>4. age <= Refresh => \A k \in keys : withdrawn'[k] <= age + FetchTime
    BY <2>1 DEF KeysAreRecent, TypeOK
  <2>5. QED BY <1>1, <2>2, <2>3, <2>4 DEF Rotate, KeysAreRecent, cache, lock
<1>2. CASE Toggle
  BY <1>2 DEF Toggle, KeysAreRecent, cache, lock
<1>3. CASE Tick
  BY <1>3, TickKeepsKeysRecent
<1>4. ASSUME NEW r \in Requests, NEW k \in Kids, Arrive(r, k) PROVE KeysAreRecent'
  BY <1>4 DEF Arrive, KeysAreRecent, idp, cache, lock
<1>5. ASSUME NEW r \in Requests, Lookup(r) PROVE KeysAreRecent'
  BY <1>5 DEF Lookup, KeysAreRecent, idp, cache
<1>6. ASSUME NEW r \in Requests, Refreshes(r) PROVE KeysAreRecent'
  BY <1>6 DEF Refreshes, KeysAreRecent, idp, cache
<1>7. ASSUME NEW r \in Requests, Answer(r) PROVE KeysAreRecent'
  <2>1. owner' # NoOne
    BY <1>7 DEF Answer, DownloadsAreAlone
  <2>2. \A k \in published : withdrawn[k] <= elapsed
    BY DEF KeysAreRecent, TypeOK
  <2>3. QED BY <1>7, <2>1, <2>2 DEF Answer, KeysAreRecent, idp, cache
<1>8. ASSUME NEW r \in Requests, FetchFails(r) PROVE KeysAreRecent'
  BY <1>8 DEF FetchFails, Unlock, KeysAreRecent, idp, cache
<1>9. ASSUME NEW r \in Requests, Decode(r) PROVE KeysAreRecent'
  <2>1. \A k \in doc : withdrawn[k] <= FetchTime
    BY DEF KeysAreRecent, TypeOK, Oldest
  <2>2. QED BY <1>9, <2>1 DEF Decode, Unlock, KeysAreRecent, idp, cache
<1>10. CASE UNCHANGED vars
  BY <1>10 DEF vars, KeysAreRecent, idp, cache, lock
<1>11. QED
  BY <1>1, <1>2, <1>3, <1>4, <1>5, <1>6, <1>7, <1>8, <1>9, <1>10 DEF Next, Step

-----------------------------------------------------------------------------

CacheInvariant == TypeOK /\ DownloadsAreAlone /\ KeysAreRecent

\* The three invariants together are inductive.
LEMMA CacheInvariantInductive ==
  (Init => CacheInvariant) /\ (CacheInvariant /\ [Next]_vars => CacheInvariant')
<1>1. Init => DownloadsAreAlone /\ KeysAreRecent
  BY CacheAssumption DEF Init, DownloadsAreAlone, KeysAreRecent
<1>2. QED
  BY <1>1, TypeOKInit, TypeOKNext, DownloadsAreAloneNext, KeysAreRecentNext DEF CacheInvariant

\* Only a lookup of a cached key accepts a token.
LEMMA AcceptedIsCached ==
  ASSUME TypeOK, [Next]_vars, NEW q \in Requests, pc[q] # "accepted", pc'[q] = "accepted"
  PROVE  Cached(kid[q])
<1>1. ASSUME NEW S \in SUBSET Kids, Rotate(S) PROVE FALSE
  BY <1>1 DEF Rotate
<1>2. CASE Toggle
  BY <1>2 DEF Toggle
<1>3. CASE Tick
  BY <1>3 DEF Tick
<1>4. ASSUME NEW r \in Requests, NEW k \in Kids, Arrive(r, k) PROVE FALSE
  BY <1>4 DEF Arrive, TypeOK
<1>5. ASSUME NEW r \in Requests, Lookup(r) PROVE Cached(kid[q])
  BY <1>5 DEF Lookup, TypeOK
<1>6. ASSUME NEW r \in Requests, Refreshes(r) PROVE FALSE
  BY <1>6 DEF Refreshes, TypeOK
<1>7. ASSUME NEW r \in Requests, Answer(r) PROVE FALSE
  BY <1>7 DEF Answer, TypeOK
<1>8. ASSUME NEW r \in Requests, FetchFails(r) PROVE FALSE
  BY <1>8 DEF FetchFails, TypeOK
<1>9. ASSUME NEW r \in Requests, Decode(r) PROVE FALSE
  BY <1>9 DEF Decode, TypeOK
<1>10. CASE UNCHANGED vars
  BY <1>10 DEF vars
<1>11. QED
  BY <1>1, <1>2, <1>3, <1>4, <1>5, <1>6, <1>7, <1>8, <1>9, <1>10 DEF Next, Step

\* A token is accepted only for a key that was published at most one refresh
\* interval and one download ago, for every number of requests and keys.
THEOREM AcceptedKeysAreRecentHolds == Spec => AcceptedKeysAreRecent
<1>1. ASSUME CacheInvariant, [Next]_vars
      PROVE  [\A r \in Requests :
                (pc[r] # "accepted" /\ pc'[r] = "accepted") => withdrawn[kid[r]] <= Oldest]_vars
  <2> SUFFICES ASSUME NEW r \in Requests, pc[r] # "accepted", pc'[r] = "accepted"
               PROVE  withdrawn[kid[r]] <= Oldest
    OBVIOUS
  <2>1. kid[r] \in keys /\ age <= Refresh
    BY <1>1, AcceptedIsCached DEF Cached, CacheInvariant
  <2>2. withdrawn[kid[r]] <= age + FetchTime /\ withdrawn[kid[r]] \in Nat
    BY <1>1, <2>1, CacheAssumption DEF CacheInvariant, KeysAreRecent, TypeOK, Oldest
  <2>3. QED BY <1>1, <2>1, <2>2, CacheAssumption DEF CacheInvariant, TypeOK, Oldest
<1>2. QED BY <1>1, CacheInvariantInductive, PTL DEF Spec, AcceptedKeysAreRecent

\* Only the end of a needed download replaces the keys or renews their age.
LEMMA ReplacedByDownload ==
  ASSUME CacheInvariant, [Next]_vars, keys' # keys \/ age' < age
  PROVE  keys = {} \/ age >= Refresh
<1> USE CacheAssumption
<1>1. ASSUME NEW S \in SUBSET Kids, Rotate(S) PROVE UNCHANGED cache
  BY <1>1 DEF Rotate
<1>2. CASE Toggle
  BY <1>2 DEF Toggle, cache, CacheInvariant, TypeOK
<1>3. CASE Tick
  <2>1. keys' = keys /\ age' >= age /\ age \in Nat /\ age' \in Nat
    BY <1>3, CountedRange DEF Tick, CacheInvariant, TypeOK
  <2>2. QED BY <2>1
<1>4. ASSUME NEW r \in Requests, NEW k \in Kids, Arrive(r, k) PROVE UNCHANGED cache
  BY <1>4 DEF Arrive
<1>5. ASSUME NEW r \in Requests, Lookup(r) \/ Refreshes(r) \/ Answer(r) \/ FetchFails(r)
      PROVE  UNCHANGED cache
  BY <1>5 DEF Lookup, Refreshes, Answer, FetchFails
<1>6. ASSUME NEW r \in Requests, Decode(r) PROVE keys = {} \/ age >= Refresh
  BY <1>6 DEF Decode, CacheInvariant, DownloadsAreAlone
<1>7. CASE UNCHANGED vars
  BY <1>7 DEF vars, cache, CacheInvariant, TypeOK
<1>8. UNCHANGED cache => keys' = keys /\ ~ (age' < age)
  BY DEF cache, CacheInvariant, TypeOK
<1>9. QED BY <1>1, <1>2, <1>3, <1>4, <1>5, <1>6, <1>7, <1>8 DEF Next, Step

\* However many requests miss at once, downloads that change the cache are a
\* refresh interval apart.
THEOREM DownloadsAreSpacedHolds == Spec => DownloadsAreSpaced
<1>1. ASSUME CacheInvariant, [Next]_vars
      PROVE  [(keys' # keys \/ age' < age) => keys = {} \/ age >= Refresh]_vars
  BY <1>1, ReplacedByDownload
<1>2. QED BY <1>1, CacheInvariantInductive, PTL DEF Spec, DownloadsAreSpaced

-----------------------------------------------------------------------------
(* The line for the write lock.                                           *)

\* How long a number of downloads takes at most, and how long the one that runs
\* may still take.
Downloads(j) == j * FetchTime
Left == IF owner = NoOne THEN 0 ELSE FetchTime - elapsed

\* The queue holds every request that waits for the write lock, once.
QueueIsTheLine ==
  /\ \A i, j \in DOMAIN queue : queue[i] = queue[j] => i = j
  /\ \A r \in Requests : pc[r] = "queued" <=> \E j \in DOMAIN queue : queue[j] = r

\* The lock is held by a download, and a download starts with all its time.
OwnerDownloads ==
  /\ owner # NoOne => pc[owner] \in {"fetch", "decode"}
  /\ owner = NoOne => elapsed = 0

\* What makes WaitIsBounded hold: what a request has waited, and what those
\* ahead of it and its own download may take, is no more than one download for
\* each request.  One that has waited before it looks the key up has waited for
\* another's download, whose request will not be in the line.
WaitsItsTurn ==
  /\ \A j \in DOMAIN queue : waited[queue[j]] + Left + Downloads(j) <= Patience
  /\ \A r \in Requests :
       /\ pc[r] = "idle" => waited[r] = 0
       /\ pc[r] \in {"fetch", "decode"} => waited[r] + Left <= Patience
       /\ pc[r] \in {"again", "accepted", "rejected"} => waited[r] <= Patience
       /\ pc[r] = "lookup" /\ owner # NoOne => waited[r] <= elapsed
       /\ pc[r] = "lookup" /\ owner = NoOne =>
            /\ waited[r] <= FetchTime
            /\ waited[r] > 0 => \E s \in Requests \ {r} : pc[s] \in {"again", "accepted", "rejected"}

Line == QueueIsTheLine /\ OwnerDownloads /\ WaitsItsTurn

\* Downloads one after the other.
LEMMA DownloadsAdd ==
  /\ \A j \in Nat : Downloads(j) \in Nat /\ Downloads(j + 1) = Downloads(j) + FetchTime
  /\ \A i, j \in Nat : i <= j => Downloads(i) <= Downloads(j)
  /\ Downloads(1) = FetchTime /\ Cardinality(Requests) \in Nat
  /\ Patience = Downloads(Cardinality(Requests)) /\ Patience \in Nat
<1>1. FetchTime \in Nat /\ Cardinality(Requests) \in Nat
  BY CacheAssumption, FS_CardinalityType
<1>2. \A f, j \in Nat : j * f \in Nat /\ (j + 1) * f = j * f + f /\ 1 * f = f
  BY Z3
<1>3. \A f, i, j \in Nat : i <= j => i * f <= j * f
  BY Z3
<1>4. QED BY <1>1, <1>2, <1>3, Zenon DEF Downloads, Patience

\* The line has no room for a request that does not wait for the lock.
LEMMA LineIsShort ==
  ASSUME TypeOK, QueueIsTheLine, NEW R \in SUBSET Requests, \A r \in R : pc[r] # "queued"
  PROVE  Len(queue) \in Nat /\ IsFiniteSet(R) /\ Cardinality(R) \in Nat
         /\ Len(queue) + Cardinality(R) <= Cardinality(Requests)
<1> DEFINE n == Len(queue)
           T == Requests \ R
<1>1. n \in Nat /\ DOMAIN queue = 1..n /\ \A j \in 1..n : queue[j] \in Requests
  BY DEF TypeOK
<1>2. \A j \in 1..n : queue[j] \in T
  BY <1>1 DEF QueueIsTheLine
<1> DEFINE f == [j \in 1..n |-> queue[j]]
<1>3. f \in Injection(1..n, T)
  BY <1>1, <1>2 DEF QueueIsTheLine, Injection, IsInjective
<1>4. IsFiniteSet(Requests) /\ IsFiniteSet(R) /\ IsFiniteSet(T)
  BY CacheAssumption, FS_Subset
<1>5. Cardinality(1..n) <= Cardinality(T)
  <2> HIDE DEF f, T
  <2>1. QED BY <1>3, <1>4, FS_Injection
<1>6. Cardinality(1..n) = n
  <2>1. 1 \in Int /\ n \in Int
    BY <1>1
  <2>2. Cardinality(1..n) = IF 1 > n THEN 0 ELSE n - 1 + 1
    BY <2>1, FS_Interval
  <2>3. QED BY <1>1, <2>2
<1>7. Cardinality(T) = Cardinality(Requests) - Cardinality(R)
  <2>1. Requests \cap R = R
    OBVIOUS
  <2>2. QED BY <1>4, <2>1, FS_Difference
<1>8. Cardinality(R) \in Nat /\ Cardinality(Requests) \in Nat
  BY <1>4, FS_CardinalityType
<1>9. QED BY <1>1, <1>4, <1>5, <1>6, <1>7, <1>8

\* Every step keeps the line.
LEMMA QueueIsTheLineNext == TypeOK /\ QueueIsTheLine /\ [Next]_vars => QueueIsTheLine'
<1> SUFFICES ASSUME TypeOK, QueueIsTheLine, [Next]_vars PROVE QueueIsTheLine'
  OBVIOUS
<1>1. ASSUME queue' = queue, \A r \in Requests : pc'[r] = "queued" <=> pc[r] = "queued"
      PROVE  QueueIsTheLine'
  BY <1>1 DEF QueueIsTheLine
<1>2. ASSUME NEW r \in Requests, queue' = Append(queue, r),
             pc[r] = "lookup", pc' = [pc EXCEPT ![r] = "queued"]
      PROVE  QueueIsTheLine'
  <2> DEFINE n == Len(queue)
  <2>1. /\ n \in Nat /\ DOMAIN queue = 1..n /\ DOMAIN queue' = 1..(n + 1)
        /\ \A j \in 1..n : queue'[j] = queue[j]
        /\ queue'[n + 1] = r
    BY <1>2 DEF TypeOK
  <2> HIDE DEF n
  <2>2. \A j \in 1..n : queue[j] # r
    BY <1>2, <2>1 DEF QueueIsTheLine
  <2>3. \A j \in 1..(n + 1) : j \in 1..n \/ j = n + 1
    BY <2>1
  <2>4. \A i, j \in DOMAIN queue' : queue'[i] = queue'[j] => i = j
    BY <2>1, <2>2, <2>3 DEF QueueIsTheLine
  <2>5. ASSUME NEW s \in Requests PROVE pc'[s] = "queued" <=> \E j \in DOMAIN queue' : queue'[j] = s
    <3>1. n + 1 \in 1..(n + 1) /\ 1..n \subseteq 1..(n + 1)
      BY <2>1
    <3>2. CASE s = r
      BY <1>2, <2>1, <3>1, <3>2 DEF TypeOK
    <3>3. CASE s # r
      <4>1. pc'[s] = pc[s]
        BY <1>2, <3>3 DEF TypeOK
      <4>2. (\E j \in DOMAIN queue' : queue'[j] = s) <=> \E j \in DOMAIN queue : queue[j] = s
        BY <2>1, <2>3, <3>1, <3>3
      <4>3. QED BY <4>1, <4>2 DEF QueueIsTheLine
    <3>4. QED BY <3>2, <3>3
  <2>6. QED BY <2>4, <2>5 DEF QueueIsTheLine
<1>3. ASSUME NEW r \in Requests, Refreshes(r) PROVE QueueIsTheLine'
  <2> DEFINE n == Len(queue)
  <2>1. /\ n \in Nat /\ n > 0 /\ DOMAIN queue = 1..n /\ DOMAIN queue' = 1..(n - 1)
        /\ \A j \in 1..(n - 1) : queue'[j] = queue[j + 1]
        /\ queue[1] = r
    BY <1>3 DEF TypeOK, Refreshes
  <2>2. \E v \in {"again", "fetch"} : pc' = [pc EXCEPT ![r] = v]
    BY <1>3 DEF Refreshes
  <2> HIDE DEF n
  <2>3. \A j \in 1..(n - 1) : j + 1 \in 1..n /\ j + 1 # 1
    BY <2>1
  <2>4. \A i, j \in DOMAIN queue' : queue'[i] = queue'[j] => i = j
    <3> SUFFICES ASSUME NEW i \in 1..(n - 1), NEW j \in 1..(n - 1), queue'[i] = queue'[j] PROVE i = j
      BY <2>1
    <3>1. queue[i + 1] = queue[j + 1]
      BY <2>1
    <3>2. i + 1 = j + 1
      BY <2>1, <2>3, <3>1 DEF QueueIsTheLine
    <3>3. QED BY <2>1, <3>2
  <2>5. ASSUME NEW s \in Requests PROVE pc'[s] = "queued" <=> \E j \in DOMAIN queue' : queue'[j] = s
    <3>1. CASE s = r
      <4>1. pc'[r] # "queued"
        BY <2>2 DEF TypeOK
      <4>2. \A j \in 1..(n - 1) : queue'[j] # r
        <5> SUFFICES ASSUME NEW j \in 1..(n - 1), queue[j + 1] = queue[1] PROVE FALSE
          BY <2>1
        <5>1. 1 \in 1..n
          BY <2>1
        <5>2. QED BY <2>1, <2>3, <5>1 DEF QueueIsTheLine
      <4>3. QED BY <2>1, <3>1, <4>1, <4>2
    <3>2. CASE s # r
      <4>1. pc'[s] = pc[s]
        BY <2>2, <3>2 DEF TypeOK
      <4>2. \A j \in 1..n : queue[j] = s => j - 1 \in 1..(n - 1) /\ queue'[j - 1] = s
        <5> SUFFICES ASSUME NEW j \in 1..n, queue[j] = s PROVE j - 1 \in 1..(n - 1) /\ queue'[j - 1] = s
          OBVIOUS
        <5>1. j # 1
          BY <2>1, <3>2
        <5>2. j - 1 \in 1..(n - 1) /\ (j - 1) + 1 = j
          BY <2>1, <5>1
        <5>3. QED BY <2>1, <5>2
      <4>3. (\E j \in DOMAIN queue' : queue'[j] = s) <=> \E j \in DOMAIN queue : queue[j] = s
        BY <2>1, <2>3, <4>2
      <4>4. QED BY <4>1, <4>3 DEF QueueIsTheLine
    <3>3. QED BY <3>1, <3>2
  <2>6. QED BY <2>4, <2>5 DEF QueueIsTheLine
<1>4. ASSUME NEW S \in SUBSET Kids, Rotate(S) PROVE QueueIsTheLine'
  BY <1>1, <1>4 DEF Rotate, lock
<1>5. CASE Toggle
  BY <1>1, <1>5 DEF Toggle, lock
<1>6. CASE Tick
  <2>1. \A r \in Requests : pc'[r] = "queued" <=> pc[r] = "queued"
    BY <1>6 DEF Tick, Over
  <2>2. QED BY <1>1, <1>6, <2>1 DEF Tick
<1>7. ASSUME NEW r \in Requests, NEW k \in Kids, Arrive(r, k) PROVE QueueIsTheLine'
  BY <1>1, <1>7 DEF Arrive, lock, TypeOK
<1>8. ASSUME NEW r \in Requests, Lookup(r) PROVE QueueIsTheLine'
  <2>1. \/ queue' = queue /\ \A s \in Requests : pc'[s] = "queued" <=> pc[s] = "queued"
        \/ queue' = Append(queue, r) /\ pc[r] = "lookup" /\ pc' = [pc EXCEPT ![r] = "queued"]
    BY <1>8 DEF Lookup, TypeOK
  <2>2. QED BY <1>1, <1>2, <2>1
<1>9. ASSUME NEW r \in Requests, Answer(r) \/ FetchFails(r) \/ Decode(r) PROVE QueueIsTheLine'
  <2>1. queue' = queue /\ \A s \in Requests : pc'[s] = "queued" <=> pc[s] = "queued"
    BY <1>9 DEF Answer, FetchFails, Decode, TypeOK
  <2>2. QED BY <1>1, <2>1
<1>10. CASE UNCHANGED vars
  BY <1>1, <1>10 DEF vars, lock
<1>11. QED
  BY <1>3, <1>4, <1>5, <1>6, <1>7, <1>8, <1>9, <1>10 DEF Next, Step

\* Every step keeps the lock with a download.
LEMMA OwnerDownloadsNext ==
  TypeOK /\ OwnerDownloads /\ DownloadsAreAlone /\ [Next]_vars => OwnerDownloads'
<1> SUFFICES ASSUME TypeOK, OwnerDownloads, DownloadsAreAlone, [Next]_vars PROVE OwnerDownloads'
  OBVIOUS
<1> USE CacheAssumption
<1>1. ASSUME NEW S \in SUBSET Kids, Rotate(S) PROVE OwnerDownloads'
  BY <1>1 DEF Rotate, lock, OwnerDownloads
<1>2. CASE Toggle
  BY <1>2 DEF Toggle, lock, OwnerDownloads
<1>3. CASE Tick
  BY <1>3 DEF Tick, Over, OwnerDownloads, TypeOK
<1>4. ASSUME NEW r \in Requests, NEW k \in Kids, Arrive(r, k) PROVE OwnerDownloads'
  BY <1>4 DEF Arrive, lock, OwnerDownloads, TypeOK
<1>5. ASSUME NEW r \in Requests, Lookup(r) PROVE OwnerDownloads'
  BY <1>5 DEF Lookup, OwnerDownloads, TypeOK
<1>6. ASSUME NEW r \in Requests, Refreshes(r) PROVE OwnerDownloads'
  BY <1>6 DEF Refreshes, MayWrite, OwnerDownloads, TypeOK
<1>7. ASSUME NEW r \in Requests, Answer(r) PROVE OwnerDownloads'
  BY <1>7 DEF Answer, OwnerDownloads, DownloadsAreAlone, TypeOK
<1>8. ASSUME NEW r \in Requests, FetchFails(r) \/ Decode(r) PROVE OwnerDownloads'
  BY <1>8 DEF FetchFails, Decode, Unlock, OwnerDownloads
<1>9. CASE UNCHANGED vars
  BY <1>9 DEF vars, lock, OwnerDownloads
<1>10. QED
  BY <1>1, <1>2, <1>3, <1>4, <1>5, <1>6, <1>7, <1>8, <1>9 DEF Next, Step

\* The numbers that a wait is made of.
LEMMA WaitNumbers ==
  ASSUME TypeOK
  PROVE  /\ FetchTime \in Nat /\ elapsed \in Nat /\ elapsed <= FetchTime
         /\ Left \in Nat /\ Left <= FetchTime
         /\ \A r \in Requests : waited[r] \in Nat
         /\ Len(queue) \in Nat /\ DOMAIN queue = 1..Len(queue)
         /\ \A j \in DOMAIN queue : queue[j] \in Requests /\ j \in Nat
BY CacheAssumption DEF TypeOK, Left

\* Some request is there to wait when one is: the patience holds a download.
LEMMA PatienceHoldsOne == ASSUME NEW r \in Requests PROVE FetchTime <= Patience
<1>1. Cardinality(Requests) \in Nat /\ Cardinality(Requests) # 0
  BY CacheAssumption, FS_CardinalityType, FS_EmptySet
<1>2. Downloads(1) <= Downloads(Cardinality(Requests))
  BY <1>1, DownloadsAdd
<1>3. QED BY <1>2, DownloadsAdd

\* Steps that neither move the line nor let time pass.
LEMMA LineStays ==
  ASSUME WaitsItsTurn, UNCHANGED <<queue, owner, elapsed, waited, pc>>
  PROVE  WaitsItsTurn'
BY DEF WaitsItsTurn, Left

\* Time passes only while a download runs, and brings its end nearer.
LEMMA TickKeepsTurn ==
  ASSUME TypeOK, TypeOK', OwnerDownloads, DownloadsAreAlone, QueueIsTheLine, WaitsItsTurn, Tick
  PROVE  WaitsItsTurn'
<1>0. /\ FetchTime \in Nat /\ elapsed \in Nat /\ elapsed <= FetchTime
      /\ Left \in Nat /\ Left <= FetchTime
      /\ Patience \in Nat /\ \A j \in Nat : Downloads(j) \in Nat
      /\ \A q \in Requests : waited[q] \in Nat
      /\ \A j \in DOMAIN queue : queue[j] \in Requests /\ j \in Nat
  BY WaitNumbers, DownloadsAdd
<1>1. UNCHANGED <<queue, owner>> /\ Patience \in Nat
  BY <1>0 DEF Tick
<1>2. \A r \in Requests : Over(r) => pc'[r] = "idle" /\ waited'[r] = 0
  BY DEF Tick, TypeOK
<1>3. \A r \in Requests : ~ Over(r) =>
        pc'[r] = pc[r] /\ waited'[r] \in Nat /\ waited'[r] <= waited[r] + 1
  <2> SUFFICES ASSUME NEW r \in Requests, ~ Over(r)
               PROVE  pc'[r] = pc[r] /\ waited'[r] \in Nat /\ waited'[r] <= waited[r] + 1
    OBVIOUS
  <2>1. pc'[r] = pc[r] /\ waited'[r] = Counted(waited[r], Patience)
    BY DEF Tick, TypeOK
  <2>2. QED BY <1>0, <2>1 DEF Counted
<1>4. ASSUME NEW r \in Requests, ~ Over(r) PROVE owner # NoOne
  BY <1>4, CacheAssumption DEF Tick, DownloadsAreAlone
<1>5. owner # NoOne => elapsed' = elapsed + 1 /\ Left = FetchTime - elapsed
                       /\ Left' = Left - 1 /\ elapsed < FetchTime
  BY <1>0, <1>1 DEF Tick, Timely, Left
<1>6. ASSUME NEW j \in DOMAIN queue'
      PROVE  waited'[queue'[j]] + Left' + Downloads(j) <= Patience
  <2>1. queue'[j] = queue[j] /\ j \in DOMAIN queue /\ queue[j] \in Requests /\ pc[queue[j]] = "queued"
    BY <1>0, <1>1 DEF QueueIsTheLine
  <2>2. waited[queue[j]] + Left + Downloads(j) <= Patience /\ Downloads(j) \in Nat
    BY <1>0, <2>1 DEF WaitsItsTurn
  <2>3. ~ Over(queue[j])
    BY <1>0, <2>1 DEF Over
  <2>4. waited'[queue[j]] <= waited[queue[j]] + 1 /\ waited'[queue[j]] \in Nat /\ waited[queue[j]] \in Nat
    BY <1>0, <1>3, <2>1, <2>3
  <2>5. Left' = Left - 1 /\ Left \in Nat
    BY <1>0, <1>4, <1>5, <2>1, <2>3
  <2>6. QED BY <1>0, <2>1, <2>2, <2>4, <2>5
<1>7. ASSUME NEW r \in Requests
      PROVE  /\ pc'[r] = "idle" => waited'[r] = 0
             /\ pc'[r] \in {"fetch", "decode"} => waited'[r] + Left' <= Patience
             /\ pc'[r] \notin {"again", "accepted", "rejected"}
             /\ pc'[r] = "lookup" => owner' # NoOne /\ waited'[r] <= elapsed'
  <2>1. CASE Over(r)
    BY <1>0, <1>2, <2>1
  <2>2. CASE ~ Over(r)
    <3>1. pc'[r] = pc[r] /\ owner # NoOne /\ pc[r] \notin {"idle", "again", "accepted", "rejected"}
      BY <1>0, <1>3, <1>4, <2>2 DEF Over, Tick, OwnerDownloads
    <3>2. waited'[r] <= waited[r] + 1 /\ waited'[r] \in Nat /\ waited[r] \in Nat
      BY <1>0, <1>3, <2>2
    <3>3. pc[r] \in {"fetch", "decode"} => waited[r] + Left <= Patience
      BY DEF WaitsItsTurn
    <3>4. pc[r] = "lookup" => waited[r] <= elapsed
      BY <1>0, <3>1 DEF WaitsItsTurn
    <3>5. elapsed' = elapsed + 1 /\ Left' = Left - 1 /\ Left \in Nat /\ elapsed \in Nat
      BY <1>0, <1>5, <3>1
    <3>6. pc[r] \in {"fetch", "decode"} => waited'[r] + Left' <= Patience
      BY <1>0, <3>2, <3>3, <3>5
    <3>7. pc[r] = "lookup" => waited'[r] <= elapsed'
      BY <1>0, <3>2, <3>4, <3>5
    <3>8. QED BY <1>1, <3>1, <3>6, <3>7
  <2>3. QED BY <1>0, <2>1, <2>2
<1>8. QED BY <1>0, <1>1, <1>6, <1>7 DEF WaitsItsTurn

\* Who finds no key takes its place behind those that wait already.
LEMMA LookupKeepsTurn ==
  ASSUME TypeOK, OwnerDownloads, QueueIsTheLine, WaitsItsTurn, NEW r \in Requests, Lookup(r)
  PROVE  WaitsItsTurn'
<1>0. /\ FetchTime \in Nat /\ elapsed \in Nat /\ elapsed <= FetchTime
      /\ Left \in Nat /\ Left <= FetchTime
      /\ Patience \in Nat /\ \A j \in Nat : Downloads(j) \in Nat
      /\ \A q \in Requests : waited[q] \in Nat
      /\ \A j \in DOMAIN queue : queue[j] \in Requests /\ j \in Nat
  BY WaitNumbers, DownloadsAdd
<1>1. UNCHANGED <<owner, elapsed, waited>> /\ owner = NoOne /\ Left = 0 /\ Left' = 0
  BY DEF Lookup, Left
<1>2. pc[r] \in {"lookup", "again"}
  BY DEF Lookup
<1>3. \A s \in Requests \ {r} : pc'[s] = pc[s]
  BY DEF Lookup, TypeOK
<1>4. waited[r] <= Patience /\ Patience \in Nat
  <2>1. waited[r] <= FetchTime \/ waited[r] <= Patience
    BY <1>0, <1>1, <1>2 DEF WaitsItsTurn
  <2>2. FetchTime <= Patience
    BY PatienceHoldsOne
  <2>3. QED BY <1>0, <2>1, <2>2
<1>5. ASSUME NEW s \in Requests, pc[s] \in {"again", "accepted", "rejected"}
      PROVE  pc'[s] \in {"again", "accepted", "rejected"}
  BY <1>0, <1>5 DEF Lookup, TypeOK
<1>6. pc'[r] \in {"accepted", "rejected", "queued"}
  BY DEF Lookup, TypeOK
<1>7. ASSUME NEW s \in Requests
      PROVE  /\ pc'[s] = "idle" => waited'[s] = 0
             /\ pc'[s] \in {"fetch", "decode"} => waited'[s] + Left' <= Patience
             /\ pc'[s] \in {"again", "accepted", "rejected"} => waited'[s] <= Patience
             /\ pc'[s] = "lookup" =>
                  /\ waited'[s] <= FetchTime
                  /\ waited'[s] > 0 => \E q \in Requests \ {s} : pc'[q] \in {"again", "accepted", "rejected"}
  <2>1. CASE s = r
    BY <1>0, <1>1, <1>4, <1>6, <2>1
  <2>2. CASE s # r
    <3>1. pc'[s] = pc[s] /\ waited'[s] = waited[s]
      BY <1>0, <1>1, <1>3, <2>2
    <3>2. QED BY <1>0, <1>1, <1>5, <3>1 DEF WaitsItsTurn
  <2>3. QED BY <1>0, <2>1, <2>2
<1>8. ASSUME NEW j \in DOMAIN queue'
      PROVE  waited'[queue'[j]] + Left' + Downloads(j) <= Patience
  <2>1. CASE queue' = queue
    BY <1>0, <1>1, <2>1 DEF WaitsItsTurn
  <2>2. CASE queue' = Append(queue, r) /\ pc[r] = "lookup"
    <3> DEFINE n == Len(queue)
    <3>1. /\ n \in Nat /\ DOMAIN queue = 1..n /\ DOMAIN queue' = 1..(n + 1)
          /\ \A k \in 1..n : queue'[k] = queue[k]
          /\ queue'[n + 1] = r
      <4>1. queue \in Seq(Requests) /\ r \in Requests
        BY DEF TypeOK
      <4>2. QED BY <2>2, <4>1
    <3> HIDE DEF n
    <3>2. CASE j \in 1..n
      BY <1>0, <1>1, <3>1, <3>2 DEF WaitsItsTurn
    <3>3. CASE j = n + 1
      <4>1. queue'[j] = r /\ waited'[r] = waited[r]
        BY <1>0, <1>1, <3>1, <3>3
      <4>2. CASE waited[r] = 0
        <5>1. n + 1 <= Cardinality(Requests)
          <6>1. Cardinality({r}) = 1
            BY FS_Singleton
          <6>2. n + Cardinality({r}) <= Cardinality(Requests)
            BY <1>0, <2>2, LineIsShort DEF n
          <6>3. QED BY <1>0, <6>1, <6>2
        <5>2. Downloads(n + 1) <= Patience /\ Downloads(n + 1) \in Nat
          BY <3>1, <5>1, DownloadsAdd
        <5>3. QED BY <1>0, <1>1, <3>3, <4>1, <4>2, <5>2
      <4>3. CASE waited[r] > 0
        <5>1. PICK s \in Requests \ {r} : pc[s] \in {"again", "accepted", "rejected"}
          BY <1>0, <1>1, <2>2, <4>3 DEF WaitsItsTurn
        <5>2. n + 2 <= Cardinality(Requests)
          <6>1. IsFiniteSet({r}) /\ Cardinality({r}) = 1 /\ s \notin {r}
            BY FS_Singleton, <5>1
          <6>2. Cardinality({r} \cup {s}) = 2
            <7>1. Cardinality({r} \cup {s}) = IF s \in {r} THEN Cardinality({r}) ELSE Cardinality({r}) + 1
              BY <6>1, FS_AddElement, Zenon
            <7>2. QED BY <6>1, <7>1
          <6>3. {r} \cup {s} \in SUBSET Requests /\ \A q \in {r} \cup {s} : pc[q] # "queued"
            BY <1>0, <2>2, <5>1
          <6>4. n + Cardinality({r} \cup {s}) <= Cardinality(Requests)
            BY <1>0, <6>3, LineIsShort DEF n
          <6>5. QED BY <1>0, <6>2, <6>4
        <5>3. Downloads((n + 1) + 1) <= Patience /\ Downloads((n + 1) + 1) = Downloads(n + 1) + FetchTime
              /\ Downloads(n + 1) \in Nat
          <6>1. n + 1 \in Nat /\ (n + 1) + 1 \in Nat /\ (n + 1) + 1 <= Cardinality(Requests)
            BY <1>0, <3>1, <5>2
          <6>2. QED BY <6>1, DownloadsAdd
        <5>4. waited[r] <= FetchTime /\ waited[r] \in Nat
          BY <1>0, <1>1, <2>2 DEF WaitsItsTurn
        <5>5. waited[r] + Downloads(n + 1) <= Patience
          <6> DEFINE a == Downloads(n + 1)
                     b == Downloads((n + 1) + 1)
          <6>1. a \in Nat /\ b = a + FetchTime /\ b <= Patience
            BY <5>3
          <6> HIDE DEF a, b
          <6>2. waited[r] + a <= Patience
            BY <1>0, <5>4, <6>1
          <6>3. QED BY <6>2 DEF a
        <5>6. QED BY <1>0, <1>1, <3>3, <4>1, <5>3, <5>4, <5>5
      <4>4. QED BY <1>0, <4>2, <4>3
    <3>4. j \in 1..n \/ j = n + 1
      BY <3>1
    <3>5. QED BY <3>2, <3>3, <3>4
  <2>3. QED BY <1>0, <2>1, <2>2 DEF Lookup
<1>9. QED BY <1>0, <1>1, <1>7, <1>8 DEF WaitsItsTurn

\* The first of the line goes to download, or finds the keys fresh: the others
\* are one download nearer.
LEMMA RefreshesKeepsTurn ==
  ASSUME TypeOK, OwnerDownloads, DownloadsAreAlone, QueueIsTheLine, WaitsItsTurn,
         NEW r \in Requests, Refreshes(r)
  PROVE  WaitsItsTurn'
<1>0. /\ FetchTime \in Nat /\ elapsed \in Nat /\ elapsed <= FetchTime
      /\ Patience \in Nat /\ \A j \in Nat : Downloads(j) \in Nat
      /\ \A q \in Requests : waited[q] \in Nat
      /\ \A j \in DOMAIN queue : queue[j] \in Requests /\ j \in Nat
  BY WaitNumbers, DownloadsAdd
<1>1. UNCHANGED <<elapsed, waited>> /\ owner = NoOne /\ Left = 0 /\ elapsed = 0
  BY DEF Refreshes, MayWrite, Left, OwnerDownloads
<1>2. \A s \in Requests : pc[s] \notin {"lookup", "again"}
  BY DEF Refreshes, MayWrite
<1>3. Left' \in Nat /\ Left' <= FetchTime
  BY <1>0, <1>1 DEF Left
<1>4. \A s \in Requests \ {r} : pc'[s] = pc[s]
  BY DEF Refreshes, TypeOK
<1>5. pc'[r] \in {"again", "fetch"}
  BY DEF Refreshes, TypeOK
<1> DEFINE n == Len(queue)
<1>6. /\ n \in Nat /\ n > 0 /\ DOMAIN queue = 1..n /\ DOMAIN queue' = 1..(n - 1)
      /\ \A j \in 1..(n - 1) : queue'[j] = queue[j + 1]
      /\ queue[1] = r
  BY DEF TypeOK, Refreshes
<1> HIDE DEF n
<1>7. waited[r] + FetchTime <= Patience
  <2>1. waited[queue[1]] + Left + Downloads(1) <= Patience
    <3>1. 1 \in DOMAIN queue
      BY <1>6
    <3>2. QED BY <3>1 DEF WaitsItsTurn
  <2>2. Downloads(1) = FetchTime
    BY DownloadsAdd
  <2>3. queue[1] = r /\ waited[r] \in Nat
    BY <1>0, <1>6
  <2>4. waited[r] + 0 + FetchTime <= Patience
    BY <1>1, <2>1, <2>2, <2>3, Zenon
  <2>5. QED BY <1>0, <2>3, <2>4
<1>8. ASSUME NEW s \in Requests
      PROVE  /\ pc'[s] = "idle" => waited'[s] = 0
             /\ pc'[s] \in {"fetch", "decode"} => waited'[s] + Left' <= Patience
             /\ pc'[s] \in {"again", "accepted", "rejected"} => waited'[s] <= Patience
             /\ pc'[s] # "lookup"
  <2>1. CASE s = r
    <3>1. waited'[r] + Left' <= Patience /\ waited'[r] <= Patience
      BY <1>0, <1>1, <1>3, <1>7
    <3>2. QED BY <1>5, <2>1, <3>1
  <2>2. CASE s # r
    <3>1. pc'[s] = pc[s] /\ waited'[s] = waited[s]
      BY <1>1, <1>4, <2>2
    <3>2. pc[s] \notin {"fetch", "decode"}
      BY <1>1, CacheAssumption DEF DownloadsAreAlone
    <3>3. QED BY <1>2, <3>1, <3>2 DEF WaitsItsTurn
  <2>3. QED BY <2>1, <2>2
<1>9. ASSUME NEW j \in DOMAIN queue'
      PROVE  waited'[queue'[j]] + Left' + Downloads(j) <= Patience
  <2>1. j \in Nat /\ j + 1 \in 1..n /\ queue'[j] = queue[j + 1] /\ queue[j + 1] \in Requests
    <3>1. j \in 1..(n - 1)
      BY <1>6
    <3>2. j \in Nat /\ j + 1 \in 1..n
      BY <1>6, <3>1
    <3>3. QED BY <1>0, <1>6, <3>1, <3>2
  <2>2. waited[queue[j + 1]] + Left + Downloads(j + 1) <= Patience
    BY <1>6, <2>1 DEF WaitsItsTurn
  <2>3. PICK a : a = Downloads(j)
    OBVIOUS
  <2>4. Downloads(j + 1) = a + FetchTime /\ a \in Nat
    BY <2>1, <2>3, DownloadsAdd
  <2>5. PICK w \in Nat : w = waited[queue[j + 1]]
    BY <1>0, <2>1
  <2>6. w + 0 + (a + FetchTime) <= Patience
    BY <1>1, <2>2, <2>4, <2>5
  <2>7. w + Left' + a <= Patience
    <3>1. PICK l \in Nat : l = Left' /\ l <= FetchTime
      BY <1>3
    <3>2. FetchTime \in Nat /\ Patience \in Nat /\ a \in Nat /\ w \in Nat
      BY <1>0, <2>4
    <3>3. \A f, p, x, y, z \in Nat : x <= f /\ y + 0 + (z + f) <= p => y + x + z <= p
      OBVIOUS
    <3>4. w + l + a <= Patience
      BY <2>6, <3>1, <3>2, <3>3, Zenon
    <3>5. QED BY <3>1, <3>4
  <2>8. waited'[queue'[j]] = w
    BY <1>1, <2>1, <2>5
  <2>9. QED BY <2>3, <2>7, <2>8
<1>10. QED BY <1>8, <1>9 DEF WaitsItsTurn

\* The end of a download frees the lock before its time has run out.
LEMMA UnlockKeepsTurn ==
  ASSUME TypeOK, OwnerDownloads, DownloadsAreAlone, QueueIsTheLine, WaitsItsTurn,
         NEW r \in Requests, FetchFails(r) \/ Decode(r)
  PROVE  WaitsItsTurn'
<1>0. /\ FetchTime \in Nat /\ elapsed \in Nat /\ elapsed <= FetchTime
      /\ Left \in Nat /\ Left <= FetchTime
      /\ Patience \in Nat /\ \A j \in Nat : Downloads(j) \in Nat
      /\ \A q \in Requests : waited[q] \in Nat
      /\ \A j \in DOMAIN queue : queue[j] \in Requests /\ j \in Nat
  BY WaitNumbers, DownloadsAdd
<1>1. UNCHANGED <<queue, waited>> /\ owner' = NoOne /\ Left' = 0
  BY DEF FetchFails, Decode, Unlock, Left
<1>2. pc[r] \in {"fetch", "decode"} /\ owner = r /\ owner # NoOne
  BY CacheAssumption DEF FetchFails, Decode, DownloadsAreAlone
<1>3. pc'[r] \in {"again", "rejected"} /\ \A s \in Requests \ {r} : pc'[s] = pc[s]
  BY DEF FetchFails, Decode, TypeOK
<1>4. waited[r] <= Patience
  <2>1. waited[r] + Left <= Patience
    BY <1>2 DEF WaitsItsTurn
  <2>2. QED BY <1>0, <2>1
<1>5. ASSUME NEW s \in Requests
      PROVE  /\ pc'[s] = "idle" => waited'[s] = 0
             /\ pc'[s] \in {"fetch", "decode"} => waited'[s] + Left' <= Patience
             /\ pc'[s] \in {"again", "accepted", "rejected"} => waited'[s] <= Patience
             /\ pc'[s] = "lookup" =>
                  /\ waited'[s] <= FetchTime
                  /\ waited'[s] > 0 => \E q \in Requests \ {s} : pc'[q] \in {"again", "accepted", "rejected"}
  <2>1. CASE s = r
    BY <1>1, <1>3, <1>4, <2>1
  <2>2. CASE s # r
    <3>1. pc'[s] = pc[s] /\ waited'[s] = waited[s] /\ r \in Requests \ {s}
      BY <1>1, <1>3, <2>2
    <3>2. pc[s] \notin {"fetch", "decode"}
      BY <1>2, <2>2 DEF DownloadsAreAlone
    <3>3. pc[s] = "lookup" => waited[s] <= elapsed
      BY <1>2 DEF WaitsItsTurn
    <3>4. pc[s] = "lookup" => waited[s] <= FetchTime
      BY <1>0, <3>3
    <3>5. QED BY <1>3, <3>1, <3>2, <3>4 DEF WaitsItsTurn
  <2>3. QED BY <2>1, <2>2
<1>6. ASSUME NEW j \in DOMAIN queue'
      PROVE  waited'[queue'[j]] + Left' + Downloads(j) <= Patience
  <2>1. j \in DOMAIN queue /\ queue'[j] = queue[j] /\ queue[j] \in Requests /\ j \in Nat
    BY <1>0, <1>1
  <2>2. PICK w \in Nat, a \in Nat : w = waited[queue[j]] /\ a = Downloads(j)
    BY <1>0, <2>1
  <2>3. w + Left + a <= Patience
    BY <2>1, <2>2 DEF WaitsItsTurn
  <2>4. w + 0 + a <= Patience
    BY <1>0, <2>3
  <2>5. QED BY <1>1, <2>1, <2>2, <2>4
<1>7. QED BY <1>1, <1>5, <1>6 DEF WaitsItsTurn

\* Every step keeps every request's turn.
LEMMA WaitsItsTurnNext ==
  TypeOK /\ TypeOK' /\ Line /\ DownloadsAreAlone /\ [Next]_vars => WaitsItsTurn'
<1> SUFFICES ASSUME TypeOK, TypeOK', Line, DownloadsAreAlone, [Next]_vars PROVE WaitsItsTurn'
  OBVIOUS
<1>0. QueueIsTheLine /\ OwnerDownloads /\ WaitsItsTurn
  BY DEF Line
<1>1. ASSUME NEW S \in SUBSET Kids, Rotate(S) PROVE WaitsItsTurn'
  BY <1>0, <1>1, LineStays DEF Rotate, lock
<1>2. CASE Toggle
  BY <1>0, <1>2, LineStays DEF Toggle, lock
<1>3. CASE Tick
  BY <1>0, <1>3, TickKeepsTurn
<1>4. ASSUME NEW r \in Requests, NEW k \in Kids, Arrive(r, k) PROVE WaitsItsTurn'
  <2>1. UNCHANGED <<queue, owner, elapsed, waited>> /\ Left' = Left
    BY <1>4 DEF Arrive, lock, Left
  <2>2. pc[r] = "idle" /\ pc'[r] = "lookup" /\ \A s \in Requests \ {r} : pc'[s] = pc[s]
    BY <1>4 DEF Arrive, TypeOK
  <2>3. waited[r] = 0 /\ elapsed >= 0 /\ FetchTime >= 0
    BY <1>0, <2>2, WaitNumbers DEF WaitsItsTurn
  <2>4. ASSUME NEW s \in Requests
        PROVE  /\ pc'[s] = "idle" => waited'[s] = 0
               /\ pc'[s] \in {"fetch", "decode"} => waited'[s] + Left' <= Patience
               /\ pc'[s] \in {"again", "accepted", "rejected"} => waited'[s] <= Patience
               /\ pc'[s] = "lookup" /\ owner' # NoOne => waited'[s] <= elapsed'
               /\ pc'[s] = "lookup" /\ owner' = NoOne =>
                    /\ waited'[s] <= FetchTime
                    /\ waited'[s] > 0 => \E q \in Requests \ {s} : pc'[q] \in {"again", "accepted", "rejected"}
    <3>1. CASE s = r
      BY <2>1, <2>2, <2>3, <3>1
    <3>2. CASE s # r
      <4>1. pc'[s] = pc[s] /\ waited'[s] = waited[s]
        BY <2>1, <2>2, <3>2
      <4>2. \A q \in Requests : pc[q] \in {"again", "accepted", "rejected"} =>
                                  pc'[q] \in {"again", "accepted", "rejected"}
        BY <2>2
      <4>3. QED BY <1>0, <2>1, <4>1, <4>2 DEF WaitsItsTurn
    <3>3. QED BY <3>1, <3>2
  <2>5. \A j \in DOMAIN queue' : waited'[queue'[j]] + Left' + Downloads(j) <= Patience
    BY <1>0, <2>1 DEF WaitsItsTurn
  <2>6. QED BY <2>4, <2>5 DEF WaitsItsTurn
<1>5. ASSUME NEW r \in Requests, Lookup(r) PROVE WaitsItsTurn'
  BY <1>0, <1>5, LookupKeepsTurn
<1>6. ASSUME NEW r \in Requests, Refreshes(r) PROVE WaitsItsTurn'
  BY <1>0, <1>6, RefreshesKeepsTurn
<1>7. ASSUME NEW r \in Requests, Answer(r) PROVE WaitsItsTurn'
  <2>1. UNCHANGED <<queue, owner, elapsed, waited>> /\ Left' = Left
    BY <1>7 DEF Answer, Left
  <2>2. pc[r] = "fetch" /\ pc'[r] = "decode" /\ \A s \in Requests \ {r} : pc'[s] = pc[s]
    BY <1>7 DEF Answer, TypeOK
  <2>3. ASSUME NEW s \in Requests
        PROVE  /\ pc'[s] = "idle" => waited'[s] = 0
               /\ pc'[s] \in {"fetch", "decode"} => waited'[s] + Left' <= Patience
               /\ pc'[s] \in {"again", "accepted", "rejected"} => waited'[s] <= Patience
               /\ pc'[s] = "lookup" /\ owner' # NoOne => waited'[s] <= elapsed'
               /\ pc'[s] = "lookup" /\ owner' = NoOne =>
                    /\ waited'[s] <= FetchTime
                    /\ waited'[s] > 0 => \E q \in Requests \ {s} : pc'[q] \in {"again", "accepted", "rejected"}
    <3>1. CASE s = r
      BY <1>0, <2>1, <2>2, <3>1 DEF WaitsItsTurn
    <3>2. CASE s # r
      <4>1. pc'[s] = pc[s] /\ waited'[s] = waited[s]
        BY <2>1, <2>2, <3>2
      <4>2. \A q \in Requests : pc[q] \in {"again", "accepted", "rejected"} =>
                                  pc'[q] \in {"again", "accepted", "rejected"}
        BY <2>2
      <4>3. QED BY <1>0, <2>1, <4>1, <4>2 DEF WaitsItsTurn
    <3>3. QED BY <3>1, <3>2
  <2>4. \A j \in DOMAIN queue' : waited'[queue'[j]] + Left' + Downloads(j) <= Patience
    BY <1>0, <2>1 DEF WaitsItsTurn
  <2>5. QED BY <2>3, <2>4 DEF WaitsItsTurn
<1>8. ASSUME NEW r \in Requests, FetchFails(r) \/ Decode(r) PROVE WaitsItsTurn'
  BY <1>0, <1>8, UnlockKeepsTurn
<1>9. CASE UNCHANGED vars
  BY <1>0, <1>9, LineStays DEF vars, lock
<1>10. QED
  BY <1>1, <1>2, <1>3, <1>4, <1>5, <1>6, <1>7, <1>8, <1>9 DEF Next, Step

\* The line starts empty, with nobody waiting.
LEMMA LineInit == Init => Line
<1> SUFFICES ASSUME Init PROVE Line
  OBVIOUS
<1>1. queue = <<>> /\ DOMAIN queue = {}
  BY DEF Init
<1>2. QED BY <1>1 DEF Init, Line, QueueIsTheLine, OwnerDownloads, WaitsItsTurn

\* The line, the lock and everybody's turn are kept in every behaviour.
THEOREM LineCorrect == Spec => []Line
<1>1. CacheInvariant /\ CacheInvariant' /\ Line /\ [Next]_vars => Line'
  BY QueueIsTheLineNext, OwnerDownloadsNext, WaitsItsTurnNext DEF CacheInvariant, Line
<1>2. QED BY <1>1, LineInit, CacheInvariantInductive, PTL DEF Spec

\* No call waits longer than one download for each of the calls, however many
\* requests, and whatever the provider does.
THEOREM WaitIsBoundedCorrect == Spec => []WaitIsBounded
<1>1. TypeOK /\ Line => WaitIsBounded
  <2> SUFFICES ASSUME TypeOK, Line, NEW r \in Requests PROVE waited[r] <= Patience
    BY DEF WaitIsBounded
  <2>1. /\ FetchTime \in Nat /\ elapsed \in Nat /\ elapsed <= FetchTime /\ Left \in Nat
        /\ waited[r] \in Nat /\ Patience \in Nat /\ FetchTime <= Patience
    BY WaitNumbers, DownloadsAdd, PatienceHoldsOne
  <2>2. CASE pc[r] = "queued"
    <3>1. PICK j \in DOMAIN queue : queue[j] = r
      BY <2>2 DEF Line, QueueIsTheLine
    <3>2. waited[r] + Left + Downloads(j) <= Patience
      BY <3>1 DEF Line, WaitsItsTurn
    <3>3. Downloads(j) \in Nat
      BY <3>1, WaitNumbers, DownloadsAdd
    <3>4. QED BY <2>1, <3>2, <3>3
  <2>3. CASE pc[r] # "queued"
    <3>1. \/ waited[r] = 0 \/ waited[r] + Left <= Patience \/ waited[r] <= Patience
          \/ waited[r] <= elapsed \/ waited[r] <= FetchTime
      BY <2>3 DEF Line, WaitsItsTurn, TypeOK
    <3>2. QED BY <2>1, <3>1
  <2>4. QED BY <2>2, <2>3
<1>2. QED BY <1>1, LineCorrect, CacheTypeCorrect, PTL
=============================================================================
