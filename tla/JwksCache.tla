----------------------------- MODULE JwksCache -----------------------------
(***************************************************************************)
(* The cache of signing keys behind every authenticated call: keyFunc,     *)
(* lookup and refreshKeys of internal/platform/auth/jwks.go.  A request    *)
(* looks its token's key up under the read lock; on a miss it takes the    *)
(* write lock and, unless the cache is fresh by then, downloads the keys   *)
(* while it holds the lock.  The identity provider (external) rotates its  *)
(* keys and goes away at will.                                             *)
(*                                                                         *)
(* Time passes only while a download runs or nothing happens: the other    *)
(* steps are instantaneous next to the ten seconds a download may take.    *)
(* Bound: Requests are slots, each serving at most one call per tick.      *)
(***************************************************************************)
EXTENDS Naturals, Sequences, FiniteSets

CONSTANTS
  Requests,   \* the calls being authenticated
  Kids,       \* key ids
  Refresh,    \* OIDC_JWKS_REFRESH, in ticks
  FetchTime,  \* the timeout of the HTTP client, in ticks
  NoOne

ASSUME CacheAssumption ==
  /\ Refresh \in Nat \ {0} /\ FetchTime \in Nat
  /\ NoOne \notin Requests
  /\ IsFiniteSet(Requests)

VARIABLES
  published,  \* the usable signing keys the provider serves
  up,         \* the provider answers within the timeout
  withdrawn,  \* history: ticks since a key was last published, 0 while it is
  keys, age,  \* the cache: its keys (none: nothing was ever fetched), ticks since fetchedAt
  queue,      \* requests that wait for the write lock
  owner,      \* the request that holds it
  doc,        \* the answer its download has got
  elapsed,    \* ticks its download has taken
  pc, kid,    \* pc[r], kid[r]: where request r stands, and the key its token names
  waited      \* history: ticks since request r arrived

idp   == <<published, up, withdrawn>>
cache == <<keys, age>>
lock  == <<queue, owner, doc, elapsed>>
vars  == <<idp, cache, lock, pc, kid, waited>>

\* Counters stop one past the values the code and the properties tell apart.
Oldest  == Refresh + FetchTime
Patience == Cardinality(Requests) * FetchTime
Counted(n, last) == IF n > last THEN n ELSE n + 1

TypeOK ==
  /\ published \subseteq Kids /\ up \in BOOLEAN
  /\ withdrawn \in [Kids -> 0..(Oldest + 1)]
  /\ keys \subseteq Kids /\ age \in 0..(Refresh + 1)
  /\ queue \in Seq(Requests) /\ owner \in Requests \cup {NoOne}
  /\ doc \subseteq Kids /\ elapsed \in 0..FetchTime
  /\ pc \in [Requests ->
       {"idle", "lookup", "queued", "fetch", "decode", "again", "accepted", "rejected"}]
  /\ kid \in [Requests -> Kids]
  /\ waited \in [Requests -> Nat]

Init ==
  /\ published \in SUBSET Kids /\ up \in BOOLEAN
  /\ withdrawn = [k \in Kids |-> IF k \in published THEN 0 ELSE Oldest + 1]
  /\ keys = {} /\ age = 0
  /\ queue = <<>> /\ owner = NoOne /\ doc = {} /\ elapsed = 0
  /\ pc = [r \in Requests |-> "idle"]
  /\ kid \in [Requests -> Kids]
  /\ waited = [r \in Requests |-> 0]

-----------------------------------------------------------------------------
(* The environment.                                                        *)

\* The provider publishes other keys: new ones, fewer, or none that is usable.
Rotate(S) ==
  /\ S # published
  /\ published' = S
  /\ withdrawn' = [k \in Kids |-> IF k \in S THEN 0 ELSE withdrawn[k]]
  /\ UNCHANGED <<up, cache, lock, pc, kid, waited>>

Toggle ==
  /\ up' = ~ up
  /\ UNCHANGED <<published, withdrawn, cache, lock, pc, kid, waited>>

Over(r) == pc[r] \in {"idle", "accepted", "rejected"}

\* http.Client's Timeout ends a download; without it time just passes.
NoTimeout == TRUE
Timely == owner # NoOne => elapsed < FetchTime

Tick ==
  /\ Timely
  /\ \A r \in Requests : Over(r) \/ pc[r] = "fetch" \/
       (owner # NoOne /\ pc[owner] = "fetch" /\ pc[r] \in {"lookup", "queued"})
  /\ age' = Counted(age, Refresh)
  /\ elapsed' = IF owner = NoOne \/ elapsed = FetchTime THEN elapsed ELSE elapsed + 1
  /\ withdrawn' = [k \in Kids |-> IF k \in published THEN 0 ELSE Counted(withdrawn[k], Oldest)]
  /\ waited' = [r \in Requests |-> IF Over(r) THEN 0 ELSE Counted(waited[r], Patience)]
  /\ pc' = [r \in Requests |-> IF Over(r) THEN "idle" ELSE pc[r]]
  /\ UNCHANGED <<published, up, keys, queue, owner, doc, kid>>

-----------------------------------------------------------------------------
(* Validate.                                                               *)

\* A call arrives with a token signed with key k.
Arrive(r, k) ==
  /\ pc[r] = "idle"
  /\ kid' = [kid EXCEPT ![r] = k]
  /\ pc' = [pc EXCEPT ![r] = "lookup"]
  /\ UNCHANGED <<idp, cache, lock, waited>>

\* lookup: the key is there, and the cache has not expired.
CachedOfAnyAge(k) == k \in keys
Cached(k) == k \in keys /\ age <= Refresh
\* refreshKeys has nothing to do.
FetchedOnce == keys # {}
Fresh == keys # {} /\ age < Refresh

\* The read lock: nobody writes.  A miss sends the request to the write lock,
\* and the second lookup decides.
Lookup(r) ==
  /\ owner = NoOne
  /\ \/ /\ pc[r] \in {"lookup", "again"} /\ Cached(kid[r])
        /\ pc' = [pc EXCEPT ![r] = "accepted"]
        /\ UNCHANGED queue
     \/ /\ pc[r] = "lookup" /\ ~ Cached(kid[r])
        /\ pc' = [pc EXCEPT ![r] = "queued"]
        /\ queue' = Append(queue, r)
     \/ /\ pc[r] = "again" /\ ~ Cached(kid[r])
        /\ pc' = [pc EXCEPT ![r] = "rejected"]
        /\ UNCHANGED queue
  /\ UNCHANGED <<idp, cache, owner, doc, elapsed, kid, waited>>

\* sync.RWMutex: writers in their order, after the readers that wait already.
Unlocked == TRUE
MayWrite == owner = NoOne /\ \A r \in Requests : pc[r] \notin {"lookup", "again"}

\* refreshKeys takes the write lock: the keys are fresh by now, or it sends its
\* request to the provider, under a context no caller can cancel.
Refreshes(r) ==
  /\ MayWrite
  /\ queue # <<>> /\ Head(queue) = r
  /\ queue' = Tail(queue)
  /\ IF Fresh
       THEN pc' = [pc EXCEPT ![r] = "again"] /\ UNCHANGED <<owner, doc, elapsed>>
       ELSE /\ pc' = [pc EXCEPT ![r] = "fetch"]
            /\ owner' = r /\ UNCHANGED <<doc, elapsed>>
  /\ UNCHANGED <<idp, cache, kid, waited>>

Unlock == owner' = NoOne /\ doc' = {} /\ elapsed' = 0

\* The provider answers with what it publishes now.
Answer(r) ==
  /\ pc[r] = "fetch" /\ up
  /\ doc' = published
  /\ pc' = [pc EXCEPT ![r] = "decode"]
  /\ UNCHANGED <<idp, cache, queue, owner, elapsed, kid, waited>>

\* No answer, an error, or an answer that breaks off: the old keys stay.
FetchFails(r) ==
  /\ pc[r] \in {"fetch", "decode"} /\ ~ up
  /\ pc' = [pc EXCEPT ![r] = "rejected"]
  /\ Unlock
  /\ UNCHANGED <<idp, cache, queue, kid, waited>>

\* The answer is decoded; one without a usable key is an error.
Decode(r) ==
  /\ pc[r] = "decode"
  /\ IF doc = {}
       THEN pc' = [pc EXCEPT ![r] = "rejected"] /\ UNCHANGED cache
       ELSE pc' = [pc EXCEPT ![r] = "again"] /\ keys' = doc /\ age' = 0
  /\ Unlock
  /\ UNCHANGED <<idp, queue, kid, waited>>

Step(r) == Lookup(r) \/ Refreshes(r) \/ Answer(r) \/ FetchFails(r) \/ Decode(r)

Next ==
  \/ \E S \in SUBSET Kids : Rotate(S)
  \/ Toggle
  \/ Tick
  \/ \E r \in Requests : (\E k \in Kids : Arrive(r, k)) \/ Step(r)

Spec == Init /\ [][Next]_vars

\* Goroutines run, the RWMutex starves neither readers nor writers, and time
\* passes.
Fairness == WF_vars(Tick) /\ \A r \in Requests : SF_vars(Step(r))
FairSpec == Spec /\ Fairness

-----------------------------------------------------------------------------
(* Correctness.                                                            *)

\* A token is accepted only for a key the provider published at most one
\* refresh interval and one download ago, whatever rotates or fails meanwhile:
\* a failed refresh never revives expired keys (lookup's expiry, jwks.go).
AcceptedKeysAreRecent ==
  [][\A r \in Requests :
       (pc[r] # "accepted" /\ pc'[r] = "accepted") => withdrawn[kid[r]] <= Oldest]_vars

\* However many requests miss at once, one download serves them all: the keys
\* are replaced only when they have reached the refresh interval (refreshKeys
\* looks at fetchedAt again under the lock).
DownloadsAreSpaced ==
  [][(keys' # keys \/ age' < age) => keys = {} \/ age >= Refresh]_vars

\* With the provider away every request downloads for itself, one after the
\* other: a call waits for those ahead of it and no longer (the client's
\* timeout, and the order of the lock).
WaitIsBounded == \A r \in Requests : waited[r] <= Patience

\* Once the provider answers and goes on publishing a key, calls with tokens of
\* that key are not refused for ever (module.go: 401 until the keys are there).
PublishedKeyGetsIn ==
  \A r \in Requests, k \in Kids :
    (<>[](up /\ k \in published) /\ []<>(pc[r] = "lookup" /\ kid[r] = k))
      => []<>(pc[r] = "accepted" /\ kid[r] = k)
=============================================================================
