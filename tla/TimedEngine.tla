----------------------------- MODULE TimedEngine ------------------------------
(***************************************************************************)
(* What AuthoritativeEngine does by the clock (core/engine.cpp):           *)
(* ResponseRateLimiter, and the time an entry stays in PacketCache.  Each  *)
(* call of allow, get and put is one step, under the mutex of its object;  *)
(* the clock moves between any two steps.  What the answers say is module  *)
(* Engine; here an answer is the sequence of the TTLs of its records.      *)
(***************************************************************************)
EXTENDS Integers, Sequences, FiniteSets, SequencesExt

CONSTANTS
  Threads,     \* the threads that call handle
  Hosts,       \* peer addresses
  Keys,        \* cache keys
  Ttls,        \* key -> TTLs of the answers and the authority, in order
  Rate,        \* rrl_rate: 0 for no limit
  CacheTtl,    \* cache_ttl: 0 takes the TTL from the records
  MaxEntries,  \* cache_size: 0 for no cache
  Second,      \* ticks of the clock in a second: 1000 in the code
  MaxTime,     \* bound: the last tick
  Nothing      \* no key

ASSUME TimedAssumption ==
  /\ Rate \in Nat /\ CacheTtl \in Nat /\ MaxEntries \in Nat
  /\ Second \in Nat \ {0} /\ MaxTime \in Nat
  /\ Ttls \in [Keys -> Seq(Nat)]
  /\ Nothing \notin Keys

VARIABLES
  now,      \* nowMs()
  buckets,  \* buckets_: host -> the second it counts, and the count
  cache,    \* entries_: key -> when it expires
  asked,    \* the key a thread looks up or is answering
  at,       \* where the thread is: "idle", "get" or "put"
  granted,  \* history: when the queries of a host were let through
  refused,  \* history: the hosts refused, <<host, in which second>>
  putAt     \* history: when the entry of a key was stored

vars == <<now, buckets, cache, asked, at, granted, refused, putAt>>

Init ==
  /\ now = 0
  /\ buckets = [h \in Hosts |-> [second |-> 0, count |-> 0]]
  /\ cache = << >> /\ putAt = [k \in Keys |-> 0]
  /\ asked = [t \in Threads |-> Nothing] /\ at = [t \in Threads |-> "idle"]
  /\ granted = [h \in Hosts |-> << >>] /\ refused = {}

Tick ==
  /\ now < MaxTime
  /\ now' = now + 1
  /\ UNCHANGED <<buckets, cache, asked, at, granted, refused, putAt>>

-----------------------------------------------------------------------------
(* ResponseRateLimiter::allow.                                             *)

SecondOf(time) == time \div Second

\* The bucket of a host, started again in another second.
CurrentNeverReset(h) == buckets[h]
CurrentAnew(h) == [second |-> SecondOf(now), count |-> 0]
Current(h) ==
  IF buckets[h].second # SecondOf(now) THEN [second |-> SecondOf(now), count |-> 0]
                                       ELSE buckets[h]

\* The query is let through, goes on to answerCached, and looks in the cache.
Allow(t, h, k) ==
  /\ at[t] = "idle"
  /\ \/ Rate = 0 /\ UNCHANGED buckets
     \/ /\ Rate > 0 /\ Current(h).count < Rate
        /\ buckets' = [buckets EXCEPT ![h] = [Current(h) EXCEPT !.count = @ + 1]]
  /\ granted' = [granted EXCEPT ![h] = Append(@, now)]
  /\ asked' = [asked EXCEPT ![t] = k]
  /\ at' = [at EXCEPT ![t] = IF MaxEntries > 0 THEN "get" ELSE "idle"]
  /\ UNCHANGED <<now, cache, refused, putAt>>

\* The query is answered with REFUSED.
Refuse(t, h) ==
  /\ at[t] = "idle"
  /\ Rate > 0 /\ Current(h).count >= Rate
  /\ buckets' = [buckets EXCEPT ![h] = Current(h)]
  /\ refused' = refused \cup {<<h, SecondOf(now)>>}
  /\ UNCHANGED <<now, cache, asked, at, granted, putAt>>

-----------------------------------------------------------------------------
(* answerCached: PacketCache::get, the answer, PacketCache::put.           *)

Expired(k) == cache[k] < now
Forget(t) == asked' = [asked EXCEPT ![t] = Nothing] /\ at' = [at EXCEPT ![t] = "idle"]

Hit(t) ==
  /\ at[t] = "get"
  /\ asked[t] \in DOMAIN cache /\ ~Expired(asked[t])
  /\ Forget(t)
  /\ UNCHANGED <<now, buckets, cache, granted, refused, putAt>>

\* An entry that has expired is erased.
Miss(t) ==
  /\ at[t] = "get"
  /\ asked[t] \in DOMAIN cache => Expired(asked[t])
  /\ cache' = [k \in DOMAIN cache \ {asked[t]} |-> cache[k]]
  /\ at' = [at EXCEPT ![t] = "put"]
  /\ UNCHANGED <<now, buckets, asked, granted, refused, putAt>>

\* The seconds an answer is kept.  A TTL of 0 reads as none seen yet, so that
\* the next record's takes its place.
KeptForLast(k) == IF CacheTtl > 0 THEN CacheTtl ELSE Ttls[k][Len(Ttls[k])]
KeptFor(k) ==
  IF CacheTtl > 0 THEN CacheTtl
  ELSE FoldLeft(LAMBDA ttl, next : IF ttl = 0 \/ next < ttl THEN next ELSE ttl, 0, Ttls[k])

\* A full cache is emptied before the entry is stored.
Put(t) ==
  /\ at[t] = "put"
  /\ LET k    == asked[t]
         kept == IF Cardinality(DOMAIN cache) >= MaxEntries THEN {} ELSE DOMAIN cache
     IN  IF KeptFor(k) = 0 THEN UNCHANGED <<cache, putAt>>
         ELSE /\ cache' = [c \in kept \cup {k} |->
                             IF c = k THEN now + KeptFor(k) * Second ELSE cache[c]]
              /\ putAt' = [putAt EXCEPT ![k] = now]
  /\ Forget(t)
  /\ UNCHANGED <<now, buckets, granted, refused>>

\* PacketCache::invalidate, after an update.
Invalidate ==
  /\ cache' = << >>
  /\ UNCHANGED <<now, buckets, asked, at, granted, refused, putAt>>

Next ==
  \/ Tick \/ Invalidate
  \/ \E t \in Threads : Hit(t) \/ Miss(t) \/ Put(t)
  \/ \E t \in Threads, h \in Hosts : Refuse(t, h) \/ \E k \in Keys : Allow(t, h, k)

Spec == Init /\ [][Next]_vars

-----------------------------------------------------------------------------
\* Control and the buckets are well formed: a bucket counts a second that has
\* begun, and no further than the rate.
TypeOK ==
  /\ now \in 0 .. MaxTime
  /\ buckets \in [Hosts -> [second : 0 .. SecondOf(now), count : 0 .. Rate]]
  /\ asked \in [Threads -> Keys \cup {Nothing}]
  /\ at \in [Threads -> {"idle", "get", "put"}]
  /\ DOMAIN cache \subseteq Keys

\* The queries of h let through from one tick to another.
Granted(h, from, to) == {i \in DOMAIN granted[h] : granted[h][i] \in from .. to}

\* A window is one calendar second, so the rate may pass twice in a second that
\* lies across two of them, and never more than twice
\* (ResponseRateLimiter::allow, engine.cpp:124-133).
NeverTwiceTheRate ==
  Rate > 0 => \A h \in Hosts : \A from \in 0 .. MaxTime :
    Cardinality(Granted(h, from, from + Second - 1)) <= 2 * Rate

\* Nobody else uses up a host's rate, and no earlier second of its own: when a
\* query was refused, as many of that host as the rate had been let through in
\* the same calendar second (engine.cpp:124-131).
RefusedAtTheRate ==
  \A h \in Hosts : \A second \in 0 .. SecondOf(MaxTime) :
    <<h, second>> \in refused =>
      Cardinality(Granted(h, second * Second, second * Second + Second - 1)) = Rate

\* An answer from the cache was stored no longer ago than any of its records may
\* be kept, if none has a TTL of 0, or than cache_ttl; an answer whose last TTL
\* is 0 is never in it (PacketCache::get and put, answerCached,
\* engine.cpp:82-107, 258-273).
Age(k) == now - putAt[k]
HitsAreFresh ==
  [][\A t \in Threads : Hit(t) =>
       LET k    == asked[t]
           ttls == {Ttls[k][i] : i \in DOMAIN Ttls[k]}
       IN  IF CacheTtl > 0 THEN Age(k) <= CacheTtl * Second
           ELSE /\ 0 \notin ttls => \A ttl \in ttls : Age(k) <= ttl * Second
                /\ Ttls[k][Len(Ttls[k])] # 0]_vars

=============================================================================
