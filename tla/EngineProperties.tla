-------------------------- MODULE EngineProperties ---------------------------
(* What the engine's threads promise together: the coherence of the packet  *)
(* cache with the zones, the serials, the NOTIFY messages, termination.     *)
EXTENDS Engine

\* Control and history are well formed, and the cache holds only answers and
\* name errors put there since it was last invalidated (engine.cpp:258-259).
TypeOK ==
  /\ nextInc \in Nat
  /\ pc \in [Threads -> {"idle"} \cup ReadPCs \cup WritePCs]
  /\ up \in BOOLEAN
  /\ epoch \in Nat /\ version \in Nat
  /\ changedAt \in 0 .. epoch /\ silentAt \in 0 .. changedAt
  /\ DOMAIN frame = Workers
  /\ seen \in [Workers -> [since : Nat, versions : SUBSET Nat]]
  /\ \A w \in Workers :
       /\ seen[w].since \in 0 .. epoch
       /\ seen[w].versions \subseteq 0 .. version
       /\ pc[w] = "put" => CacheSize > 0 /\ frame[w].resp.rcode \in {"NOERROR", "NXDOMAIN"}
  /\ \A k \in DOMAIN cache :
       /\ cache[k].resp.rcode \in {"NOERROR", "NXDOMAIN"}
       /\ cache[k].since \in 0 .. epoch
       /\ cache[k].versions \subseteq 0 .. version
       /\ cache[k].put = epoch

\* PacketCache::put keeps cache_size: config/README.md calls it the number of
\* entries, and the cache is emptied rather than let grow.
CacheBounded == Cardinality(DOMAIN cache) <= CacheSize

\* No write stands between its commit and its invalidation of the cache.
Quiet == \A t \in Threads : pc[t] # "invalidate"

\* The answer was not computed across an invalidation of the cache, nor has a
\* zone been created since its query began.
Unraced(e) == e.since = e.put /\ silentAt < e.since

\* In a quiet state an entry whose query did not straddle an invalidation was
\* computed from the present zones alone: commit-then-invalidate leaves no
\* other stale entry behind (engine.cpp:492-496, 273; rest.cpp:259-312).
UnracedEntriesCurrent ==
  Quiet => \A k \in DOMAIN cache : Unraced(cache[k]) => cache[k].versions \subseteq {version}

\* Why that holds, for every reachable state and not only the quiet ones: the
\* last change is still to be invalidated for, and what was read since the
\* last invalidation is current if nothing has changed since then.
ChangePending ==
  changedAt = epoch => silentAt = epoch \/ \E t \in Threads : pc[t] = "invalidate"
EntriesFresh ==
  changedAt < epoch =>
    \A k \in DOMAIN cache : cache[k].since = epoch => cache[k].versions \subseteq {version}
ReadsFresh ==
  changedAt < epoch =>
    \A w \in Workers : seen[w].since = epoch => seen[w].versions \subseteq {version}
CoherenceInv == ChangePending /\ EntriesFresh /\ ReadsFresh

\* The same for what a client is served: in a quiet state a cached response
\* is the answer to the question that hits it, unless its query raced with an
\* invalidation or with the creation of a zone.
UnracedHitsCoherent ==
  Quiet => \A q \in Queries :
    CacheKey(q) \in DOMAIN cache /\ Unraced(cache[CacheKey(q)]) =>
      cache[CacheKey(q)].resp = Answer(zones, q)

Idle == \A t \in Threads : pc[t] = "idle"

\* With no request in progress the packet cache holds nothing but what the
\* zones answer: project/ROADMAP_CHECKLIST.md:288 "Packet-cache invalidation
\* after writes".
CacheCoherentWhenIdle ==
  Idle => \A q \in Queries :
    CacheKey(q) \in DOMAIN cache => cache[CacheKey(q)].resp = Answer(zones, q)

\* An update that has changed its zone and has yet to send the NOTIFY of it.
Announcing(t) == pc[t] = "notify" \/ (pc[t] = "invalidate" /\ tx[t].kind = "update")

\* Updates are announced, each for its own zone: of a zone that an update changed
\* last, the serial it now has was sent in a NOTIFY, once no update of the zone is
\* on its way to that, however updates of it overlap (engine.cpp:488-497:
\* notifySecondaries reads the SOA after the commit).
LastUpdateNotified ==
  \A z \in updated :
    (\A t \in Threads : Announcing(t) => tx[t].zone # z) =>
      \A rr \in ToSet(Lookup(zones, z, z, "SOA")) : <<z, rr.num>> \in notified

\* The serial at the apex of a zone that has one SOA.
Serial(db, z) == Lookup(db, z, z, "SOA")[1].num
HasSerial(db, z) == z \in DOMAIN db /\ Len(Lookup(db, z, z, "SOA")) = 1

\* A committed update or patch moves the serial of its zone one forward
\* (project/ROADMAP_CHECKLIST.md:287 "SOA serial bump on success") whenever no
\* zone changed since it read the SOA: the read is outside the transaction, so
\* that of two writers one may set the number the other has just set.  The
\* serial wraps as any number, and it is set after the records
\* (engine.cpp:488, memory.cpp:60-90, zone.cpp:445-459).
UnracedSerialBumped ==
  [][\A t \in Threads :
       CommitTx(t) /\ tx[t].kind \in {"update", "PATCH"} /\ tx[t].readAt = version =>
         LET z == tx[t].zone
         IN  HasSerial(zones, z) /\ HasSerial(zones', z) =>
               Serial(zones', z) = BumpSerial(Serial(zones, z))]_vars

\* Every request comes to an end and its thread takes another (answerQuery
\* returns whatever others write meanwhile), unless the process dies.
RequestsEnd == \A t \in Threads : pc[t] # "idle" ~> pc[t] = "idle" \/ ~up

=============================================================================
