------------------------------- MODULE Engine --------------------------------
(***************************************************************************)
(* The authoritative engine (core/engine.cpp) over the memory backend, run *)
(* by several threads at once: the UDP workers and TCP sessions, which     *)
(* answer queries and apply RFC 2136 updates, and the one API thread       *)
(* (api/rest.cpp), which creates, patches and deletes zones.  An action is *)
(* one critical section: one backend call, one PacketCache call.           *)
(*                                                                         *)
(* Requests that change no state are not here: a rate-limited one, NOTIFY, *)
(* an unknown opcode, an AXFR, an API GET.                                 *)
(***************************************************************************)
EXTENDS AnswerQuery, FiniteSets

CONSTANTS
  Workers,      \* UDP worker and TCP session threads
  Api,          \* the API thread
  Queries,      \* the questions [qname, qtype, tcp, edns] clients ask
  Updates,      \* the updates [zone, auth, section] clients send
  ApiRequests,  \* the requests [kind, zone, rrsets] sent to the API
  InitZones,    \* the database at start
  CacheSize,    \* cache_size
  CacheTtl,     \* cache_ttl: 0 takes the TTL of an entry from its records
  SerialMod,    \* a serial is a number below SerialMod: 2^32 in the code
  MaxChanges    \* bound: a write is accepted while fewer changes were made

Threads == Workers \cup {Api}

ASSUME EngineAssumption ==
  /\ Api \notin Workers
  /\ IsFiniteSet(DOMAIN InitZones)
  /\ CacheSize \in Nat
  /\ CacheTtl \in Nat
  /\ SerialMod \in Nat \ {0}
  /\ MaxChanges \in Nat

\* What zones, questions and writes are made of; "ANY" stands in the record
\* that tells a deletion what to delete.
EngineRRs ==
  [name : Seq(STRING), type : Types \cup {"ANY"}, ttl : Nat, target : Seq(STRING), num : Nat]

ASSUME RequestsAssumption ==
  /\ \A z \in DOMAIN InitZones : InitZones[z] \in [inc : Nat, rrs : Seq(EngineRRs)]
  /\ Queries \subseteq [qname : Seq(STRING), qtype : STRING, tcp : BOOLEAN, edns : BOOLEAN]
  /\ Updates \subseteq
       [zone : Seq(STRING), auth : STRING,
        section : Seq([class : STRING, empty : BOOLEAN, rr : EngineRRs])]
  /\ ApiRequests \subseteq
       [kind : {"POST", "PATCH", "DELETE"}, zone : Seq(STRING),
        rrsets : Seq([change : STRING, rr : EngineRRs, rrs : Seq(EngineRRs)])]

VARIABLES
  zones,      \* the backend's zones, guarded by its mutex
  nextInc,    \* the identity of the next zone object
  cache,      \* PacketCache::entries_, key -> entry
  pc,         \* per thread: the critical section it enters next
  frame,      \* per worker: answerQuery's stack
  tx,         \* per thread: the write it carries out
  notified,   \* the NOTIFY messages sent, <<zone, serial>>
  up,         \* FALSE once the process has died
  epoch,      \* history: how often the cache was invalidated
  version,    \* history: how often the zones changed
  changedAt,  \* history: the epoch of the last change
  silentAt,   \* history: the epoch of the last change nobody invalidates for
  updated,    \* history: the zones whose last change was an update of them
  seen        \* history, per worker: when its query began, versions it read

serverVars == <<zones, nextInc, cache, pc, frame, tx, notified, up>>
history == <<epoch, version, changedAt, silentAt, updated, seen>>
vars == <<serverVars, history>>

NoTx == [kind |-> "none", zone |-> Root, auth |-> "none", inc |-> 0, freed |-> 0,
         ops |-> << >>, soa |-> << >>, serial |-> {}, readAt |-> 0]
NotSeen == [since |-> 0, versions |-> {}]
NoFrame == Start([qname |-> Root, qtype |-> "SOA", tcp |-> FALSE, edns |-> FALSE])

ReadPCs  == {"get", "answer", "put"}
WritePCs == {"create", "find", "begin", "soa", "commit", "delete", "invalidate", "notify"}

Init ==
  /\ zones = InitZones
  /\ nextInc = Cardinality(DOMAIN InitZones) + 1
  /\ cache = << >>
  /\ pc = [t \in Threads |-> "idle"]
  /\ frame = [w \in Workers |-> NoFrame]
  /\ tx = [t \in Threads |-> NoTx]
  /\ notified = {}
  /\ up = TRUE
  /\ epoch = 1 /\ version = 0 /\ changedAt = 0 /\ silentAt = 0
  /\ updated = {}
  /\ seen = [w \in Workers |-> NotSeen]

Goto(t, label) == pc' = [pc EXCEPT ![t] = label]

\* A change of a zone: the history of it.
Changed(zone, kind, silent) ==
  /\ version' = version + 1
  /\ changedAt' = epoch
  /\ silentAt' = IF silent THEN epoch ELSE silentAt
  /\ updated' = IF kind = "update" THEN updated \cup {zone} ELSE updated \ {zone}

-----------------------------------------------------------------------------
(* Queries: handle, answerCached.                                          *)

\* answerCached: name, type, transport and EDNS make the key.
CacheKey(q) == <<q.qname, q.qtype, q.tcp, q.edns>>

\* The smallest TTL as answerCached computes it: 0 stands for "none yet".
MinTtl(rrs) ==
  FoldLeft(LAMBDA ttl, rr : IF ttl = 0 \/ rr.ttl < ttl THEN rr.ttl ELSE ttl, 0, rrs)

EntryTtl(resp) ==
  IF CacheTtl > 0 THEN CacheTtl ELSE MinTtl(resp.answers \o resp.authority)

\* Positive and negative answers are cached, refusals and failures are not.
Cacheable(resp) ==
  CacheSize > 0 /\ resp.rcode \in {"NOERROR", "NXDOMAIN"} /\ EntryTtl(resp) > 0

ReceiveQuery(w) == \E q \in Queries :
  /\ pc[w] = "idle"
  /\ frame' = [frame EXCEPT ![w] = Start(q)]
  /\ seen' = [seen EXCEPT ![w] = [since |-> epoch, versions |-> {}]]
  /\ Goto(w, IF CacheSize > 0 THEN "get" ELSE "answer")
  /\ UNCHANGED <<zones, nextInc, cache, tx, notified, epoch, version, changedAt,
                 silentAt, updated>>

\* The query is over and its response sent.
Respond(w) ==
  /\ frame' = [frame EXCEPT ![w] = NoFrame]
  /\ seen' = [seen EXCEPT ![w] = NotSeen]
  /\ Goto(w, "idle")

\* PacketCache::get finds an entry in time.
CacheHit(w) ==
  /\ pc[w] = "get"
  /\ CacheKey(frame[w].q) \in DOMAIN cache
  /\ Respond(w)
  /\ UNCHANGED <<zones, nextInc, cache, tx, notified, epoch, version, changedAt,
                 silentAt, updated>>

\* PacketCache::get finds nothing, or an entry that has expired, which it
\* erases.  Time is not modelled: an entry may expire at any moment.
CacheMiss(w) ==
  /\ pc[w] = "get"
  /\ cache' = [k \in DOMAIN cache \ {CacheKey(frame[w].q)} |-> cache[k]]
  /\ Goto(w, "answer")
  /\ UNCHANGED <<zones, nextInc, frame, tx, notified, history>>

\* One backend call of answerQuery.
AnswerStep(w) ==
  /\ pc[w] = "answer"
  /\ \E f \in {Step(zones, frame[w])} :
       IF f.at # "done" \/ Cacheable(f.resp)
       THEN /\ frame' = [frame EXCEPT ![w] = f]
            /\ seen' = [seen EXCEPT ![w] = [since |-> @.since, versions |-> @.versions \cup {version}]]
            /\ Goto(w, IF f.at = "done" THEN "put" ELSE "answer")
       ELSE Respond(w)
  /\ UNCHANGED <<zones, nextInc, cache, tx, notified, epoch, version, changedAt,
                 silentAt, updated>>

\* The cache after PacketCache::put: a full cache is emptied first.
Put(entries, key, entry) ==
  LET kept == IF Cardinality(DOMAIN entries) >= CacheSize THEN {} ELSE DOMAIN entries
  IN  [k \in kept \cup {key} |-> IF k = key THEN entry ELSE entries[k]]

CachePut(w) ==
  /\ pc[w] = "put"
  /\ cache' = Put(cache, CacheKey(frame[w].q),
                  [resp |-> frame[w].resp, since |-> seen[w].since,
                   versions |-> seen[w].versions, put |-> epoch])
  /\ Respond(w)
  /\ UNCHANGED <<zones, nextInc, tx, notified, epoch, version, changedAt,
                 silentAt, updated>>

-----------------------------------------------------------------------------
(* Writes: handleUpdate, and handleHttpRequest for POST, PATCH and DELETE. *)

Writers == {t \in Threads : pc[t] \in WritePCs}
MayWrite == version + Cardinality(Writers) < MaxChanges

\* allowedUpdate: an address in an access list or a known key; then the
\* signature, if there is one, must be right.
Allowed(auth)  == auth \in {"acl", "key", "badsig"}
Verified(auth) == auth # "badsig"

\* The operations handleUpdate makes of the update section, whose records
\* are [class, empty, rr].
UpdateOps(section) ==
  [i \in DOMAIN section |->
     LET u == section[i]
     IN  IF u.class = "ANY" /\ u.empty
         THEN IF u.rr.type = "ANY" THEN DeleteName(u.rr) ELSE DeleteRrset(u.rr)
         ELSE IF u.class = "NONE" THEN DeleteRrset(u.rr) ELSE AddRecord(u.rr)]

\* The operations of a PATCH, whose rrsets are [change, rr, rrs], and of a
\* POST, which only adds and leaves any SOA to createZone.
PatchOps(rrsets) ==
  FlattenSeq([i \in DOMAIN rrsets |->
     IF rrsets[i].change = "delete" THEN <<DeleteRrset(rrsets[i].rr)>>
     ELSE ReplaceRrset(rrsets[i].rr, rrsets[i].rrs)])
PostOps(rrsets) ==
  LET all == FlattenSeq([i \in DOMAIN rrsets |-> rrsets[i].rrs])
      rrs == ElementsAt(all, {i \in DOMAIN all : all[i].type # "SOA"})
  IN  [i \in DOMAIN rrs |-> AddRecord(rrs[i])]

\* The SOA a POST gives the new zone: the default, with the content of the first
\* record of the last SOA rrset that has records.  Name and TTL are not taken.
PostSoa(req) ==
  LET sets == ElementsAt(req.rrsets, {i \in DOMAIN req.rrsets :
                req.rrsets[i].rr.type = "SOA" /\ req.rrsets[i].rrs # << >>})
      soa(target, num) ==
        [name |-> req.zone, type |-> "SOA", ttl |-> 3600, target |-> target, num |-> num]
  IN  <<IF sets = << >> THEN soa(Root, 1)
        ELSE soa(Last(sets).rrs[1].target, Last(sets).rrs[1].num)>>

BeginWrite(t, write, label) ==
  /\ pc[t] = "idle"
  /\ MayWrite
  /\ tx' = [tx EXCEPT ![t] = write]
  /\ Goto(t, label)
  /\ UNCHANGED <<zones, nextInc, cache, frame, notified, history>>

ReceiveUpdate(w) == \E u \in Updates :
  BeginWrite(w, [NoTx EXCEPT !.kind = "update", !.zone = u.zone, !.auth = u.auth,
                             !.ops = UpdateOps(u.section)], "find")

ReceiveApi == \E req \in ApiRequests :
  LET write == [NoTx EXCEPT !.kind = req.kind, !.zone = req.zone]
  IN  \/ /\ req.kind = "POST"
         /\ BeginWrite(Api, [write EXCEPT !.ops = PostOps(req.rrsets),
                                         !.soa = PostSoa(req)], "create")
      \/ /\ req.kind = "PATCH"
         /\ BeginWrite(Api, [write EXCEPT !.ops = PatchOps(req.rrsets)], "find")
      \/ /\ req.kind = "DELETE"
         /\ BeginWrite(Api, write, "find")

\* The write is over: its reply is sent.
Reply(t) == Goto(t, "idle") /\ tx' = [tx EXCEPT ![t] = NoTx]

\* createZone; the reply is 409 if the zone exists.  Nothing invalidates the
\* cache for a new zone.
Create(t) ==
  LET w == tx[t]
  IN  /\ pc[t] = "create"
      /\ IF w.zone \in DOMAIN zones
         THEN Reply(t) /\ UNCHANGED <<zones, nextInc, version, changedAt, silentAt, updated>>
         ELSE /\ zones' = CreateZone(zones, w.zone, nextInc, w.soa[1])
              /\ nextInc' = nextInc + 1
              /\ Changed(w.zone, "POST", TRUE)
              /\ IF w.ops = << >> THEN Reply(t) ELSE Goto(t, "find") /\ UNCHANGED tx
      /\ UNCHANGED <<cache, frame, notified, epoch, seen>>

\* findZone: an update takes the zone that encloses its zone section (and is
\* refused here if it may not write it), the API wants the zone itself.
Find(t) ==
  LET w     == tx[t]
      found == Enclosing(zones, w.zone) # {}
      zone  == FindZone(zones, w.zone)
      ok    == CASE w.kind = "update" -> found /\ Allowed(w.auth) /\ Verified(w.auth)
                 [] w.kind = "POST" -> found
                 [] OTHER -> found /\ zone = w.zone
  IN  /\ pc[t] = "find"
      /\ IF ok THEN /\ tx' = [tx EXCEPT ![t].zone = zone]
                    /\ Goto(t, IF w.kind = "DELETE" THEN "delete" ELSE "begin")
               ELSE Reply(t)
      /\ UNCHANGED <<zones, nextInc, cache, frame, notified, history>>

\* begin: no transaction if the zone has gone (SERVFAIL, 500); otherwise the
\* transaction keeps the address of the zone object.
Begin(t) ==
  /\ pc[t] = "begin"
  /\ IF tx[t].zone \in DOMAIN zones
     THEN /\ tx' = [tx EXCEPT ![t].inc = zones[tx[t].zone].inc]
          /\ Goto(t, IF tx[t].kind = "POST" THEN "commit" ELSE "soa")
     ELSE Reply(t)
  /\ UNCHANGED <<zones, nextInc, cache, frame, notified, history>>

\* bumpSerial, in the width of the serial.
BumpSerial(serial) == (serial + 1) % SerialMod

ReadSoaUnbumped(t) ==
  LET soa == Lookup(zones, tx[t].zone, tx[t].zone, "SOA")
  IN  /\ pc[t] = "soa"
      /\ tx' = [tx EXCEPT ![t].serial = {rr.num : rr \in ToSet(soa)}, ![t].readAt = version]
      /\ Goto(t, "commit")
      /\ UNCHANGED <<zones, nextInc, cache, frame, notified, history>>

\* The SOA is read and its serial bumped outside the transaction.
ReadSoa(t) ==
  LET soa == Lookup(zones, tx[t].zone, tx[t].zone, "SOA")
  IN  /\ pc[t] = "soa"
      /\ tx' = [tx EXCEPT ![t].serial =
                             IF soa = << >> THEN {} ELSE {BumpSerial(soa[1].num)},
                          ![t].readAt = version]
      /\ Goto(t, "commit")
      /\ UNCHANGED <<zones, nextInc, cache, frame, notified, history>>

\* The commit changes a zone: by a write of it, or by one that strayed there.
CommitTo(t, zone, kind) ==
  /\ zones' = [zones EXCEPT ![zone].rrs = Commit(@, zone, tx[t].ops, tx[t].serial)]
  /\ Changed(zone, kind, tx[t].kind = "POST")

AfterCommitPatchForgotten(t) ==
  IF tx[t].kind # "update" THEN Reply(t) ELSE Goto(t, "invalidate") /\ UNCHANGED tx

AfterCommit(t) ==
  IF tx[t].kind = "POST" THEN Reply(t) ELSE Goto(t, "invalidate") /\ UNCHANGED tx

CommitTx(t) ==
  /\ pc[t] = "commit"
  /\ tx[t].freed = 0
  /\ CommitTo(t, tx[t].zone, tx[t].kind)
  /\ AfterCommit(t)
  /\ UNCHANGED <<nextInc, cache, frame, notified, epoch, seen, up>>

\* The zone object was deleted since begin: the commit goes through a
\* dangling pointer.  The write may be lost, land in a zone whose object took
\* the freed memory since, or kill the process.
CommitDangling(t) ==
  /\ pc[t] = "commit"
  /\ tx[t].freed # 0
  /\ \/ /\ UNCHANGED <<zones, version, changedAt, silentAt, updated, up>>
        /\ AfterCommit(t)
     \/ /\ \E zone \in DOMAIN zones : zones[zone].inc >= tx[t].freed /\ CommitTo(t, zone, "stray")
        /\ AfterCommit(t)
        /\ UNCHANGED up
     \/ /\ up' = FALSE
        /\ UNCHANGED <<zones, version, changedAt, silentAt, updated, pc, tx>>
  /\ UNCHANGED <<nextInc, cache, frame, notified, epoch, seen>>

DeleteWithoutInvalidate(t) ==
  LET zone == tx[t].zone
  IN  /\ pc[t] = "delete"
      /\ zones' = DeleteZone(zones, zone)
      /\ tx' = [s \in Threads |-> IF tx[s].inc = zones[zone].inc
                                 THEN [tx[s] EXCEPT !.freed = nextInc] ELSE tx[s]]
      /\ Changed(zone, "DELETE", FALSE)
      /\ Goto(t, "notify")
      /\ UNCHANGED <<nextInc, cache, frame, notified, epoch, seen>>

\* deleteZone: the API thread found the zone and nobody else deletes.  The
\* transactions begun on it are left with a pointer to freed memory, which
\* only an object created later, numbered from nextInc on, can take.
Delete(t) ==
  LET zone == tx[t].zone
  IN  /\ pc[t] = "delete"
      /\ zones' = DeleteZone(zones, zone)
      /\ tx' = [s \in Threads |-> IF tx[s].inc = zones[zone].inc
                                 THEN [tx[s] EXCEPT !.freed = nextInc] ELSE tx[s]]
      /\ Changed(zone, "DELETE", FALSE)
      /\ Goto(t, "invalidate")
      /\ UNCHANGED <<nextInc, cache, frame, notified, epoch, seen>>

InvalidateNothing(t) ==
  /\ pc[t] = "invalidate"
  /\ epoch' = epoch + 1
  /\ IF tx[t].kind = "update" THEN Goto(t, "notify") /\ UNCHANGED tx ELSE Reply(t)
  /\ UNCHANGED <<zones, nextInc, cache, frame, notified, version, changedAt, silentAt,
                 updated, seen>>

InvalidateWithoutNotify(t) ==
  /\ pc[t] = "invalidate"
  /\ cache' = << >>
  /\ epoch' = epoch + 1
  /\ Reply(t)
  /\ UNCHANGED <<zones, nextInc, frame, notified, version, changedAt, silentAt, updated, seen>>

\* PacketCache::invalidate; only an update goes on to notify the secondaries.
Invalidate(t) ==
  /\ pc[t] = "invalidate"
  /\ cache' = << >>
  /\ epoch' = epoch + 1
  /\ IF tx[t].kind = "update" THEN Goto(t, "notify") /\ UNCHANGED tx ELSE Reply(t)
  /\ UNCHANGED <<zones, nextInc, frame, notified, version, changedAt, silentAt, updated, seen>>

\* notifySecondaries: the SOA is read again and sent in a NOTIFY.  Its targets
\* (also_notify and the addresses of the NS names) are not modelled.
Notify(t) ==
  LET soa == Lookup(zones, tx[t].zone, tx[t].zone, "SOA")
  IN  /\ pc[t] = "notify"
      /\ notified' = notified \cup {<<tx[t].zone, rr.num>> : rr \in ToSet(soa)}
      /\ Reply(t)
      /\ UNCHANGED <<zones, nextInc, cache, frame, history>>

-----------------------------------------------------------------------------
ReadStep(w) == CacheHit(w) \/ CacheMiss(w) \/ AnswerStep(w) \/ CachePut(w)

WriteStep(t) ==
  Create(t) \/ Find(t) \/ Begin(t) \/ ReadSoa(t) \/ Delete(t) \/ Invalidate(t) \/ Notify(t)

\* What a thread does once it has a request; it takes the next one after it.
Serve(t) ==
  /\ up
  /\ \/ t \in Workers /\ ReadStep(t) /\ UNCHANGED up
     \/ WriteStep(t) /\ UNCHANGED up
     \/ CommitTx(t)
     \/ CommitDangling(t)

Accept ==
  /\ up
  /\ \/ \E w \in Workers : ReceiveQuery(w) \/ ReceiveUpdate(w)
     \/ ReceiveApi
  /\ UNCHANGED up

Next == Accept \/ \E t \in Threads : Serve(t)

\* Threads are scheduled: one that has a request goes on with it.  Clients
\* owe nothing.
Fairness == \A t \in Threads : WF_vars(Serve(t))

Spec == Init /\ [][Next]_vars /\ Fairness
=============================================================================
