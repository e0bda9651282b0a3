# simple-dnsd in TLA+

A model of the authoritative DNS server simple-dnsd 0.13.0: what its threads do
to the zones, to the packet cache, to databases, files and each other, and what
two daemons make of a zone transfer, checked with TLC on small instances and,
for the core, proved with TLAPS for all of them.  Paths below
are relative to the repository; `engine.cpp` is
`src/simple-dnsd/core/engine.cpp`, and so on.

## 1. The system

| part | state | operations | talks to |
|---|---|---|---|
| **Server** `core/server.cpp` | `running_`, loop threads, `workers_`, `tcp_sessions_` | start, stop, UDP, TCP and API loops, secondary loop | engine, router, sockets |
| **Engine** `core/engine.cpp` | packet cache, rate-limit buckets, TSIG keys, counters | `handle`: query, UPDATE, NOTIFY, AXFR; `invalidateCache` | router; called by UDP workers, TCP sessions, the API thread |
| **Router** `backend/router.cpp` | list of backends, fixed after start | `findZone` (longest match), `ownerOf`, the Backend interface, `copyZone` | backends |
| **Memory backend** `backend/memory.cpp` | zones by name, one mutex | reads, `begin`/`commit`, `createZone`, `deleteZone` | - |
| **BIND file backend** `backend/bindfile.cpp` | zones by name, files, one mutex | the same; a transaction is a copy of the zone; every commit rewrites files | zone files |
| **SQL backends** `backend/gsql.cpp` and three drivers | a database; a connection per call or transaction | the same as statements | client libraries |
| **REST API** `api/rest.cpp` | none | POST, PATCH, DELETE of zones; GET | router, engine (`invalidateCache`) |
| **Secondary** `server.cpp` 206-270 | none of its own | AXFR from the master of each slave zone, every 10 s | router, engine |
| **Zone files** `zone/zone.cpp` | none | parse, write, check, BIND import and export, serials | router, files |
| **Codec** `protocol/dns.cpp` | while a message is written: the offsets of names | names, records, messages | - |
| **TSIG** `protocol/tsig.cpp` | the keys | sign, verify | codec; called by UPDATE and AXFR |
| **Command line tool** `cli/util.cpp` | none: another process with its own router | zones and records added, listed, copied, imported | router |
| **Config, utils** | - | settings, sockets, log, platform | - |

What is hard here:

* *Interleaving.*  A query is up to some thirty backend calls, each atomic under
  the backend's mutex and none atomic with the next.  UPDATE commits,
  invalidates the cache and reads the SOA for NOTIFY in three critical
  sections.  The API thread deletes zones that workers hold transactions on.
* *Stale state.*  The cache is filled after the zone was read; the serial is
  bumped outside the transaction; a transaction keeps a raw pointer to its zone.
  A zone is found in one backend and then acted on by an id, or by its name, in
  whichever backend has a zone of that name.
* *Limits and boundaries.*  Cache size, alias chains, the ends of the wildcard
  walk, delegation points, the wrap of the serial, seconds of the clock,
  datagrams, 14-bit offsets, 20 pointers, messages of 64 KB.
* *Failure.*  SQL statements whose failure nobody looks at, files cut in the
  middle, transfers that end early, a process that dies.

`PROJECT.json` lists these as hazards, each at its line, with the properties
that would notice it going wrong, and the parts with what is modelled of each.

## 2. The modules

| module | models | state and actions |
|---|---|---|
| `DnsName` | class `DnsName`: names as sequences of labels | operators only |
| `MemoryBackend` | every call of the memory backend and its transaction | operators on a database `[apex -> [inc, rrs]]`; `inc` is the identity (address) of a zone object |
| `AnswerQuery` | `answerQuery`, `addGlue`, `addSoa` | a frame (the function's stack) and one operator per backend call; `Step` is one of them |
| `Codec` | `encodeMessage`, `decodeMessage`: compression, sections, truncation | operators only; a wire is a sequence of cells |
| `Tsig` | `signMessage`, `verifyMessage`, the choice of the key | operators only |
| `AnswerOnce` | one call of `answerQuery` with nobody writing, its message, the transfer of the zone, signed requests | `Call` |
| `Engine` | `answerCached`, `PacketCache`, `handleUpdate`, `notifySecondaries`, the API's POST, PATCH, DELETE, over the memory backend, in concurrent threads | one action per critical section |
| `EngineProperties` | what the engine's threads promise together | - |
| `TimedEngine` | `ResponseRateLimiter` and the expiry of `PacketCache`, with a clock | one action per call, and `Tick` |
| `ServerThreads` | class `DnsServer`: start, stop, its four loops, the handler threads in `workers_` | one action per step of a loop, of a handler or of `stop()` |
| `Secondary` | `refreshSecondaries` of one daemon and `handleAxfr` of another, over connections that break | one action per message or backend call |
| `Router` | `BackendRouter` over several backends, for the daemon's threads and the command line tool | one action per call of one backend |
| `ZoneStore` | abstract: what a backend promises, whatever it keeps its zones in | one change of one zone |
| `GsqlBackend` | the SQL backends under several writers, on SQLite or PostgreSQL; refines `ZoneStore` | one action per SQL statement |
| `BindFileBackend` | the file backend under several writers, its files, crashes, restarts | one action per critical section, one per step of a save |
| `ZoneFile` | `zone.cpp`: the writers of zone text and `named.conf` and what the parsers make of it | operators only |
| `ZoneReload` | a zone and its entry written, read, written, read | `Reload` |
| `AnswerProofs`, `EngineProofs`, `TimedProofs`, `ServerProofs`, `SecondaryProofs`, `RouterProofs`, `GsqlProofs`, `BindFileProofs` | theorems about these; zone files are in `BindFileProofs` | - |
| `MCAnswerOnce`, `MCEngine`, `MCTimedEngine`, `MCSecondary`, `MCRouter`, `MCGsql`, `MCBindFile`, `MCZoneReload` | instances for TLC (`ServerThreads` needs none) | - |

How they build on each other: names and the memory backend are under everything;
`AnswerQuery` is a step function that `AnswerOnce` runs alone and `Engine` runs
among writers; `Codec` and `Tsig` are what becomes of `AnswerOnce`'s messages.
`Secondary` composes two daemons over `MemoryBackend`; `GsqlBackend` has its
refinement to `ZoneStore`.  The modules of the backends know nothing of the
cache, and `Engine` nothing of files and SQL: what joins them is that `commit`
is one step of the backend (`ZoneStore`), and that `Engine` takes nothing more of
it.

### How Engine follows the code

A thread is idle or at the critical section it enters next (`pc`).

| action | code |
|---|---|
| `ReceiveQuery` | `handle` -> `answerCached`, up to the cache |
| `CacheHit`, `CacheMiss` | `PacketCache::get`; an entry may expire at any moment |
| `AnswerStep` | one backend call of `answerQuery`, `Step` of `AnswerQuery` |
| `CachePut` | `PacketCache::put`, if the response may be cached |
| `ReceiveUpdate`, `ReceiveApi` | an UPDATE reaches a worker, a writing request the API thread |
| `Create`, `Delete` | `createZone`, `deleteZone` |
| `Find`, `Begin`, `ReadSoa` | `findZone` and authorization, `begin`, the lookup of the SOA and `bumpSerial` |
| `CommitTx` | `MemoryTransaction::commit`: deletions, then additions, then the serial |
| `CommitDangling` | `commit` when the zone object is gone, see below |
| `Invalidate`, `Notify` | `PacketCache::invalidate`, the SOA read and the NOTIFY |

*A router call is one step.*  `BackendRouter::ownerOf` and the call it leads to
take the backend's mutex one after the other.  With one backend the pair cannot
be told from the second call alone (or from the first, when the zone is not
there), so it is one step.  Several backends are module `Router`.

*Undefined behaviour.*  `begin` hands the transaction the address of the
`MemZone` inside the map.  A DELETE of the zone by the API thread before the
commit frees it.  `CommitDangling` then has three outcomes: the write is lost,
it lands in a zone whose object was allocated since, or the process dies
(`up`).  The runs where this can happen do not check for deadlock, because the
process may be dead.

*History.*  `epoch` counts invalidations, `version` changes of the zones;
`changedAt` and `silentAt` are the epochs of the last change and of the last one
nobody invalidates for (a POST); `seen` notes per query the epoch it began in
and the versions its backend calls saw.  No guard reads them.

*Left out of Engine*: requests that change nothing (AXFR, NOTIFY, GET, a
rate-limited one), EDNS and the statistics, time (`TimedEngine`), signatures
(`Tsig`: that a request passed is `Verified`), the targets of NOTIFY, the
export of zone files, a SOA whose content lacks fields (its serial is not set).

### How Codec and Tsig follow the code

A message on the wire is a sequence of cells: the header, a label, a pointer,
the end of a name, and the rest of a question or record (`Body`).  Each counts
one unit, and offsets count cells; that a pointer holds 14 bits is
`% (MaxOffset + 1)`.  `compression` is the map from suffixes to offsets that
`encodeMessage` threads through `encodeName`.  When the message is over its limit
everything is written again, from an empty map, without records and with TC.
`DecodeName` follows `MaxJumps` pointers, as `decodeName` does, and continues
behind the first.  Rdata is written as it is: names inside rdata are not
compressed by this encoder.

HMAC is a free function: `HmacSha256(secret, data)` is the pair.  What is hashed
is the encoding of the decoded message without its TSIG record, so the check of
a signature rests on encoding and decoding being inverse to each other, bytes
included.

### How TimedEngine follows the code

| action | code |
|---|---|
| `Tick` | `nowMs()` moves on, between any two calls |
| `Allow`, `Refuse` | `ResponseRateLimiter::allow`: the bucket of the peer, counted anew in another calendar second |
| `Hit`, `Miss` | `PacketCache::get`, which erases what has expired |
| `Put` | the TTL that `answerCached` folds over the records, and `PacketCache::put`, which empties a full cache |
| `Invalidate` | `PacketCache::invalidate` |

`granted`, `refused` and `putAt` are history.  The clock of the code is the
system's; that it is set back is not modelled.

### How ServerThreads follows the code

`main` is the thread that calls `start` and `stop`; `udp`, `tcp`, `api` and
`second` stand where each loop is; `job` holds the handler threads, `workers`
the numbers of those in `workers_`.  What a handler does with a message is
`Engine`; here it answers.

| action | code |
|---|---|
| `Start`, `Stop`, `MainStep` | `start`, `stop`: the flag, the joins in their order |
| `UdpHead` ... `UdpClear` | `udpLoop`: the test of the flag, `recvFrom` (200 ms), the handler inline or as a thread, the batch: `workers_.size() > worker_threads * 4`, the joins one by one, `clear` |
| `TcpHead` ... `TcpEmplace` | `tcpLoop`: accept, the limit, the new session |
| `Session...`, `UdpAnswer` | `handleTcp`, `handleUdpQuery`: the test of the flag, `waitReadable`, the message, the answer, its sending, the slot given back |
| `ApiStep`, `ApiSent` | `apiLoop` and `handleHttpRequest`, whose reads are each bounded by `waitReadable` and whose sends are not |
| `SecondStep`, `Refreshed` | `secondaryLoop`, with the transfers from the masters as one step |
| `SessionSignalled`, `ApiSignalled`, `ApiThrows`, `RefreshDies` | the ends of the process, see below |

*The ends of the process.*  `fate` is `"alive"` until one of its threads ends the
process.  `send` is called without `MSG_NOSIGNAL` and nothing handles SIGPIPE, so a
TCP peer that closes before it is answered ends it (`"signalled"`; `net.cpp` 134); no
exception is caught in a thread, and `std::stoi` throws for `%zz` in a path of the
API (`rest.cpp` 77) and for an IPv6 master (`server.cpp` 215), as conversions of JSON
do (`"thrown"`).  No property promises that the process lives.

*The race.*  `workers_` is a `std::vector` both loops change without a lock.
An operation of one is a place in its loop (`emplace`, `join`, `clear`), and a
new session added while the UDP loop is at one, or a UDP handler added while
the TCP loop is, is undefined.  `Emplace` has three outcomes: no harm, the
element is lost (a thread nobody joins), the process dies (`"raced"`).  A thread
that is in the vector when it is cleared and was not joined ends the process too, by
the destructor of `std::thread` (`"cleared"`).  `raced` is history: properties say
what holds without the race.

`MaxThreads` bounds the handler threads of a run; the loops receive nothing
more when it is reached, except that each may be about to spawn one
(`Handlers`).

### How ZoneFile follows the code

A text is the sequence of its lines and a line is the owner, without the dot the
writer never writes, and the record.  `ReadLine` decides as `parseZoneText` does:
is the first word a TTL, a class or a type, then it is not the owner.  What comes
of the line then is a failure or a record of the last owner with a host made of
the wrong words (`Garbled`: which words does not matter, only that nobody wrote
it).  Hosts without a dot are taken relative to the origin.  An entry of
`named.conf` is written with the kind `slave` or `master`, a native zone as a master
(`WrittenKind`), and with a file name made of the zone's if it has none
(`WrittenFile`).  `WriteNamedZone` keeps
the order of the words with a brace in it, since that is what `parseNamedConf`
goes by: the body of a zone ends at the first brace, which is the masters' if it has
any.  Comments, directives, `$INCLUDE`, quotes and parentheses occur only in
files written by hand and are left out.

### How BindFileBackend follows the code

| action | code |
|---|---|
| `Receive` | an UPDATE, or a POST or DELETE of the API, reaches a thread |
| `Find`, `Begin`, `ReadSoa` | `findZone`, `begin` and the edits of the copy, the SOA's lookup and `setSoaSerial` |
| `CommitTx`, `Create`, `Delete` | the change in memory, with which `persistLocked` begins |
| `OpenFile`, `CloseFile` | a zone file is truncated; its text is flushed |
| `OpenConf`, `CloseConf` | the same of `named.conf`; the save ends and the mutex is free |
| `Crash`, `Restart` | the process dies; `initialize()` reads the disk, or fails |

The mutex is held by the writer that saves (`Unlocked`).  Files are written in
any order; the code takes that of the names, which only a crash could tell
apart.  A crash leaves of the file being written any of its first lines, and
perhaps one cut in the middle: the file is then taken for unreadable, though a
cut line may also read as another record; both count as damage to that zone.  Of
a `named.conf` being written any part of the zones is left, where a crash leaves
a first part.  `saved`, `acked` and `damaged` are history: what the last save
wrote, what was confirmed, and which zones a crash hit.  Requests are confirmed
with the end of their last save.  Authorization and the cache are in `Engine`.

### How Secondary follows the code

`pc` is where the refresh thread is; `wire` holds the messages its master has
sent and it has not read.

| action | code |
|---|---|
| `WakeUp`, `Connect` | `secondaryLoop`, every ten seconds; the list of slave zones; connect, send the query |
| `Answer` | the master's `handleAxfr`: SOA, records, SOA, of the zone as it is then |
| `Receive`, `Closed` | the loop over the messages, which ends with two SOA records or with the connection |
| `Broken` | the connection fails, or a message does not decode, at any point |
| `Begin`, `CommitTransfer`, `Invalidate` | two records or more: all that was there is deleted, all but the last added, the cache emptied |
| `Write` | an update at the master |
| `WriteLocally`, `InvalidateLocally` | an update at the secondary, which nothing refuses: the commit, and later the invalidation |
| `Ask`, `Put` | a query at the secondary that misses the cache: the zone is read, and later the answer is put into the cache |

A master of another make may split its answer (`Split`).  A message longer than
`max_packet_size` is `MaxAnswers` records and more: it ends the transfer.  `owed`
counts the local commits that have yet to invalidate; `late` marks an answer that was
in hand, and outdated, when the cache was invalidated, and is history.

### How Router follows the code

A job is an API request, an UPDATE, a transfer, an import or a command of
`simple-dnsutil`, which is another process with the same databases.  `Find` asks
one backend of `findZone`, `Own` one of `ownerOf`; the call that follows acts on
`Reached`: zones of that name in memory and bind, the zone of that id in SQL.
`Others` makes and deletes zones in the databases from outside.  `Make`, `Refind`,
`Fill` are `createZone` and the two halves of `copyZone`.  Ids are given as each
kind gives them (`NewId`); sqlite gives the last one again.  `moved` is history.

Two things here are so in the code and excepted in the properties by name.  An
import of a zone file into SQL goes on, after `createZone`, with the `ZoneInfo` it
made itself, of id -1 (`MadeUp`): every record but the SOA is refused by SQLite, and success is reported.  And a
zone of SQLite that is deleted and made again between search and call may have left
its id to another, as a zone of memory that is gone leaves its id to be used in a
PostgreSQL behind it.

PostgreSQL takes no records (`TakesRecords`, see `GsqlBackend`): `createZone` makes the
zone there and reports failure, so a POST or a copy ends, and an import goes on.

### How GsqlBackend follows the code

`session` is the connection of a writer's transaction; the writer stands at the
statement it runs next.

| action | code |
|---|---|
| `Find`, `Own` | `findZone`, a SELECT per name up to the root; the router's `ownerOf` |
| `Begin` | `begin`: the result of BEGIN is ignored |
| `Statement` | one statement of `addRecord`, `replaceRrset`, `deleteRrset`, `deleteName`, whose results are ignored |
| `ReadSoa`, `SetSerial` | the SOA read on another connection, then every SOA row of the domain updated |
| `Committed`, `CommitFails` | COMMIT, the one result that is looked at; the destructor rolls back |
| `InsertDomain`, `InsertSoa`, `DeleteRows`, `DeleteDomain` | `createZone` and `deleteZone`, outside any transaction |
| `Restart` | the daemon dies; the database rolls back |

The databases are external; the comment at the head of the module says what is
taken of each.  In PostgreSQL the boolean columns `disabled` and `auth` refuse the
integers that `addRecord`, `createZone` and `lookup` give them (`gsql.cpp` 96-98, 223,
415, 500): no INSERT of a record succeeds and no SOA is found, so all that is left to
model there are deletions, and zones that are made without a SOA and dropped.  A statement may fail at any time (`Fault`).  What is ignored then
goes into `torn`, the zones for which nothing is promised: after a BEGIN that
failed, SQLite runs each statement by itself.

The refinement maps the tables to `ZoneStore`'s zones, seen as a query sees them:
what is committed, by name.  The promise is that a step changes one zone, by one
of five changes, one of which is a whole transaction.  A domain of PostgreSQL may have
the name of another, but records are only in one of them, since new ones get none.

## 3. What is checked

Eleven runs pass; one shows a violation.  On two cores each of the passing ones
takes between a few seconds and three minutes.

| run | instance | distinct states |
|---|---|---|
| `answer_once` | 261 zones, 32 questions, datagrams of four sizes, two server keys of one name, three client keys | 57 000 |
| `engine_coherence` | 2 workers (symmetric), API that patches, 1 zone, 3 questions, 3 updates, cache of 1, 2 writes, serials below 2 | 802 000 |
| `engine_zones` | 1 worker, API that creates and deletes a child zone with an alias loop, 5 changes, 2 hops, serials below 2 | 235 000 |
| `timed` | 2 threads, 2 hosts (both symmetric), 2 answers, rate 1, 2 ticks a second, 5 ticks, cache of 1 | 1 173 000 |
| `server` | `worker_threads` 1 and 2, batch of 1 per thread, 1 TCP session, 3 handlers, the API, stop at any moment | 2 041 000 |
| `server_stop` | the same with 2 handlers | 351 000 |
| `secondary` | 2 slave zones, 1 client, 1 write on either side, 1 fault, answers whole and record by record, messages of at most 3 records | 473 000 |
| `router` | 2 actors (symmetric), 2 jobs of 8, 4 pairs of backends, 4 ways to fill them, 2 changes from outside | 3 840 000 |
| `gsql` | 2 writers (symmetric), 3 requests of 6, 1 failure or restart, SQLite and PostgreSQL | 417 000 |
| `bindfile` | 2 writers, 3 requests of 7, 2 crashes | 862 000 |
| `zone_reload` | 1024 zones, each read twice, and their entries | 10 240 |

`answer_once`: every subset of a pool of eight records that makes aliases, loops,
aliases out of the zone, a wildcard, a delegation with glue and records below it;
and five zones that such subsets do not reach: a delegation below a delegation
with a wildcard between them, wildcards at two depths, names nested deeper than
pointers are followed, names that part from each other one label deeper each
time, and a zone without SOA, whose transfer fails.

* `ReferralsAreExact`: AA, referral and glue follow from the delegations alone.
* `DenialsAreTrue`: NODATA and NXDOMAIN deny only what is not there, empty
  non-terminals and wildcards included.
* `AnswersFormAChain`: the answers are one chain of aliases from the question, of
  whole sets of records of the zone or of a wildcard that covers the question.
* `AlwaysReturns`: alias loops and the walk for wildcards end.
* `MessagesDecode`: an answer or a transfer decodes to itself, or not at all if
  the names that its names share are nested more deeply than the decoder follows
  pointers (`DeeplyNested`).  The encoder bounds nothing, so this does happen,
  and is stated as it is.
* `DatagramsAreWhole`: a datagram is the whole message, or its question with TC.  It
  keeps to its limit if the question does: what is left after the cut is not measured
  again, so a client that advertises less than its own question takes is sent more.
* `SignedIsAuthentic`: an honest signature passes exactly within the fudge and
  under the first key of its name, though the message is decoded and encoded
  again before the MAC is computed.

`engine_coherence`: `UnracedEntriesCurrent`: an answer computed without an
invalidation in between is current; `UnracedSerialBumped`: a write moves the serial
by one, over the wrap, if no zone changed since it read the SOA;
`LastUpdateNotified`: of each zone that an UPDATE changed last the present serial was
announced, unless an announcement is on its way (a PATCH announces nothing, see
below).  `engine_zones`: the inductive invariant `CoherenceInv` and
`UnracedHitsCoherent` when zones come and go, dangling commits included;
`RequestsEnd`.

`timed`: `NeverTwiceTheRate`: in no span of a second do more than twice the rate
pass, which is what calendar seconds allow; `RefusedAtTheRate`: nobody else uses a
host's rate up; `HitsAreFresh`: no record is served past the smallest TTL (an
answer that has a TTL of 0 among others is cached all the same, unless it is the
last).

`server`: `SessionsBounded`: the count is the sessions there are, within the
limit; `UdpHandlersBounded`: the batches bound UDP handlers; `ClearsOnlyJoined`:
clearing `workers_` ends the process only after the race; `InlineIsSafe`: with
`worker_threads` = 1 there is none; `NothingLeftRunning` when `stop()` has returned.
`server_stop`: `StopReturns`: it does return, if no peer holds a session, the API or a
transfer for ever (`PeersGoOn`), though new ones may always come.
The batch is `worker_threads * 4` in the code; the factor is a constant, made 1
so that it overflows within three handlers, while a session is open.

`secondary`: `OneVersion`: a slave zone holds one version of its master's, or a
beginning of one if a transfer broke off (it is committed all the same), with
local updates on top; `CachedIsCurrent`: when no commit waits for its invalidation,
cached answers show their zone, but for those that were read before a commit and
cached after its invalidation; `Converges`: once writes and faults have ceased and if
the zone fits a message, the secondary comes to hold the master's zone, so what was
cut off or added locally is repaired, and its cache to show it, since each transfer
invalidates it: what was cached late does not stay.

`router`: `CallsReachTheirZone`: a call acts on the zone that was found, in the
backend it was found in, if nobody made or deleted a zone of that name meanwhile,
and on no other while the zone is where it was found, unless SQLite gave its id
away; `SearchIsDeepest`; `ConfirmedIsThere`: what a copy, a POST or an import confirms
is there, the import of a zone file into SQL and PostgreSQL excepted.

`gsql`: `NoOrphans`, which speaks of SQLite alone; `RecordsStayHome`: records are in
the zone they are below; `ConfirmedIsWritten`: a confirmed transaction no statement of
which failed is there as a whole, SOA records left out (in PostgreSQL only one that
just deletes can be such a transaction); `KeepsPromise`: the refinement of `ZoneStore`.

`bindfile`, a zone in a file of its own and a child zone that comes and goes:
`DiskIsMemory`: a restart would find what is served; `ConfNeverDangles`;
`CrashLeavesOldOrNew`; `StartsAgain`: only damage, or a list without zones, keeps
the daemon down; `AcknowledgedStay`: what was confirmed stays, over restarts too,
but for a zone whose very file was hit and for what an overlapping transaction
had not copied.

`zone_reload`, every subset of a pool of ten records (a host in full without its
dot, a wildcard, a name out of the zone, owners that read as words of the
syntax): `PlainZonesSurvive`: a zone without such words comes back as it was;
`EntriesComeBack`: so does its entry of `named.conf`, a native zone as a master, and
without its masters (a secondary is then never refreshed after a restart); `ReadingIsStable`: a second
reading changes nothing.

One run shows what the code does against what the repository says of it:

| run | statement | what happens |
|---|---|---|
| `stale_post` | "Packet-cache invalidation after writes" | POST creates a zone and never invalidates: names in it keep the answers of the enclosing zone |

Four more disagreements have no run of their own; the models have the behaviour,
and the properties are stated around it:

* "Canonical writer" (`ROADMAP_CHECKLIST.md`): a host named `ns`, `mx`, `a`, `in` or a
  number is written first on its line and read as a type, a class or a TTL
  (`zone.cpp` 188; `HasWordOwner` in `PlainZonesSurvive`).
* "TCP idle seconds" (`config/README.md` 28): only the wait for the first byte of a
  message has that timeout; a client that stops inside a message, or does not take
  its answer, is waited for without one (`server.cpp` 148, 168-173; `PeersGoOn`).
* "NOTIFY to `also_notify` after SOA serial changes" (`VERSIONING.md` 265): a PATCH
  changes the serial and sends no NOTIFY (`rest.cpp` 305-312; `updated` in
  `LastUpdateNotified`).
* `test_dns_backend.cpp` names "postgres" too (84-85, skipped unless a server is
  configured): integers are given to the BOOL columns `disabled` and `auth`
  (`gsql.cpp` 96-98, 220-223, 497-500), so that an update which adds a record is
  confirmed there and not made (`Fails`; `hurt` in `ConfirmedIsWritten`).

Other things the models do that a reader should know of, which the properties
above are stated around:

* With two workers, a query that read the zone before an update may store its
  answer after the update's invalidation (`Unraced` and `late` except it).
* A TCP peer that closes too early, or a number that is none, ends the process
  (`fate`).
* Two UPDATEs may read the same serial and commit under it
  (`UnracedSerialBumped` speaks of the others).
* Of two overlapping updates over the file backend the later commit undoes the
  earlier (`Overtaken`), and its `createZone` replaces a zone that exists, where the
  memory backend refuses (`Create`).
* `recvDnsMessage` reads without a time limit: a client that stops in the middle
  of a message keeps its session, and with it the UDP loop and `stop()`, that join
  it; so does one that does not take its answer.  `StopReturns` takes it for granted
  that peers go on, which `idle_timeout` does not see to.  A master
  that neither answers nor closes holds up the secondary thread in the same way.
* PostgreSQL confirms the COMMIT of an aborted transaction and rolls back: every
  update that adds a record is confirmed there and not made.
* After a BEGIN that failed SQLite runs the statements by themselves: the client is
  told of the failure, and those that succeeded stay (`torn`).
* `createZone` of the SQL backends leaves a zone without its SOA if the second of its
  statements fails, and PostgreSQL keeps the records of a zone whose deletion failed
  half way.
* A SELECT of `findZone` that fails reads as "no such zone", and the search goes on
  above: the update lands in the enclosing zone.
* The import into SQL, see `MadeUp` above.

*Bounds.*  Each is a constant with the word "bound" beside its declaration.
`MaxChanges` bounds the writes: a write is accepted while fewer changes were made
or are on their way.  Two concurrent writes are what the races of `Engine` need;
the zone runs take five, for delete, create and delete again around one
transaction.  `MaxHops` is 8 in the code; a loop of aliases ends after any
number, and `engine_zones` takes 2.  A cache of one entry with three questions
reaches its limit.  `SerialMod` stands for 2^32, so the wrap is inside the
bounds.  `MaxCalls(db, q)` (AnswerQuery) is no bound of the model: it is how many
backend calls the question can take, computed from the zone, and enough for any
(`RunEnds`).  The 14 bits of an offset are 12
cells, 20 pointers are 2, 512 bytes are 9 cells and `edns_bufsize` 12: messages of the
pool pass each of them.  A second has two ticks, so that a request may be first
or second in it, and five ticks are more than two seconds.  In `BindFileBackend`
three requests are a POST, an update of the new zone and a change under it, or
two overlapping ones and a third after the restart; two crashes are one during
the recovery of another.  In `GsqlBackend` three requests delete a zone, make
another under its id and update the first; one failure at a statement is
enough for what is ignored, and a writer that finds SQLite locked fails without
counting.  In `Secondary` one write makes a zone too large for a
message, takes its SOA or adds a local record, which with the versions at start are
three; the record by record transfer with one fault is cut at each record.
In `Router` two jobs and two outside changes delete and make a zone again while
another is between search and call.

*Deadlock* is checked in `engine_coherence` and `secondary`; elsewhere requests
end with the bound, the daemon may die, stop or stay down.

*Fairness.*  In `Engine`, `WF_vars(Serve(t))` for each thread: a thread that has a
request and can go on does, since no critical section waits for anything but a
mutex that is held for one step.  Clients owe nothing.  NOTIFY waits at most
500 ms per target, which counts as going on.  In `ServerThreads` every loop is fair, and every handler in what it does
without its peer (`Handle`), since `poll()` ends by its timeout (200 ms, the idle
timeout).  What waits for a peer without one is under no fairness: the rest of a message,
room for an answer (`Receive`), a response of the API or a transfer (`Peers`).
`StopReturns` has it as a hypothesis that no such wait lasts for ever.  In `Secondary`, `WF_vars(Refresh)`: the thread runs, and a
master answers and closes; writers and clients owe nothing, and a connection may
break at any time up to the bound.  `AnswerOnce` is one call that is run to its
end.

`TypeOK` of `Engine`, `ServerThreads`, `BindFileBackend` is a theorem; it and those of
the other modules hold in the runs above too, and are left out of their lists of
invariants, which are about more than types.

Each property has a mutant in `PROJECT.json`: an operator next to the one it
replaces (`MatchStepUnbounded`, `InvalidateWithoutNotify`, ...) with a plausible
mistake, under which TLC finds the property violated.

## 4. What is proved

`AnswerProofs`, for any zones, questions and bound on the hops, from
`AnswerAssumption`, which says what names and records are:

* `AnswerInvariant`: `Spec => []AnswerInv`.  The properties speak of a call that
  has returned; `AnswerInv` says what is true of one under way, at every backend
  call.  `ControlInv`: the order of the calls and what is still empty at each.
  `ReferralInv`: AA is clear exactly when the delegations give the question away,
  and of every name server in the authority section the addresses are in the
  additional section or still among the names to look up.  `DenialInv`: while
  nothing is answered, there is nothing at qname, and nothing at the wildcards the
  upward walk has passed.  `ChainInv`: the answers are a chain, and the name that
  is looked up next is where it ends.  `SetsInv`: each answer is of a set that is there
  as a whole, of the zone (`FoundIsWhole`) or of a wildcard above the question
  (`SynthIsWhole`).
* `ReferralsFollowTheZone`: `Spec => []ReferralsAreExact`.
* `DenialsFollowTheZone`: `Spec => []DenialsAreTrue`.
* `AnswersAreChained`: `Spec => []AnswersFormAChain`.

There is one lemma for each backend call.  They rest on lemmas about names (the
names above a name are one of each length, `DeepestAbove`), and on `LookupLists`: a
lookup lists the matching records and nothing else, which needs what `FlattenSeq`
computes (`FlattenSeqMembers`).  The proof found that the property was wrong for a
zone with a delegation below a delegation: an NS or DS question at the lower point
is answered with AA, since the walk up from it stops there.  `Delegated` says so,
and the run has such a zone.

Of the messages, also for any bounds of the codec and any keys, from
`CodecAssumption` and `TsigAssumption` besides, which say that the bounds are
numbers and the keys names and secrets:

* `RoundTrip`: any message with one question and any records that is encoded
  without a limit decodes to itself, or fails if more of the names that its names
  share lie above each other than `decodeName` follows pointers; the question alone is
  always read.
* `MessagesMeanThemselves`: `Spec => []MessagesDecode`.
* `DatagramsStayWhole`: `Spec => []DatagramsAreWhole`.
* `SignaturesAreChecked`: `Spec => []SignedIsAuthentic`.

What `decodeName` reads is a table over jumps and positions, each entry a rule of
later ones; that there is such a table (`ReaderRule`) is shown from the last jump
and the end of the message backwards, by the library's `WFMin` on the numbers.
`Reads` says that at a position there is a name, over a number of
pointers, whatever is written behind it later.  The invariant of writing is
`Remembers`: whatever the compression map remembers can be read where it
remembers it, over as many pointers as there are shared names above it in a
chain (`Recalls`).  Writing another name keeps it (`EncodedName`): it is cut at the
longest suffix that is remembered, and such a suffix is shared with a name
written before, so that one more pointer means one more shared name.  `Laid`
carries this over questions and records and says where each ends, `AsRead` says what
the decoder has read of a section, item by item, and counts make the two meet.  A
datagram that was cut is the question alone, which needs no pointer.  The check of
a signature encodes the decoded message again, so it rests on `RoundTrip` twice.

The proof found that `DeeplyNested` was wrong: it counted owner names above each
other, but a pointer leads to a name that two names share and that may be the owner of
nothing.  The property says so now, and the run has such a zone (`forks`), with
which the old one is violated.

`EngineProofs`, for any workers, zones, requests, cache size and modulus, from
`EngineAssumption` and, where contents matter (the last two),
`RequestsAssumption` (zones, updates and requests are made of records) and
`MaxHopsAssumption`.

* `TypeCorrect`: `Spec => []TypeOK`.
* `CacheStaysBounded`: `Spec => []CacheBounded`, by induction with the
  finiteness of the cache; `PutBounded` is the fact about `PacketCache::put`.
* `CoherenceInvariant`: `Spec => []CoherenceInv`.
* `CacheCoherent`: `Spec => []UnracedEntriesCurrent`.

`UnracedEntriesCurrent` speaks of quiet states only and is not inductive.
`CoherenceInv` is: `ChangePending` says that a change made since the last
invalidation is silent (a POST) or its writer stands at its invalidation;
`EntriesFresh` and `ReadsFresh` say that, if nothing changed since the last
invalidation, cached answers and queries begun since then saw the present
version only.  In a quiet state `ChangePending` turns an unraced entry's
`silentAt < since` into "nothing changed since", and `EntriesFresh` concludes.

The proofs first reduce each writer's action to its effect on the control, the
cache and the history (`BookkeepingMoves`, `WritingChanges`), so that the
backend's data plays no part in them; then there is one step per action.

* `UpdatesAreAnnounced`: `Spec => []LastUpdateNotified`, with deletions of zones and
  patches among the updates.  `NotifyInv` adds the update on its way: of each zone
  that an update changed last the serial was sent, or a thread that changed it stands
  before its NOTIFY.  `CommitToChanges` says that a commit touches no other zone's
  SOA (`OtherZonesSoa`); a write through a zone object that is gone leaves `updated`.
* `UnracedWritesBump`: `Spec => UnracedSerialBumped`, an action property.
  `SerialInv` says of a write before its commit that, unless the zones changed
  since it read the SOA, the serial it carries is one past the zone's.
  `CommitRecords` says what the records of a zone are after the three passes of a
  commit, and `ApexSerialSet` that the last of them sets the serial in every SOA at
  the apex, those that the write itself brought included.  The operations of an
  update and of the API are typed on the way (`UpdateOpsTyped`, `PatchOpsTyped`,
  `PostTyped`).  The property speaks of zones with one SOA before and after.
* `UnracedHitsAreAnswers`: `Spec => []UnracedHitsCoherent`.  The property compares a
  cached response, gathered call by call among other threads' steps, with
  `Answer`, which makes the same calls at once.  `HitInv` relates the two: a query
  that has read the present version only stands at a frame of the uninterrupted
  run (`OnRun`), and so does the response it leaves in the cache.  A step of the
  query is a step of the run (`RunGoesOn`); a write makes the version another one,
  and nothing is claimed then (`ReadKept`, `EntryKept`).  That a frame that is done is
  the last frame of the run needs the run to end: `RunEnds`, from the measure
  `Ends`, by which each call is one fewer of `MaxCalls` (`StepEnds`): a hop of aliases
  counts against `MaxHops`, a name of the wildcard walk against the labels, a
  glue lookup against the records of the referral.

`FlattenSeq` and the frames of a run are recursive functions; that they exist at all
(`FlattenedExists`, `RunIs`) and what they keep (`FlattenSeqIsSeq`) is shown with
`NatsBySteps`, as for the folds below.

`ServerProofs`, for any numbers of workers, sessions and handlers:

* `ThreadsTypeCorrect`: `Spec => []TypeOK`, and `SessionsKeepToLimit`:
  `Spec => []SessionsBounded`.  The type of the count, a natural number, follows
  only from what is counted, so both come from one invariant, `CountInv`.
  `SessionChange` is the key: every step leaves the sessions alone, takes a
  slot, spawns the session of the slot, or ends one.
* `OnlyRacesLeaveUnjoined`: `Spec => []ClearsOnlyJoined`, from `JoinInv`: without a
  race, what is in `workers_` while the UDP loop joins is joined or still ahead
  of its iterator.
* `InlineNeverRaces`: `Spec => []InlineIsSafe`, from `InlineInv` and `JoinInv`.
* `StopLeavesNothing`: `Spec => []NothingLeftRunning`.  `AliveInv`: as long as the loops
  did not race in `workers_`, every handler that has not ended is in it, and
  each loop that `stop()` has joined is over.
* `BatchesBoundHandlers`: `Spec => []UdpHandlersBounded`.  `BatchInv` carries the bound
  through the steps between two batches; what joins a batch leaves no UDP
  handler in progress.

`BindFileProofs`, for any writers, requests, initial zones and number of
crashes:

* `ConfAlwaysWritten`: `Spec => []ConfNeverDangles`.  `FilesInv` says that what
  `named.conf` lists was written, and that during a save every zone is written
  or still to be; a crash in the middle keeps it, since it removes no file.
* `BackendTypeCorrect`: `Spec => []TypeOK`, with `SaveInv`: who saves.

* `DiskStaysMemory`: `Spec => []DiskIsMemory`, `CrashesLeaveOldOrNew`:
  `Spec => []CrashLeavesOldOrNew`, and `OnlyDamageRefuses`: `Spec => []StartsAgain`,
  under `LegibleRequests`: no owner in the initial zones or added is a word that makes
  its file unreadable (a number, a class, `a`, `aaaa`, `soa`, `ds`); with such
  an owner all three are false.  The properties
  speak of quiet states, of the moment after a crash and of a start that failed;
  `DiskInv` ties these together.  `SavedInv`, while the process is up: a file that
  need not be written any more holds its zone, and until `named.conf` is opened it
  lists the zones of the last save, in files that hold that save's records or
  already this one's.  `CrashedInv` is what this leaves when the process dies: every
  listed, undamaged zone has the old or the new records.  It needs that no two
  zones share a file (`FilesDiffer`, from `BindFileAssumption`).  A restart reads
  what was written of what had been read, perhaps, before; that this is
  the same again is `PlainIsRead`, below.
* `ConfirmedStays`: `Spec => []AcknowledgedStay`, if besides every record that is
  added is plain (`PlainRequests`: below the zone, no word of the syntax, an absolute
  host), since others do not survive a restart.  `AckInv` says of a confirmed record
  that it is in the zone and in what the last save wrote, unless the one who
  saves is about to take it back, or a crash hit its zone.  `Kept` says of a
  transaction that its copy has all that was copied and not deleted, and all that was
  added and not deleted again; so a commit drops what it deletes or had not copied
  and nothing else.

`MCBindFile` assumes both hypotheses of its requests, so TLC confirms that the
run's instance has them.

Of zone files, for all names, origins and records, from `LabelsAssumption` (numbers
are labels, but no types) and `ReloadAssumption` (what the zone and the entries
are made of):

* `PlainZonesAlwaysSurvive`: `ReloadSpec => []PlainZonesSurvive`.  One line:
  `PlainLineSurvives`, which rests on `QualifyUndoesRelative`, that `Qualify` undoes
  `MakeRelative` below the origin.  A file: `PlainIsRead`.
* `SecondReadingsChangeNothing`: `ReloadSpec => ReadingIsStable`.  Everything that is
  read is plain (`ReadZonesArePlain`), whatever the text was: its owners were qualified
  by the origin or taken from a line before, and its hosts made absolute.
* `NothingElseIsLost`: `ReloadSpec => []EntriesComeBack`; the body of an entry ends
  at the first brace (`BodyEnds`).

A zone that is read and a copy that is edited are folds (`FoldLeft`), of which the
library's induction theorems say nothing these provers can use.  The lemmas go
around: `MapThenFoldSet` chooses a function on the sets of positions; there is one,
by induction on the number of positions (`FoldsExists`), it goes position by
position (`FoldsStepwise`, then `EditSteps` and `ParseSteps`), and what each step keeps
holds at every position.  The induction is `NatsBySteps`, over a set and not an
operator, from the least element of a well-founded order (`WFMin`).

`TimedProofs`, for any rate, length of a second, hosts and threads:

* `TwiceTheRateAtMost`: `Spec => []NeverTwiceTheRate`, and `RefusalsAtTheRate`:
  `Spec => []RefusedAtTheRate`.  Both come from `LimiterInv`: a bucket counts exactly
  what its host was granted in the second it names, no second has more than the
  rate, and one in which the host was refused has no less.  The count of a
  bucket is the cardinality of a set of history, which only this invariant says.
  A span of one second meets two calendar seconds (`AdjacentSeconds`), hence twice.
* `HitsStayFresh`: `Spec => HitsAreFresh`, an action property: an entry expires at
  the time it was put in plus what `KeptFor` computes of the TTLs (`CacheInv`), and
  lemmas about that fold say how it relates to each TTL and to the last.

`GsqlProofs`, for any writers, requests, zones and number of failures:

* `TablesSound`: `Spec => []NoOrphans`.  `NoOrphans` speaks of what is committed and
  is not inductive: a transaction carries rows that are not yet.  `TablesInv` adds
  that those have their domain too, that SQLite has one transaction open at a
  time, and that a writer has a connection exactly while it stands in a
  transaction (`ControlInv`).  A domain is deleted only by a writer that found no
  other transaction open, so nobody holds rows of it; one is inserted only under
  a new name.  A change of serials keeps every row's domain (`RenumberKeepsRows`).
* `RecordsStayInTheirZones`: `Spec => []RecordsStayHome`, if the initial zones and the
  requests hold records of their own zones only (`HomeRequests`, which the instance
  satisfies).  `HomeInv` follows the id a writer read before its transaction: in
  PostgreSQL ids are never used again, and in SQLite a writer whose id was given
  to another zone meanwhile makes that zone torn.
* `CommitsAreWhole`: `Spec => ConfirmedIsWritten`.  `WrittenInv` says of every
  transaction that is open and unhurt that what it has done so far is in what its
  session sees (`AdditionWritten`, `DeletionWritten`), and of rows that ids are
  given once (`RowIds`), so that nobody else takes one of them away.  The proof
  corrected the property: it used to hold deletions of SOA records to the letter,
  but a deletion of the whole apex, an SOA added after it and the serial that is
  set last leave an SOA which the deletion names and no later statement adds.
* `BackendKeepsPromise`: `Spec => KeepsPromise`, the refinement of `ZoneStore`.  It rests
  on what the two above know of the tables and on `PromiseInv`, which TLC has checked on
  the instance too.  `Work` says of an open, unhurt transaction that the rows of its
  session are what the statements done so far make of no records at all, that each row
  it hides was named by a deletion, and in SQLite that every such row is hidden;
  `TouchedInv` that no session touches a row another one holds; `TxPromise` that
  whatever it touches is in its own domain.  So a commit is the promised
  transaction (`CommitUpdates`), for while it was open nobody else added or changed a
  row: SQLite was locked, and in PostgreSQL nothing but deletions succeeds
  (`PgsqlInv`, `OthersOnlyDelete`).  There a name may have two domains, of which one
  has rows (`OneDomainHasRows`), and a commit to the other does nothing
  (`CommitOfNothing`).  What makes the two sides meet is that a fold over
  operations on any records is what they leave of those and what they make of
  none (`AppliedParts`); that the fold and the concatenation of a request's calls go
  step by step is `AppliedSteps` and `FlattenSteps`.  Statements outside a transaction
  and commits of hurt ones change one domain (`OneDomain`), whose zones are torn.

`SecondaryProofs`, for any zones, updates, ways to split an answer and faults; from
`SecondaryAssumption`, which says what zones, updates and local records are made of:

* `CacheFollowsTransfers`: `Spec => []CachedIsCurrent`.  `CacheInv` says the same of the
  answers that clients have in hand.
* `OneVersionAtATime`: `Spec => []OneVersion`.  It speaks of zones at rest, and the
  hazard lies in the transfer between: `TransferInv` adds that what was received
  is a beginning of one answer of the master, of which the messages under way
  are the rest (`Splits`); that what is about to be committed is the whole answer
  unless the transfer broke off (`Usable`); and that between reading the zone and
  the commit it gains only local records.  That the loop stops only at the end of an
  answer (`CompleteIsWhole`) rests on `AxfrFramed`: the SOA comes first and last
  and nowhere between.  `CommitContents` says what a commit leaves in a zone.
  `OneVersion` leaves records that are also added locally out of the comparison
  (`Pulled`), on both sides: a commit cannot tell them apart.

`RouterProofs`, for any backends, threads, jobs, and any number of zones made and
deleted from outside; from `RouterAssumption`, which says that names are
sequences and that backends begin with finitely many:

* `CallsReachZone`: `Spec => []CallsReachTheirZone`, which excepts a zone that its
  backend has lost since it was found, and `SearchesDeepest`:
  `Spec => []SearchIsDeepest`.  Neither is inductive: both speak of a search that is
  over.  `RouterInv` says of one under way that what it holds is the deepest of
  the backends asked so far, among the names nobody has touched (`Covered`), and
  that what was found is where it was found (`Found`); of the tables, that an id
  of SQL is one zone's and none is beyond the last one given (`StoreInv`).
  `Evolves` is all that one actor's step does to the others (`ActorKept`), whatever
  it was.  That two names which enclose a third and are equally long are equal
  (`OneOfEachLength`) is what makes "deepest" a single zone.
* `ConfirmsWhatIsThere`: `Spec => ConfirmedIsThere`, an action property.  `ConfirmInv`
  says of a job between making its zone and filling it that the zone is still
  there, with the id it remembers, unless somebody else touched the name.  The import
  of a zone file into SQL is excepted, and a PostgreSQL, where nothing is put.

Only model-checked: liveness (`AlwaysReturns`, `RequestsEnd`, `StopReturns`,
`Converges`), which this prover does not reach.  Every invariant and action property
of the passing runs is a theorem.

## 5. Plan

1. `BindFileBackend` and the transaction of `MemoryBackend` as refinements of
   `ZoneStore`.  The file backend is one only without overlapping transactions,
   and the memory backend orders the changes in its own way (`Commit`).
2. `checkZone` and `rectifyZone` of `zone.cpp`; the export of an update's zone while
   another exports it.
3. MySQL, whose sessions differ from both modelled ones.

## 6. Not modelled, and why

* HMAC-SHA256 and base64: functions of bytes; a MAC is the pair of secret and
  data.
* The text of rdata and its conversion to the wire and back, the parsing of
  names with escapes: layout of data, which the models compare whole.  Labels of
  more than 63 bytes, which the encoder cuts to fit the length, are left out.
* Sockets, logging, platform, the SQL client libraries and MySQL: I/O and foreign
  code.  Of sockets the models take that a message arrives whole or the
  connection breaks.
* Configuration, the daemon's entry point, the options and output of
  `simple-dnsutil`: sequential parsing of text before anything runs; configured
  values are CONSTANTS.  HTTP and JSON parsing and the GET requests of the API:
  they change nothing.
* `checkZone`, `rectifyZone`, and the directives, comments and parentheses of zone
  files written by hand.
* The RD bit, the class and the case of a question, which the cache key leaves
  out: the models compare answers, not header bits.
* A disk that is full: the file backend does not look at the result of a write,
  and nothing in the repository promises anything for it.
* Two exports at a time: after an UPDATE, `exportBind` runs in that update's own
  thread, and writes the zone file and `named.conf` without a lock.  What a
  reader makes of files written twice at once is not modelled.
* An UPDATE that deletes the SOA at the apex is reachable in `Engine`,
  `GsqlBackend` and `Secondary` (where it makes a zone that cannot be
  transferred); what should happen then is said nowhere.
* The order within a memory transaction (deletions before additions, where files
  and SQL keep the order of the update) is modelled as it is in each; which one
  is meant is said nowhere.
* The secondary thread as a writer among `Engine`'s threads: it commits and
  invalidates like a PATCH; `Secondary` has it with a cache and clients of its own.
* `stop()` closing descriptors that the loops use: a call on a closed one fails,
  which is "nothing received"; the reuse of its number is not modelled.
* The parts of the clock: `TimedEngine` has one clock that never goes back.
