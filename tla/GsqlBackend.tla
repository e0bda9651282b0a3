----------------------------- MODULE GsqlBackend ------------------------------
(***************************************************************************)
(* The SQL backends (backend/gsql.cpp) over SQLite or PostgreSQL, under    *)
(* several writers.  Every call opens a connection of its own; a           *)
(* transaction keeps one.  An action is one SQL statement.  The results of *)
(* most statements are ignored by the code, so what a statement that fails *)
(* does is as much of the model as what one does that succeeds.            *)
(*                                                                         *)
(* Of the databases, which are external, the model has what the code sees: *)
(*   sqlite (driver sqlite.cpp): BEGIN IMMEDIATE takes the only write lock *)
(*     or fails at once, no busy timeout being set; a statement that fails *)
(*     leaves the transaction open; names of domains are unique, records   *)
(*     go with their domain, the id of the last domain may be used again.  *)
(*   pgsql (postgres.cpp): an error aborts the transaction, and COMMIT     *)
(*     then rolls back and reports success; nothing is unique, nothing     *)
(*     cascades, ids are not used again; a statement sees what others have *)
(*     committed before it (waiting for a row lock changes no outcome).    *)
(*     Its boolean columns refuse the integers of the code: no INSERT of a *)
(*     record succeeds and no lookup returns one, so the only records are  *)
(*     those the tables had before, and all that works is to delete.       *)
(***************************************************************************)
EXTENDS MemoryBackend, FiniteSets

CONSTANTS
  Writers,     \* the threads that write
  Dialects,    \* the databases the daemon may be configured with
  Requests,    \* the requests [kind, zone, calls, soa]; a call of a
               \* transaction is the sequence of its statements
  InitZones,   \* zone -> set of records
  SerialMod,   \* a serial is a number below SerialMod: 2^32 in the code
  MaxRequests, \* bound: requests in one run
  MaxFaults    \* bound: failures of statements and connections in one run

InitRecords == UNION {{<<z, rr>> : rr \in InitZones[z]} : z \in DOMAIN InitZones}

ASSUME GsqlAssumption ==
  /\ Dialects \subseteq {"sqlite", "pgsql"}
  /\ IsFiniteSet(InitRecords) /\ IsFiniteSet(DOMAIN InitZones)
  /\ SerialMod \in Nat \ {0} /\ MaxRequests \in Nat /\ MaxFaults \in Nat

\* Zones and requests are made of records.
GsqlRecords == RRs(Seq(STRING))
GsqlOps == [op : {"add", "rrset", "name"}, rr : GsqlRecords]

ASSUME RecordsAssumption ==
  /\ \A z \in DOMAIN InitZones : InitZones[z] \subseteq GsqlRecords
  /\ \A req \in Requests :
       /\ req.calls \in Seq(Seq(GsqlOps))
       /\ req.kind = "POST" =>
            req.soa # << >> /\ req.soa[1] \in GsqlRecords /\ req.soa[1].name = req.zone

VARIABLES
  dialect,
  domains,   \* table domains: a set of [id, name]
  rows,      \* table records: a set of [id, dom, rr]
  lastDom,   \* the last id of a domain given out (pgsql)
  lastRow,   \* the last id of a record given out
  session,   \* per writer: the transaction's connection, [state, ins, del, set]
  pc, tx,    \* per writer: the statement it runs next, and its request
  requests, faults,
  torn       \* history: the zones a statement failed for inside a transaction,
             \* or changed outside its own

tables == <<domains, rows, lastDom, lastRow>>
vars == <<dialect, tables, session, pc, tx, requests, faults, torn>>

\* A session has no transaction ("none"), one that is open ("open") or aborted
\* by an error ("aborted"); after a BEGIN that failed it runs every statement on
\* its own ("auto", sqlite) or its connection is lost ("broken", pgsql).  ins,
\* del and set are the changes nobody else sees yet: rows inserted, ids of rows
\* deleted, <<id, serial>> of SOA rows changed.
NoSession == [state |-> "none", ins |-> {}, del |-> {}, set |-> {}]
InState(state) == [NoSession EXCEPT !.state = state]
NoTx == [kind |-> "none", zone |-> Root, at |-> Root, dom |-> 0, calls |-> << >>, soa |-> << >>,
         done |-> << >>, serial |-> {}, hurt |-> FALSE, then |-> "idle"]

Ids(doms) == {d.id : d \in doms}
Names(doms) == {d.name : d \in doms}

Init ==
  /\ dialect \in Dialects
  /\ \E id \in {f \in [DOMAIN InitZones -> 1 .. Cardinality(DOMAIN InitZones)] :
                  \A y, z \in DOMAIN InitZones : f[y] = f[z] => y = z} :
       /\ domains = {[id |-> id[z], name |-> z] : z \in DOMAIN InitZones}
       /\ \E pos \in {SetToSeq(InitRecords)} :
            /\ rows = {[id |-> i, dom |-> id[pos[i][1]], rr |-> pos[i][2]] : i \in DOMAIN pos}
            /\ lastRow = Len(pos)
  /\ lastDom = Cardinality(DOMAIN InitZones)
  /\ session = [w \in Writers |-> NoSession]
  /\ pc = [w \in Writers |-> "idle"]
  /\ tx = [w \in Writers |-> NoTx]
  /\ requests = 0 /\ faults = 0 /\ torn = {}

Goto(w, label) == pc' = [pc EXCEPT ![w] = label]
Fault == faults < MaxFaults /\ faults' = faults + 1
NoFault == UNCHANGED faults
\* The reply is sent; a transaction that is not done is rolled back.
Reply(w) ==
  /\ Goto(w, "idle") /\ tx' = [tx EXCEPT ![w] = NoTx] /\ session' = [session EXCEPT ![w] = NoSession]

\* sqlite: another connection holds the write lock.
Locked(w) == dialect = "sqlite" /\ \E v \in Writers \ {w} : session[v].state = "open"

\* The zones whose rows a statement for domain dom reaches.
NamesOf(dom) == {d.name : d \in {x \in domains : x.id = dom}}

-----------------------------------------------------------------------------
(* Finding the zone.                                                       *)

Receive(w) == \E req \in Requests :
  /\ pc[w] = "idle" /\ requests < MaxRequests
  /\ requests' = requests + 1
  /\ tx' = [tx EXCEPT ![w] = [NoTx EXCEPT !.kind = req.kind, !.zone = req.zone, !.at = req.zone,
                                         !.calls = req.calls, !.soa = req.soa]]
  /\ Goto(w, IF req.kind = "POST" THEN "domain" ELSE "find")
  /\ UNCHANGED <<dialect, tables, session, faults, torn>>

\* findZone: one SELECT for each name from the one asked for up to the root.  A
\* SELECT that fails returns no rows and the search goes on above.
Find(w) ==
  LET t    == tx[w]
      hits == {d \in domains : d.name = t.at}
      next == IF t.kind = "DELETE" THEN "empty" ELSE "begin"
  IN  /\ pc[w] = "find"
      /\ \/ /\ hits # {} /\ NoFault
            /\ IF t.kind \in {"DELETE", "PATCH"} /\ t.at # t.zone
               THEN Reply(w)
               ELSE \E d \in hits :
                      /\ tx' = [tx EXCEPT ![w].zone = t.at, ![w].dom = d.id, ![w].then = next]
                      /\ Goto(w, "own") /\ UNCHANGED session
         \/ /\ IF hits = {} THEN NoFault ELSE Fault
            /\ IF t.at = Root
               THEN Reply(w)
               ELSE tx' = [tx EXCEPT ![w].at = Parent(@)] /\ UNCHANGED <<pc, session>>
      /\ UNCHANGED <<dialect, tables, requests, torn>>

\* BackendRouter::ownerOf, before every call for a zone: is one of that name listed?
Own(w) ==
  LET t == tx[w]
  IN  /\ pc[w] = "own"
      /\ \/ /\ t.zone \in Names(domains) /\ NoFault
            /\ Goto(w, t.then) /\ UNCHANGED <<tx, session>>
         \/ /\ IF t.zone \in Names(domains) THEN Fault ELSE NoFault
            /\ IF t.then = "soa" THEN Goto(w, "commit") /\ UNCHANGED <<tx, session>> ELSE Reply(w)
      /\ UNCHANGED <<dialect, tables, requests, torn>>

-----------------------------------------------------------------------------
(* A transaction.                                                          *)

\* begin: db(), and the result of BEGIN, which the constructor ignores.
Begin(w) ==
  LET busy == Locked(w)
  IN  /\ pc[w] = "begin"
      /\ \/ /\ ~busy /\ NoFault
            /\ session' = [session EXCEPT ![w] = InState("open")]
            /\ Goto(w, "statement") /\ UNCHANGED <<tx, torn>>
         \/ /\ IF busy THEN NoFault ELSE Fault
            /\ session' = [session EXCEPT ![w] = InState(IF dialect = "sqlite" THEN "auto" ELSE "broken")]
            /\ tx' = [tx EXCEPT ![w].hurt = TRUE]
            /\ Goto(w, "statement") /\ UNCHANGED torn
         \/ Fault /\ Reply(w) /\ UNCHANGED torn
      /\ UNCHANGED <<dialect, tables, requests>>

\* What a session sees: what is committed and what it did itself.
Sees(w) == {r \in rows : r.id \notin session[w].del} \cup session[w].ins

\* A statement of writer w cannot succeed.
Fails(w, op) ==
  \/ session[w].state \in {"aborted", "broken"}
  \/ session[w].state = "auto" /\ Locked(w)
  \/ op.op = "add" /\ (dialect = "pgsql" \/ tx[w].dom \notin Ids(domains))

GoneAnyType(w, op) == {r \in Sees(w) : r.dom = tx[w].dom /\ op.rr.name = r.rr.name}
GoneNothing(w, op) == {}

\* The rows a DELETE of the transaction takes away.
Gone(w, op) == {r \in Sees(w) : r.dom = tx[w].dom /\ Deletes(op, r.rr)}

\* addRecord, deleteRrset and deleteName succeed.
Succeed(w, op) ==
  LET dom  == tx[w].dom
      new  == [id |-> lastRow + 1, dom |-> dom, rr |-> op.rr]
      gone == Gone(w, op)
      auto == session[w].state = "auto"
  IN  /\ lastRow' = IF op.op = "add" THEN lastRow + 1 ELSE lastRow
      /\ IF auto
         THEN /\ rows' = IF op.op = "add" THEN rows \cup {new} ELSE rows \ gone
              /\ UNCHANGED session
         ELSE /\ session' = [session EXCEPT
                   ![w].ins = IF op.op = "add" THEN @ \cup {new} ELSE @ \ gone,
                   ![w].del = IF op.op = "add" THEN @ ELSE @ \cup {r.id : r \in gone}]
              /\ UNCHANGED rows
      /\ tx' = [tx EXCEPT ![w].calls[1] = Tail(@), ![w].done = Append(@, op)]
      /\ torn' = IF auto THEN torn \cup NamesOf(dom) ELSE torn

\* A call of the transaction stops at the first of its statements that fails,
\* and its result is ignored.
GiveUpCall(w) ==
  /\ session' = [session EXCEPT ![w].state = IF dialect = "pgsql" THEN "aborted" ELSE @]
  /\ tx' = [tx EXCEPT ![w].calls = Tail(@), ![w].hurt = TRUE]
  /\ UNCHANGED <<rows, lastRow, torn>>

Statement(w) ==
  LET t  == tx[w]
      op == t.calls[1][1]
  IN  /\ pc[w] = "statement"
      /\ IF t.calls = << >>
         THEN /\ IF t.kind = "POST" THEN Goto(w, "commit") /\ UNCHANGED tx
                 ELSE Goto(w, "own") /\ tx' = [tx EXCEPT ![w].then = "soa"]
              /\ NoFault /\ UNCHANGED <<rows, lastRow, session, torn>>
         ELSE IF t.calls[1] = << >>
         THEN /\ tx' = [tx EXCEPT ![w].calls = Tail(@)]
              /\ NoFault /\ UNCHANGED <<pc, rows, lastRow, session, torn>>
         ELSE /\ \/ ~Fails(w, op) /\ NoFault /\ Succeed(w, op)
                 \/ (IF Fails(w, op) THEN NoFault ELSE Fault) /\ GiveUpCall(w)
              /\ UNCHANGED pc
      /\ UNCHANGED <<dialect, domains, lastDom, requests>>

\* lookup of the SOA, on another connection: what is committed.  pgsql refuses
\* its condition, disabled=0.
ReadSoa(w) ==
  LET t    == tx[w]
      soas == {r \in rows : /\ r.dom = t.dom /\ r.rr.name = t.zone /\ r.rr.type = "SOA"
                            /\ dialect # "pgsql"}
  IN  /\ pc[w] = "soa"
      /\ \/ /\ soas # {} /\ NoFault
            /\ \E r \in soas : tx' = [tx EXCEPT ![w].serial = {(r.rr.num + 1) % SerialMod}]
            /\ Goto(w, "serial")
         \/ /\ IF soas = {} THEN NoFault ELSE Fault
            /\ Goto(w, "commit") /\ UNCHANGED tx
      /\ UNCHANGED <<dialect, tables, session, requests, torn>>

Renumber(rws, set) ==
  {IF \E s \in set : s[1] = r.id
   THEN [r EXCEPT !.rr.num = (CHOOSE s \in set : s[1] = r.id)[2]] ELSE r : r \in rws}

\* The SOA rows of the domain, any of them with their new serial.
SoaRows(w) == {r.id : r \in {x \in Sees(w) : x.dom = tx[w].dom /\ x.rr.type = "SOA"}}
NewSerials(w, ids) == {<<id, s>> : id \in ids, s \in tx[w].serial}

WriteSerials(w, ids) ==
  IF session[w].state = "auto"
  THEN rows' = Renumber(rows, NewSerials(w, ids)) /\ UNCHANGED session
  ELSE /\ session' = [session EXCEPT
            ![w].ins = Renumber(@, NewSerials(w, ids)),
            ![w].set = {s \in @ : s[1] \notin ids} \cup NewSerials(w, ids)]
       /\ UNCHANGED rows

\* setSoaSerial: a SELECT of every SOA of the domain, an UPDATE of each.  Those
\* that fail are skipped.  In pgsql no SOA was read, and it is not called.
SetSerial(w) ==
  LET fails == session[w].state = "auto" /\ Locked(w)
  IN  /\ pc[w] = "serial"
      /\ \/ ~fails /\ NoFault /\ WriteSerials(w, SoaRows(w)) /\ UNCHANGED tx
         \/ /\ \/ fails /\ NoFault /\ UNCHANGED <<rows, session>>
               \/ ~fails /\ Fault /\ \E ids \in SUBSET SoaRows(w) : WriteSerials(w, ids)
            /\ tx' = [tx EXCEPT ![w].hurt = TRUE]
      /\ torn' = IF session[w].state = "auto" THEN torn \cup NamesOf(tx[w].dom) ELSE torn
      /\ Goto(w, "commit")
      /\ UNCHANGED <<dialect, domains, lastDom, lastRow, requests>>

\* The rows after the open transaction of w is committed.
Merged(w) ==
  Renumber({r \in rows : r.id \notin session[w].del}, session[w].set) \cup session[w].ins

\* commit: the only result the callers look at.  COMMIT succeeds on a
\* transaction that an error has aborted, which it rolls back.
Committed(w) ==
  /\ pc[w] = "commit"
  /\ session[w].state \in {"open", "aborted"}
  /\ rows' = IF session[w].state = "open" THEN Merged(w) ELSE rows
  /\ torn' = IF session[w].state = "open"
             THEN torn \cup IF tx[w].hurt THEN NamesOf(tx[w].dom)
                            ELSE NamesOf(tx[w].dom) \ {tx[w].zone}
             ELSE torn
  /\ Reply(w)
  /\ UNCHANGED <<dialect, domains, lastDom, lastRow, requests, faults>>

\* COMMIT fails, always on a connection without a transaction; the destructor
\* rolls back.
CommitFails(w) ==
  /\ pc[w] = "commit"
  /\ IF session[w].state \in {"auto", "broken"} THEN NoFault ELSE Fault
  /\ Reply(w)
  /\ UNCHANGED <<dialect, tables, requests, torn>>

-----------------------------------------------------------------------------
(* createZone and deleteZone: two statements each, outside any transaction. *)

Largest(ids) == IF ids = {} THEN 0 ELSE CHOOSE i \in ids : \A j \in ids : j <= i

RefusedIfBusy(w) == Locked(w)

\* The INSERT cannot succeed: the unique index of sqlite refuses a second domain
\* of one name.
Refused(w) == dialect = "sqlite" /\ (Locked(w) \/ tx[w].zone \in Names(domains))

\* INSERT INTO domains.
InsertDomain(w) ==
  LET t     == tx[w]
      id    == IF dialect = "sqlite" THEN Largest(Ids(domains)) + 1 ELSE lastDom + 1
  IN  /\ pc[w] = "domain"
      /\ \/ /\ ~Refused(w) /\ NoFault
            /\ domains' = domains \cup {[id |-> id, name |-> t.zone]}
            /\ lastDom' = id
            /\ tx' = [tx EXCEPT ![w].dom = id]
            /\ Goto(w, "apex") /\ UNCHANGED session
         \/ (IF Refused(w) THEN NoFault ELSE Fault) /\ Reply(w) /\ UNCHANGED <<domains, lastDom>>
      /\ UNCHANGED <<dialect, rows, lastRow, requests, torn>>

NewDomainLatest(w) == Largest(Ids(domains))

\* lastInsertId() of the connection that inserted the domain.
NewDomain(w) == tx[w].dom

\* INSERT of the SOA for lastInsertId(); if it fails the domain stays without.
InsertSoa(w) ==
  LET t     == tx[w]
      fails == dialect = "pgsql" \/ Locked(w) \/ t.dom \notin Ids(domains)
  IN  /\ pc[w] = "apex"
      /\ \/ /\ ~fails /\ NoFault
            /\ rows' = rows \cup {[id |-> lastRow + 1, dom |-> NewDomain(w), rr |-> t.soa[1]]}
            /\ lastRow' = lastRow + 1
            /\ torn' = torn \cup (NamesOf(t.dom) \ {t.zone})
            /\ IF t.calls = << >> THEN Reply(w) ELSE Goto(w, "find") /\ UNCHANGED <<tx, session>>
         \/ (IF fails THEN NoFault ELSE Fault) /\ Reply(w) /\ UNCHANGED <<rows, lastRow, torn>>
      /\ UNCHANGED <<dialect, domains, lastDom, requests>>

\* DELETE FROM records; whether it worked is not asked.
DeleteRows(w) ==
  LET t == tx[w]
  IN  /\ pc[w] = "empty"
      /\ \/ /\ ~Locked(w) /\ NoFault
            /\ rows' = {r \in rows : r.dom # t.dom}
            /\ torn' = torn \cup (NamesOf(t.dom) \ {t.zone})
         \/ (IF Locked(w) THEN NoFault ELSE Fault) /\ UNCHANGED <<rows, torn>>
      /\ Goto(w, "drop")
      /\ UNCHANGED <<dialect, domains, lastDom, lastRow, session, tx, requests>>

\* DELETE FROM domains; in sqlite the records left go with it.
DeleteDomain(w) ==
  LET t == tx[w]
  IN  /\ pc[w] = "drop"
      /\ \/ /\ ~Locked(w) /\ NoFault
            /\ domains' = {d \in domains : d.id # t.dom}
            /\ rows' = IF dialect = "sqlite" THEN {r \in rows : r.dom # t.dom} ELSE rows
            /\ torn' = torn \cup (NamesOf(t.dom) \ {t.zone})
         \/ (IF Locked(w) THEN NoFault ELSE Fault) /\ UNCHANGED <<domains, rows, torn>>
      /\ Reply(w)
      /\ UNCHANGED <<dialect, lastDom, lastRow, requests>>

\* The daemon dies and is started again: the database drops the connections
\* and what they had not committed.
Restart ==
  /\ Fault
  /\ pc' = [w \in Writers |-> "idle"]
  /\ tx' = [w \in Writers |-> NoTx]
  /\ session' = [w \in Writers |-> NoSession]
  /\ UNCHANGED <<dialect, tables, requests, torn>>

Run(w) ==
  \/ Find(w) \/ Own(w) \/ Begin(w) \/ Statement(w) \/ ReadSoa(w) \/ SetSerial(w)
  \/ Committed(w) \/ CommitFails(w)
  \/ InsertDomain(w) \/ InsertSoa(w) \/ DeleteRows(w) \/ DeleteDomain(w)

Next == Restart \/ \E w \in Writers : Receive(w) \/ Run(w)

Spec == Init /\ [][Next]_vars

-----------------------------------------------------------------------------
\* Control and sessions are well formed: a session is open only while its writer
\* runs a transaction, and sqlite has one of them at a time (gsql.cpp:197-202).
TypeOK ==
  /\ dialect \in Dialects
  /\ \A r \in rows : r.id \in 1 .. lastRow /\ r.dom \in 1 .. lastDom
  /\ \A r, s \in rows : r.id = s.id => r = s
  /\ \A w \in Writers :
       /\ pc[w] \in {"idle", "find", "own", "begin", "statement", "soa", "serial", "commit",
                     "domain", "apex", "empty", "drop"}
       /\ session[w].state \in {"none", "open", "aborted", "auto", "broken"}
       /\ session[w].state # "none" => pc[w] \in {"statement", "own", "soa", "serial", "commit"}
       /\ session[w].state # "open" /\ dialect = "sqlite" => session[w] = InState(session[w].state)
  /\ torn # {} => dialect = "sqlite"
  /\ requests \in 0 .. MaxRequests /\ faults \in 0 .. MaxFaults

\* In sqlite no record is without its domain and no two domains have one name,
\* whatever fails and however writers interleave (gsql.cpp:35-47): a POST of a
\* zone that exists is refused (rest.cpp:203-205), a transaction whose zone is
\* gone adds nothing.
NoOrphans ==
  dialect = "sqlite" =>
    /\ \A r \in rows : r.dom \in Ids(domains)
    /\ \A c, d \in domains : c.name = d.name => c = d

\* Updates that name records of their own zone put none into another, though a
\* zone is known by an id read before the transaction began: but for torn zones,
\* the only ones whose id sqlite has used again (gsql.cpp:214, 494).
RecordsStayHome ==
  \A r \in rows, d \in domains :
    r.dom = d.id /\ d.name \notin torn => IsSubdomainOf(r.rr.name, d.name)

\* What that speaks of: zones and requests whose records are within their zone.
HomeOps(zone) ==
  {o \in [op : STRING, rr : RRs(Seq(STRING))] : IsSubdomainOf(o.rr.name, zone)}
HomeRequests ==
  /\ \A z \in DOMAIN InitZones : \A rr \in InitZones[z] :
       rr \in RRs(Seq(STRING)) /\ IsSubdomainOf(rr.name, z)
  /\ \A req \in Requests :
       /\ req.zone \in Seq(STRING)
       /\ req.calls \in Seq(Seq(HomeOps(req.zone)))
       /\ req.kind = "POST" =>
            req.soa[1] \in RRs(Seq(STRING)) /\ IsSubdomainOf(req.soa[1].name, req.zone)

Contents(dom) == {r.rr : r \in {x \in rows : x.dom = dom}}

\* A transaction that is confirmed, no statement of which failed, is there as a
\* whole: each record it added and did not delete again, and, where nobody else
\* writes meanwhile or can add anything, nothing it deleted and did not add again
\* (gsql.cpp:204-281).  In pgsql that is a promise about deletions: an addition
\* there always fails.  SOA records are left out, since their serial is set last.
ConfirmedIsWritten ==
  [][\A w \in Writers : Committed(w) /\ ~tx[w].hurt =>
       LET done  == tx[w].done
           kept  == {r.rr : r \in {x \in rows' : x.dom = tx[w].dom}}
       IN  \A i \in DOMAIN done :
             LET later == {done[j] : j \in i + 1 .. Len(done)}
             IN  IF done[i].op = "add"
                 THEN \/ done[i].rr.type = "SOA" \/ done[i].rr \in kept
                      \/ \E o \in later : o.op # "add" /\ Deletes(o, done[i].rr)
                 ELSE \A rr \in kept :
                        rr.type # "SOA" /\ Deletes(done[i], rr) => AddRecord(rr) \in later]_vars

-----------------------------------------------------------------------------
(* The promise of a backend, kept: ZoneStore with the zones as a query sees *)
(* them.  In pgsql a name may have several domains, but records are only in *)
(* one of them.                                                             *)
Store ==
  [z \in Names(domains) |-> UNION {Contents(d.id) : d \in {x \in domains : x.name = z}}]

Promise == INSTANCE ZoneStore WITH
  store   <- Store,
  Changes <- {FlattenSeq(req.calls) : req \in Requests},
  Soas    <- {req.soa[1] : req \in {x \in Requests : x.soa # << >>}},
  Serials <- 0 .. SerialMod - 1

\* Every statement of every writer is a step of that promise, or changes nothing
\* in it: transactions are atomic, and confined to their zone.
KeepsPromise == Promise!Spec

=============================================================================
