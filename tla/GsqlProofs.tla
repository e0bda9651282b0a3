----------------------------- MODULE GsqlProofs ------------------------------
(***************************************************************************)
(* Proofs about GsqlBackend, for any writers, requests, zones and any      *)
(* number of failures of statements, connections and the daemon.           *)
(***************************************************************************)
EXTENDS GsqlBackend, TLAPS, FiniteSetTheorems, SequenceTheorems, WellFoundedInduction

\* Where a writer may be that has a connection of its own.
InTransaction(w) ==
  \/ pc[w] \in {"statement", "soa", "serial", "commit"}
  \/ pc[w] = "own" /\ tx[w].then = "soa"

IsRow(r) == r = [id |-> r.id, dom |-> r.dom, rr |-> r.rr]

\* The tables and the sessions, whatever the database.
ControlInv ==
  /\ DOMAIN pc = Writers /\ DOMAIN tx = Writers /\ DOMAIN session = Writers
  /\ \A w \in Writers :
       /\ "then" \in DOMAIN tx[w] /\ tx[w].then \in {"idle", "begin", "empty", "soa"}
       /\ session[w] = [state |-> session[w].state, ins |-> session[w].ins,
                        del |-> session[w].del, set |-> session[w].set]
       /\ session[w].state # "none" <=> InTransaction(w)
       /\ \A r \in session[w].ins : IsRow(r)
  /\ \A r \in rows : IsRow(r)

\* In sqlite: one open transaction, and no row without its domain, seen or not.
SqliteInv ==
  /\ \A v, w \in Writers : session[v].state = "open" /\ session[w].state = "open" => v = w
  /\ \A w \in Writers :
       /\ session[w].state \in {"none", "open", "auto"}
       /\ session[w].state # "open" => session[w].ins = {}
       /\ \A r \in session[w].ins : r.dom \in Ids(domains)
  /\ \A r \in rows : r.dom \in Ids(domains)
  /\ \A c, d \in domains : c.name = d.name => c = d

\* In pgsql: no session adds or changes rows, for no INSERT succeeds and no SOA is read.
PgsqlInv ==
  \A w \in Writers : session[w].ins = {} /\ session[w].set = {} /\ pc[w] # "serial"

TablesInv ==
  /\ ControlInv
  /\ dialect \in {"sqlite", "pgsql"}
  /\ dialect = "sqlite" => SqliteInv
  /\ dialect = "pgsql" => PgsqlInv

-----------------------------------------------------------------------------
\* A new serial changes no row's domain.
LEMMA RenumberKeepsRows ==
  ASSUME NEW rws, NEW set, \A r \in rws : IsRow(r)
  PROVE  \A s \in Renumber(rws, set) : IsRow(s) /\ \E r \in rws : s.dom = r.dom
<1> TAKE s \in Renumber(rws, set)
<1>1. PICK r \in rws :
        s = IF \E p \in set : p[1] = r.id
            THEN [r EXCEPT !.rr.num = (CHOOSE p \in set : p[1] = r.id)[2]] ELSE r
  BY DEF Renumber
<1>2. r = [id |-> r.id, dom |-> r.dom, rr |-> r.rr]
  BY DEF IsRow
<1>3. CASE \E p \in set : p[1] = r.id
  <2> DEFINE num == (CHOOSE p \in set : p[1] = r.id)[2]
  <2>1. s = [r EXCEPT !.rr.num = num]
    BY <1>1, <1>3
  <2> HIDE DEF num
  <2>2. s = [id |-> r.id, dom |-> r.dom, rr |-> [r.rr EXCEPT !.num = num]]
    BY <1>2, <2>1
  <2> QED
    BY <2>2 DEF IsRow
<1>4. CASE ~\E p \in set : p[1] = r.id
  BY <1>1, <1>4
<1> QED
  BY <1>3, <1>4

\* The positions of the first records in their table.
LEMMA InitPositions ==
  SetToSeq(InitRecords) \in [1 .. Cardinality(InitRecords) -> InitRecords]
<1>1. ExistsBijection(1 .. Cardinality(InitRecords), InitRecords)
  BY GsqlAssumption, FS_CardinalityType
<1>2. PICK f \in [1 .. Cardinality(InitRecords) -> InitRecords] : IsInjective(f)
  BY <1>1 DEF ExistsBijection, Bijection, Injection, IsInjective
<1> QED
  BY <1>2 DEF SetToSeq

LEMMA InitTables == Init => TablesInv
<1> SUFFICES ASSUME Init PROVE TablesInv
  OBVIOUS
<1>1. PICK id \in {f \in [DOMAIN InitZones -> 1 .. Cardinality(DOMAIN InitZones)] :
                     \A y, z \in DOMAIN InitZones : f[y] = f[z] => y = z} :
        /\ domains = {[id |-> id[z], name |-> z] : z \in DOMAIN InitZones}
        /\ \E pos \in {SetToSeq(InitRecords)} :
             rows = {[id |-> i, dom |-> id[pos[i][1]], rr |-> pos[i][2]] : i \in DOMAIN pos}
  BY DEF Init
<1> DEFINE pos == SetToSeq(InitRecords)
<1>2. pos \in [1 .. Cardinality(InitRecords) -> InitRecords]
  BY InitPositions
<1>3. rows = {[id |-> i, dom |-> id[pos[i][1]], rr |-> pos[i][2]] : i \in DOMAIN pos}
  BY <1>1
<1> HIDE DEF pos
<1>4. \A i \in DOMAIN pos : pos[i][1] \in DOMAIN InitZones
  BY <1>2 DEF InitRecords
<1>5. \A r \in rows : IsRow(r) /\ r.dom \in Ids(domains)
  <2> TAKE r \in rows
  <2>1. PICK i \in DOMAIN pos : r = [id |-> i, dom |-> id[pos[i][1]], rr |-> pos[i][2]]
    BY <1>3
  <2> DEFINE d == [id |-> id[pos[i][1]], name |-> pos[i][1]]
  <2>2. d \in domains /\ d.id = r.dom
    BY <1>1, <1>4, <2>1
  <2> HIDE DEF d
  <2>3. r.dom \in Ids(domains)
    BY <2>2 DEF Ids
  <2> QED
    BY <2>1, <2>3 DEF IsRow
<1>6. ControlInv
  BY <1>5 DEF Init, ControlInv, NoSession, NoTx, InTransaction
<1>7. SqliteInv
  BY <1>1, <1>5 DEF Init, SqliteInv, NoSession
<1>8. PgsqlInv /\ dialect \in {"sqlite", "pgsql"}
  BY GsqlAssumption DEF Init, PgsqlInv, NoSession
<1> QED
  BY <1>6, <1>7, <1>8 DEF TablesInv

-----------------------------------------------------------------------------
\* The other writers are where they were.
OthersStay(w) ==
  /\ DOMAIN pc' = Writers /\ DOMAIN tx' = Writers /\ DOMAIN session' = Writers
  /\ \A v \in Writers \ {w} : pc'[v] = pc[v] /\ tx'[v] = tx[v] /\ session'[v] = session[v]

IsSession(s) == s = [state |-> s.state, ins |-> s.ins, del |-> s.del, set |-> s.set]

\* What a step of writer w makes of its own control.
OwnControl(w) ==
  /\ "then" \in DOMAIN tx'[w] /\ tx'[w].then \in {"idle", "begin", "empty", "soa"}
  /\ IsSession(session'[w])
  /\ session'[w].state # "none" <=> InTransaction(w)'
  /\ \A r \in session'[w].ins : IsRow(r)
  /\ \A r \in rows' : IsRow(r)

LEMMA ControlKept ==
  ASSUME ControlInv, NEW w \in Writers, OthersStay(w), OwnControl(w)
  PROVE  ControlInv'
BY DEF ControlInv, OthersStay, OwnControl, InTransaction, IsSession

\* What a step of writer w must keep of sqlite's tables, if it does not open a
\* transaction.
OwnTables(w) ==
  /\ session'[w].state = session[w].state \/ session'[w].state \in {"none", "auto"}
  /\ session'[w].state # "open" => session'[w].ins = {}
  /\ \A r \in session'[w].ins : r.dom \in Ids(domains)'
  /\ \A r \in rows' : r.dom \in Ids(domains)'
  /\ \A c, d \in domains' : c.name = d.name => c = d

\* Domains only come, or there is no other open transaction.
LEMMA SqliteKept ==
  ASSUME SqliteInv, NEW w \in Writers, OthersStay(w), OwnTables(w),
         \/ Ids(domains) \subseteq Ids(domains)'
         \/ \A v \in Writers \ {w} : session[v].state # "open"
  PROVE  SqliteInv'
<1> USE DEF SqliteInv, OthersStay, OwnTables
<1>1. \A v \in Writers \ {w} : session'[v] = session[v]
  OBVIOUS
<1>2. \A u, v \in Writers : session'[u].state = "open" /\ session'[v].state = "open" => u = v
  BY <1>1
<1>3. \A v \in Writers : /\ session'[v].state \in {"none", "open", "auto"}
                         /\ session'[v].state # "open" => session'[v].ins = {}
  BY <1>1
<1>4. \A v \in Writers : \A r \in session'[v].ins : r.dom \in Ids(domains)'
  BY <1>1
<1> QED
  BY <1>2, <1>3, <1>4

\* A step after which the writer is at rest and its connection closed.
LEMMA Replies ==
  ASSUME ControlInv, NEW w \in Writers, Reply(w)
  PROVE  /\ OthersStay(w)
         /\ "then" \in DOMAIN tx'[w] /\ tx'[w].then = "idle" /\ pc'[w] = "idle"
         /\ session'[w] = NoSession
BY DEF ControlInv, Reply, Goto, OthersStay, NoTx

-----------------------------------------------------------------------------
\* What setSoaSerial does to rows, seen by all or not: new serials.
SerialEffect(w) ==
  /\ DOMAIN session' = DOMAIN session /\ IsSession(session'[w])
  /\ \A v \in Writers \ {w} : session'[v] = session[v]
  /\ rows' = rows \/ \E set : rows' = Renumber(rows, set)
  /\ \/ session'[w].ins = session[w].ins
     \/ \E set : session'[w].ins = Renumber(session[w].ins, set)
  /\ session'[w].state = session[w].state

LEMMA SetSerialEffect ==
  ASSUME ControlInv, NEW w \in Writers, SetSerial(w)
  PROVE  SerialEffect(w)
<1>1. PICK st, ins, del, set : session[w] = [state |-> st, ins |-> ins, del |-> del, set |-> set]
  BY DEF ControlInv
<1>2. DOMAIN session = Writers
  BY DEF ControlInv
<1>3. CASE UNCHANGED <<rows, session>>
  BY <1>1, <1>2, <1>3 DEF SerialEffect, IsSession
<1>5. ASSUME NEW ids, WriteSerials(w, ids) PROVE SerialEffect(w)
  <2>1. CASE session[w].state = "auto"
    BY <1>1, <1>2, <1>5, <2>1 DEF WriteSerials, SerialEffect, IsSession
  <2>2. CASE session[w].state # "auto"
    <3> DEFINE newIns == Renumber(session[w].ins, NewSerials(w, ids))
               newSet == {s \in session[w].set : s[1] \notin ids} \cup NewSerials(w, ids)
    <3>1. session' = [session EXCEPT ![w].ins = newIns, ![w].set = newSet] /\ UNCHANGED rows
      BY <1>5, <2>2 DEF WriteSerials
    <3>2. newIns = Renumber(session[w].ins, NewSerials(w, ids))
      OBVIOUS
    <3> HIDE DEF newIns, newSet
    <3>3. session'[w] = [state |-> st, ins |-> newIns, del |-> del, set |-> newSet]
      <4> DEFINE old == session[w]
      <4>1. session'[w] = [old EXCEPT !.ins = newIns, !.set = newSet]
        BY <1>2, <3>1
      <4>2. old = [state |-> st, ins |-> ins, del |-> del, set |-> set]
        BY <1>1
      <4> HIDE DEF old
      <4> QED
        BY <4>1, <4>2
    <3>4. \A v \in Writers \ {w} : session'[v] = session[v]
      BY <1>2, <3>1
    <3> QED
      BY <1>1, <1>2, <3>1, <3>2, <3>3, <3>4 DEF SerialEffect, IsSession
  <2> QED
    BY <2>1, <2>2
<1> QED
  BY <1>3, <1>5 DEF SetSerial

\* The control after each action.
LEMMA StepsKeepControl ==
  ASSUME ControlInv, NEW w \in Writers, Receive(w) \/ Run(w)
  PROVE  OthersStay(w) /\ OwnControl(w)
<1> USE DEF OwnControl
<1>1. /\ "then" \in DOMAIN tx[w] /\ tx[w].then \in {"idle", "begin", "empty", "soa"}
      /\ IsSession(session[w])
      /\ session[w].state # "none" <=> InTransaction(w)
      /\ \A r \in session[w].ins : IsRow(r)
      /\ \A r \in rows : IsRow(r)
  BY DEF ControlInv, IsSession
<1>2. IsSession(NoSession) /\ NoSession.state = "none" /\ NoSession.ins = {}
  BY DEF NoSession, IsSession
<1>3. ASSUME Reply(w), \A r \in rows' : IsRow(r) PROVE OthersStay(w) /\ OwnControl(w)
  BY <1>2, <1>3, Replies DEF InTransaction
<1>4. CASE Receive(w)
  <2>1. PICK req \in Requests :
          /\ pc[w] = "idle"
          /\ tx' = [tx EXCEPT ![w] = [NoTx EXCEPT !.kind = req.kind, !.zone = req.zone,
                                     !.at = req.zone, !.calls = req.calls, !.soa = req.soa]]
          /\ Goto(w, IF req.kind = "POST" THEN "domain" ELSE "find")
          /\ UNCHANGED <<session, rows>>
    BY <1>4 DEF Receive, tables
  <2> DEFINE t == [NoTx EXCEPT !.kind = req.kind, !.zone = req.zone,
                               !.at = req.zone, !.calls = req.calls, !.soa = req.soa]
  <2>2. "then" \in DOMAIN t /\ t.then = "idle"
    BY DEF NoTx
  <2>3. tx' = [tx EXCEPT ![w] = t]
    BY <2>1
  <2> HIDE DEF t
  <2> QED
    BY <1>1, <2>1, <2>2, <2>3 DEF Goto, OthersStay, InTransaction, ControlInv
<1>5. CASE Find(w)
  <2>1. UNCHANGED rows /\ pc[w] = "find"
    BY <1>5 DEF Find, tables
  <2>2. CASE Reply(w)
    BY <1>1, <1>3, <2>1, <2>2
  <2>3. CASE ~Reply(w)
    <3>1. /\ UNCHANGED session
          /\ \/ Goto(w, "own") /\ \E d \in domains, next \in {"empty", "begin"} :
                  tx' = [tx EXCEPT ![w].zone = tx[w].at, ![w].dom = d.id, ![w].then = next]
             \/ UNCHANGED pc /\ tx' = [tx EXCEPT ![w].at = Parent(@)]
      BY <1>5, <2>3 DEF Find
    <3>2. /\ DOMAIN tx' = DOMAIN tx /\ DOMAIN tx'[w] = DOMAIN tx[w]
          /\ \A v \in Writers \ {w} : tx'[v] = tx[v]
          /\ tx'[w].then \in {"idle", "begin", "empty", "soa"}
          /\ pc'[w] = "own" => tx'[w].then # "soa"
      <4>1. CASE UNCHANGED pc /\ tx' = [tx EXCEPT ![w].at = Parent(@)]
        <5> DEFINE t == [tx[w] EXCEPT !.at = Parent(@)]
        <5>1. tx' = [tx EXCEPT ![w] = t]
          BY <4>1 DEF ControlInv
        <5>2. DOMAIN t = DOMAIN tx[w] /\ t.then = tx[w].then
          BY <1>1
        <5> HIDE DEF t
        <5> QED
          BY <1>1, <2>1, <3>1, <4>1, <5>1, <5>2 DEF ControlInv
      <4>2. CASE \E d \in domains, next \in {"empty", "begin"} :
                   tx' = [tx EXCEPT ![w].zone = tx[w].at, ![w].dom = d.id, ![w].then = next]
        <5>1. PICK d \in domains, next \in {"empty", "begin"} :
                tx' = [tx EXCEPT ![w].zone = tx[w].at, ![w].dom = d.id, ![w].then = next]
          BY <4>2
        <5> DEFINE t == [tx[w] EXCEPT !.zone = tx[w].at, !.dom = d.id, !.then = next]
        <5>2. tx' = [tx EXCEPT ![w] = t]
          BY <5>1 DEF ControlInv
        <5>3. DOMAIN t = DOMAIN tx[w] /\ t.then = next
          BY <1>1
        <5> HIDE DEF t
        <5> QED
          BY <5>2, <5>3 DEF ControlInv
      <4> QED
        BY <3>1, <4>1, <4>2
    <3> QED
      BY <1>1, <2>1, <3>1, <3>2 DEF Goto, OthersStay, InTransaction, ControlInv
  <2> QED
    BY <2>2, <2>3
<1>6. CASE Own(w)
  BY <1>1, <1>3, <1>6 DEF Own, Goto, OthersStay, InTransaction, ControlInv, tables
<1>7. CASE Begin(w)
  BY <1>1, <1>3, <1>7 DEF Begin, Goto, OthersStay, InTransaction, ControlInv, tables,
                          InState, NoSession, IsSession
<1>8. CASE Statement(w)
  <2> DEFINE op == tx[w].calls[1][1]
  <2>1. pc[w] = "statement"
    BY <1>8 DEF Statement
  <2>2. CASE tx[w].calls = << >>
    BY <1>1, <1>8, <2>2 DEF Statement, Goto, OthersStay, InTransaction, ControlInv
  <2>3. CASE tx[w].calls # << >> /\ tx[w].calls[1] = << >>
    BY <1>1, <1>8, <2>3 DEF Statement, OthersStay, InTransaction, ControlInv
  <2>4. CASE UNCHANGED pc /\ Succeed(w, op)
    <3> DEFINE new == [id |-> lastRow + 1, dom |-> tx[w].dom, rr |-> op.rr]
    <3>1. IsRow(new)
      BY DEF IsRow
    <3>2. \A r \in rows' : IsRow(r)
      BY <1>1, <2>4, <3>1 DEF Succeed
    <3>3. /\ DOMAIN tx' = DOMAIN tx /\ DOMAIN tx'[w] = DOMAIN tx[w] /\ tx'[w].then = tx[w].then
          /\ \A v \in Writers \ {w} : tx'[v] = tx[v]
      BY <1>1, <2>4 DEF Succeed, ControlInv
    <3>4. /\ DOMAIN session' = DOMAIN session /\ IsSession(session'[w])
          /\ session'[w].state = session[w].state
          /\ session'[w].ins \subseteq session[w].ins \cup {new}
          /\ \A v \in Writers \ {w} : session'[v] = session[v]
      BY <1>1, <2>4 DEF Succeed, ControlInv, IsSession
    <3> QED
      BY <1>1, <2>1, <2>4, <3>1, <3>2, <3>3, <3>4 DEF OthersStay, InTransaction, ControlInv
  <2>5. CASE UNCHANGED pc /\ GiveUpCall(w)
    <3>1. /\ DOMAIN tx' = DOMAIN tx /\ DOMAIN tx'[w] = DOMAIN tx[w] /\ tx'[w].then = tx[w].then
          /\ \A v \in Writers \ {w} : tx'[v] = tx[v]
      BY <1>1, <2>5 DEF GiveUpCall, ControlInv
    <3>2. /\ DOMAIN session' = DOMAIN session /\ IsSession(session'[w])
          /\ session'[w].ins = session[w].ins
          /\ session'[w].state \in {session[w].state, "aborted"}
          /\ \A v \in Writers \ {w} : session'[v] = session[v]
      BY <1>1, <2>5 DEF GiveUpCall, ControlInv, IsSession
    <3> QED
      BY <1>1, <2>1, <2>5, <3>1, <3>2 DEF GiveUpCall, OthersStay, InTransaction, ControlInv
  <2> QED
    BY <1>8, <2>2, <2>3, <2>4, <2>5 DEF Statement
<1>9. CASE ReadSoa(w)
  BY <1>1, <1>9 DEF ReadSoa, Goto, OthersStay, InTransaction, ControlInv, tables
<1>10. CASE SetSerial(w)
  <2>1. pc[w] = "serial" /\ Goto(w, "commit")
    BY <1>10 DEF SetSerial
  <2>2. /\ DOMAIN tx' = DOMAIN tx /\ DOMAIN tx'[w] = DOMAIN tx[w] /\ tx'[w].then = tx[w].then
        /\ \A v \in Writers \ {w} : tx'[v] = tx[v]
    BY <1>1, <1>10 DEF SetSerial, ControlInv
  <2>3. SerialEffect(w)
    BY <1>10, SetSerialEffect
  <2>4. \A r \in rows' : IsRow(r)
    BY <1>1, <2>3, RenumberKeepsRows DEF SerialEffect
  <2>5. \A r \in session'[w].ins : IsRow(r)
    BY <1>1, <2>3, RenumberKeepsRows DEF SerialEffect
  <2> QED
    BY <1>1, <2>1, <2>2, <2>3, <2>4, <2>5
       DEF SerialEffect, Goto, OthersStay, InTransaction, ControlInv
<1>11. CASE Committed(w)
  <2>1. \A r \in Merged(w) : IsRow(r)
    BY <1>1, RenumberKeepsRows DEF Merged
  <2> QED
    BY <1>1, <1>3, <1>11, <2>1 DEF Committed
<1>12. CASE CommitFails(w)
  BY <1>1, <1>3, <1>12 DEF CommitFails, tables
<1>13. CASE InsertDomain(w)
  BY <1>1, <1>3, <1>13 DEF InsertDomain, Goto, OthersStay, InTransaction, ControlInv
<1>14. CASE InsertSoa(w)
  BY <1>1, <1>3, <1>14 DEF InsertSoa, Goto, OthersStay, InTransaction, ControlInv, IsRow
<1>15. CASE DeleteRows(w)
  BY <1>1, <1>15 DEF DeleteRows, Goto, OthersStay, InTransaction, ControlInv
<1>16. CASE DeleteDomain(w)
  BY <1>1, <1>3, <1>16 DEF DeleteDomain
<1> QED
  BY <1>4, <1>5, <1>6, <1>7, <1>8, <1>9, <1>10, <1>11, <1>12, <1>13, <1>14, <1>15, <1>16 DEF Run

-----------------------------------------------------------------------------
\* The tables of sqlite after each action.
LEMMA StepsKeepTables ==
  ASSUME ControlInv, SqliteInv, dialect = "sqlite", NEW w \in Writers, Receive(w) \/ Run(w)
  PROVE  SqliteInv'
<1>1. OthersStay(w)
  BY StepsKeepControl
<1>2. /\ session[w].state \in {"none", "open", "auto"}
      /\ session[w].state # "open" => session[w].ins = {}
      /\ \A r \in session[w].ins : r.dom \in Ids(domains)
      /\ \A r \in rows : r.dom \in Ids(domains)
      /\ \A c, d \in domains : c.name = d.name => c = d
      /\ session[w].state # "none" <=> InTransaction(w)
  BY DEF SqliteInv, ControlInv
<1>3. NoSession.state = "none" /\ NoSession.ins = {}
  BY DEF NoSession
<1>4. ASSUME UNCHANGED <<session, domains, rows>> PROVE SqliteInv'
  BY <1>4, <1>2, <1>1, SqliteKept DEF OwnTables
<1>5. ASSUME Reply(w), UNCHANGED domains, \A r \in rows' : r.dom \in Ids(domains) PROVE SqliteInv'
  BY <1>5, <1>3, <1>2, <1>1, Replies, SqliteKept DEF OwnTables
<1>6. CASE Receive(w)
  BY <1>4, <1>6 DEF Receive, tables
<1>7. CASE Find(w)
  BY <1>4, <1>5, <1>2, <1>7 DEF Find, tables
<1>8. CASE Own(w)
  BY <1>4, <1>5, <1>2, <1>8 DEF Own, tables
<1>9. CASE Begin(w)
  <2>1. UNCHANGED <<domains, rows>>
    BY <1>9 DEF Begin, tables
  <2>2. CASE Reply(w)
    BY <1>2, <1>5, <2>1, <2>2
  <2>3. CASE ~Locked(w) /\ session' = [session EXCEPT ![w] = InState("open")]
    <3>1. \A v \in Writers \ {w} : session'[v] = session[v] /\ session[v].state # "open"
      BY <2>3 DEF Locked, ControlInv
    <3>2. session'[w].state = "open" /\ session'[w].ins = {}
      BY <2>3 DEF ControlInv, InState, NoSession
    <3> QED
      BY <2>1, <3>1, <3>2 DEF SqliteInv
  <2>4. CASE session' = [session EXCEPT ![w] = InState("auto")]
    <3>1. session'[w].state = "auto" /\ session'[w].ins = {}
      BY <2>4 DEF ControlInv, InState, NoSession
    <3> QED
      BY <1>1, <1>2, <2>1, <3>1, SqliteKept DEF OwnTables
  <2> QED
    BY <1>9, <2>2, <2>3, <2>4 DEF Begin
<1>10. CASE Statement(w)
  <2> DEFINE op == tx[w].calls[1][1]
             new == [id |-> lastRow + 1, dom |-> tx[w].dom, rr |-> op.rr]
  <2>1. UNCHANGED domains
    BY <1>10 DEF Statement
  <2>2. CASE UNCHANGED <<session, rows>>
    BY <1>4, <2>1, <2>2
  <2>3. CASE ~Fails(w, op) /\ Succeed(w, op)
    <3>1. op.op = "add" => new.dom \in Ids(domains)
      BY <2>3 DEF Fails
    <3>2. CASE session[w].state = "auto"
      <4>1. UNCHANGED session
        BY <2>3, <3>2 DEF Succeed
      <4>2. \A r \in rows' : r \in rows \/ (op.op = "add" /\ r = new)
        BY <2>3, <3>2 DEF Succeed
      <4> HIDE DEF op, new
      <4>3. \A r \in rows' : r.dom \in Ids(domains)
        BY <1>2, <3>1, <4>2
      <4> QED
        BY <1>1, <1>2, <2>1, <4>1, <4>3, SqliteKept DEF OwnTables
    <3>3. CASE session[w].state # "auto"
      <4>1. session[w].state = "open"
        BY <1>2, <1>10, <3>3 DEF Statement, InTransaction
      <4>2. /\ UNCHANGED rows
            /\ session'[w].state = session[w].state
            /\ \A r \in session'[w].ins : r \in session[w].ins \/ (op.op = "add" /\ r = new)
        BY <2>3, <3>3 DEF Succeed, ControlInv
      <4> HIDE DEF op, new
      <4>3. \A r \in session'[w].ins : r.dom \in Ids(domains)
        BY <1>2, <3>1, <4>2
      <4> QED
        BY <1>1, <1>2, <2>1, <4>1, <4>2, <4>3, SqliteKept DEF OwnTables
    <3> QED
      BY <3>2, <3>3
  <2>4. CASE GiveUpCall(w)
    <3>1. UNCHANGED rows /\ session'[w].state = session[w].state /\ session'[w].ins = session[w].ins
      BY <2>4 DEF GiveUpCall, ControlInv
    <3> QED
      BY <1>1, <1>2, <2>1, <3>1, SqliteKept DEF OwnTables
  <2> QED
    BY <1>10, <2>2, <2>3, <2>4 DEF Statement
<1>11. CASE ReadSoa(w)
  BY <1>4, <1>11 DEF ReadSoa, tables
<1>12. CASE SetSerial(w)
  <2>1. UNCHANGED domains
    BY <1>12 DEF SetSerial
  <2>2. SerialEffect(w) /\ \A r \in rows \cup session[w].ins : IsRow(r)
    BY <1>12, SetSerialEffect DEF ControlInv
  <2>3. \A r \in rows' : r.dom \in Ids(domains)
    BY <1>2, <2>2, RenumberKeepsRows DEF SerialEffect
  <2>4. \A r \in session'[w].ins : \E s \in session[w].ins : r.dom = s.dom
    BY <2>2, RenumberKeepsRows DEF SerialEffect
  <2>5. session'[w].state = session[w].state
    BY <2>2 DEF SerialEffect
  <2> QED
    BY <1>1, <1>2, <2>1, <2>3, <2>4, <2>5, SqliteKept DEF OwnTables
<1>13. CASE Committed(w)
  <2>1. \A r \in Merged(w) : r.dom \in Ids(domains)
    <3> DEFINE kept == {r \in rows : r.id \notin session[w].del}
    <3>1. \A r \in kept : IsRow(r) /\ r.dom \in Ids(domains)
      BY <1>2 DEF ControlInv
    <3> HIDE DEF kept
    <3>2. \A r \in Renumber(kept, session[w].set) : r.dom \in Ids(domains)
      BY <3>1, RenumberKeepsRows
    <3> QED
      BY <1>2, <3>2 DEF Merged, kept
  <2> QED
    BY <1>2, <1>5, <1>13, <2>1 DEF Committed
<1>14. CASE CommitFails(w)
  BY <1>5, <1>2, <1>14 DEF CommitFails, tables
<1>15. CASE InsertDomain(w)
  <2>1. UNCHANGED rows
    BY <1>15 DEF InsertDomain
  <2>2. CASE Reply(w) /\ UNCHANGED domains
    BY <1>2, <1>5, <2>1, <2>2
  <2>3. ASSUME NEW id, ~Refused(w), UNCHANGED session,
               domains' = domains \cup {[id |-> id, name |-> tx[w].zone]}
        PROVE  SqliteInv'
    <3>1. \A d \in domains : d.name # tx[w].zone
      BY <2>3 DEF Refused, Names
    <3>2. \A c, d \in domains' : c.name = d.name => c = d
      BY <1>2, <2>3, <3>1
    <3>3. Ids(domains) \subseteq Ids(domains)'
      BY <2>3 DEF Ids
    <3> QED
      BY <1>1, <1>2, <2>1, <2>3, <3>2, <3>3, SqliteKept DEF OwnTables
  <2> QED
    BY <1>15, <2>2, <2>3 DEF InsertDomain
<1>16. CASE InsertSoa(w)
  <2>1. UNCHANGED domains
    BY <1>16 DEF InsertSoa
  <2>2. \A r \in rows' : r.dom \in Ids(domains)
    BY <1>2, <1>16 DEF InsertSoa, NewDomain
  <2>3. CASE Reply(w)
    BY <1>5, <2>1, <2>2, <2>3
  <2>4. CASE ~Reply(w)
    <3>1. UNCHANGED session
      BY <1>16, <2>4 DEF InsertSoa
    <3> QED
      BY <1>1, <1>2, <2>1, <2>2, <3>1, SqliteKept DEF OwnTables
  <2> QED
    BY <2>3, <2>4
<1>17. CASE DeleteRows(w)
  BY <1>1, <1>2, <1>17, SqliteKept DEF DeleteRows, OwnTables
<1>18. CASE DeleteDomain(w)
  <2>1. session[w].state = "none" /\ Reply(w)
    BY <1>2, <1>18 DEF DeleteDomain, InTransaction
  <2>2. CASE UNCHANGED <<domains, rows>>
    BY <1>2, <1>5, <2>1, <2>2
  <2>3. CASE /\ ~Locked(w)
             /\ domains' = {d \in domains : d.id # tx[w].dom}
             /\ rows' = {r \in rows : r.dom # tx[w].dom}
    <3>1. \A v \in Writers \ {w} : session[v].state # "open"
      BY <2>3 DEF Locked
    <3>2. \A i \in Ids(domains) : i # tx[w].dom => i \in Ids(domains)'
      BY <2>3 DEF Ids
    <3>3. session'[w].state = "none" /\ session'[w].ins = {}
      BY <1>3, <2>1, Replies
    <3> QED
      BY <1>1, <1>2, <2>3, <3>1, <3>2, <3>3, SqliteKept DEF OwnTables
  <2> QED
    BY <1>18, <2>2, <2>3 DEF DeleteDomain
<1> QED
  BY <1>6, <1>7, <1>8, <1>9, <1>10, <1>11, <1>12, <1>13, <1>14, <1>15, <1>16, <1>17, <1>18 DEF Run

\* In pgsql a step of a writer changes no row and adds none.
LEMMA StepsOnlyDelete ==
  ASSUME ControlInv, PgsqlInv, dialect = "pgsql", NEW w \in Writers, Receive(w) \/ Run(w)
  PROVE  PgsqlInv' /\ rows' \subseteq rows
<1>1. OthersStay(w)
  BY StepsKeepControl
<1>2. /\ session[w].ins = {} /\ session[w].set = {} /\ pc[w] # "serial"
      /\ session[w] = [state |-> session[w].state, ins |-> session[w].ins,
                       del |-> session[w].del, set |-> session[w].set]
      /\ DOMAIN session = Writers /\ DOMAIN pc = Writers
      /\ tx[w].then # "serial"
  BY DEF PgsqlInv, ControlInv
<1>3. SUFFICES /\ session'[w].ins = {} /\ session'[w].set = {} /\ pc'[w] # "serial"
               /\ rows' \subseteq rows
  BY <1>1 DEF PgsqlInv, OthersStay
<1>4. NoSession.ins = {} /\ NoSession.set = {}
  BY DEF NoSession
<1>5. Reply(w) => session'[w].ins = {} /\ session'[w].set = {} /\ pc'[w] # "serial"
  BY <1>2, <1>4 DEF Reply, Goto
<1>6. CASE Receive(w)
  BY <1>2, <1>6 DEF Receive, Goto, tables
<1>7. CASE Find(w)
  BY <1>2, <1>5, <1>7 DEF Find, Goto, tables
<1>8. CASE Own(w)
  BY <1>2, <1>5, <1>8 DEF Own, Goto, tables
<1>9. CASE Begin(w)
  <2>1. \A state : InState(state).ins = {} /\ InState(state).set = {}
    BY DEF InState, NoSession
  <2> QED
    BY <1>2, <1>5, <1>9, <2>1 DEF Begin, Goto, tables
<1>10. CASE Statement(w)
  <2> DEFINE op == tx[w].calls[1][1]
  <2>1. CASE UNCHANGED pc /\ ~Fails(w, op) /\ Succeed(w, op)
    <3>1. op.op # "add"
      BY <2>1 DEF Fails
    <3> HIDE DEF op
    <3>2. session'[w].ins = {} /\ session'[w].set = {} /\ rows' \subseteq rows
      BY <1>2, <2>1, <3>1 DEF Succeed
    <3> QED
      BY <1>2, <2>1, <3>2
  <2>2. CASE UNCHANGED pc /\ GiveUpCall(w)
    BY <1>2, <2>2 DEF GiveUpCall
  <2>3. CASE UNCHANGED <<rows, session>> /\ (UNCHANGED pc \/ Goto(w, "commit") \/ Goto(w, "own"))
    BY <1>2, <2>3 DEF Goto
  <2> QED
    BY <1>10, <2>1, <2>2, <2>3 DEF Statement
<1>11. CASE ReadSoa(w)
  BY <1>2, <1>11 DEF ReadSoa, Goto, tables
<1>12. CASE SetSerial(w)
  BY <1>2, <1>12 DEF SetSerial
<1>13. CASE Committed(w)
  <2>1. \A rws : Renumber(rws, {}) = rws
    BY DEF Renumber
  <2>2. Merged(w) \subseteq rows
    BY <1>2, <2>1 DEF Merged
  <2> QED
    BY <1>5, <1>13, <2>2 DEF Committed
<1>14. CASE CommitFails(w)
  BY <1>5, <1>14 DEF CommitFails, tables
<1>15. CASE InsertDomain(w)
  BY <1>2, <1>5, <1>15 DEF InsertDomain, Goto
<1>16. CASE InsertSoa(w)
  BY <1>5, <1>16 DEF InsertSoa
<1>17. CASE DeleteRows(w)
  BY <1>2, <1>17 DEF DeleteRows, Goto
<1>18. CASE DeleteDomain(w)
  BY <1>5, <1>18 DEF DeleteDomain
<1> QED
  BY <1>6, <1>7, <1>8, <1>9, <1>10, <1>11, <1>12, <1>13, <1>14, <1>15, <1>16, <1>17, <1>18 DEF Run

LEMMA NextTables == TablesInv /\ [Next]_vars => TablesInv'
<1> SUFFICES ASSUME TablesInv, [Next]_vars PROVE TablesInv'
  OBVIOUS
<1>1. /\ ControlInv /\ (dialect = "sqlite" => SqliteInv) /\ (dialect = "pgsql" => PgsqlInv)
      /\ dialect \in {"sqlite", "pgsql"}
  BY DEF TablesInv
<1>2. CASE Restart
  BY <1>1, <1>2 DEF Restart, Fault, tables, TablesInv, ControlInv, SqliteInv, PgsqlInv, InTransaction,
                    NoSession, NoTx
<1>3. ASSUME NEW w \in Writers, Receive(w) \/ Run(w) PROVE TablesInv'
  <2>1. UNCHANGED dialect
    BY <1>3, Zenon DEF Receive, Run, Find, Own, Begin, Statement, ReadSoa, SetSerial, Committed,
                CommitFails, InsertDomain, InsertSoa, DeleteRows, DeleteDomain
  <2>2. ControlInv'
    BY <1>1, <1>3, StepsKeepControl, ControlKept
  <2>3. dialect = "sqlite" => SqliteInv'
    BY <1>1, <1>3, StepsKeepTables
  <2>4. dialect = "pgsql" => PgsqlInv'
    BY <1>1, <1>3, StepsOnlyDelete
  <2> QED
    BY <1>1, <2>1, <2>2, <2>3, <2>4, Zenon DEF TablesInv
<1>4. CASE UNCHANGED vars
  BY <1>1, <1>4 DEF vars, tables, TablesInv, ControlInv, SqliteInv, PgsqlInv, InTransaction
<1> QED
  BY <1>2, <1>3, <1>4 DEF Next

\* In sqlite no record is ever without its domain, and no two domains have one
\* name: for any writers and requests, however they interleave and whatever
\* fails (gsql.cpp:35-47).
THEOREM TablesSound == Spec => []NoOrphans
<1>1. TablesInv => NoOrphans
  BY DEF TablesInv, SqliteInv, NoOrphans
<1> QED
  BY InitTables, NextTables, <1>1, PTL DEF Spec

-----------------------------------------------------------------------------
(* Records and the zones they are in.                                      *)

HasName(rr) == "name" \in DOMAIN rr
HomeRecord(rr, zone) == HasName(rr) /\ IsSubdomainOf(rr.name, zone)

\* The name whose records a request's statements hold: while the zone is
\* searched for, the name the search has reached.
HomeOf(w) == IF pc[w] \in {"find", "domain", "apex"} THEN tx[w].at ELSE tx[w].zone

\* A writer's statements, and the rows nobody else sees yet, are of its domain
\* and hold records of its zone.
TxHome(w) ==
  /\ {"at", "zone", "dom", "calls", "soa", "kind", "then"} \subseteq DOMAIN tx[w]
  /\ tx[w].at \in Seq(STRING)
  /\ tx[w].calls \in Seq(Seq(HomeOps(HomeOf(w))))
  /\ pc[w] \in {"domain", "apex"} => HomeRecord(tx[w].soa[1], tx[w].zone)
  /\ session[w].state = "none" => session[w].ins = {}
  /\ \A r \in session[w].ins : r.dom = tx[w].dom /\ HomeRecord(r.rr, tx[w].zone)
  /\ dialect = "pgsql" => tx[w].dom \in 0 .. lastDom

\* The ids given out are the ones that rows and domains have.
TablesHome ==
  /\ dialect \in {"sqlite", "pgsql"}
  /\ lastDom \in Nat /\ Ids(domains) \subseteq 1 .. lastDom
  /\ \A r \in rows : HasName(r.rr)
  /\ dialect = "pgsql" => \A r \in rows : r.dom \in 0 .. lastDom
  /\ RecordsStayHome

HomeInv == TablesHome /\ \A w \in Writers : TxHome(w)

\* The parent of a zone holds the zone's records too.
LEMMA HomeAbove ==
  ASSUME NEW zone \in Seq(STRING)
  PROVE  Parent(zone) \in Seq(STRING) /\ HomeOps(zone) \subseteq HomeOps(Parent(zone))
<1>1. Parent(zone) \in Seq(STRING)
  <2>1. Len(zone) \in Nat /\ \A i \in 2 .. Len(zone) : zone[i] \in STRING
    OBVIOUS
  <2>2. SubSeq(zone, 2, Len(zone)) \in Seq(STRING) /\ << >> \in Seq(STRING)
    BY <2>1, SubSeqProperties, EmptySeq
  <2> QED
    BY <2>2 DEF Parent, Root
<1>2. ASSUME NEW n \in Seq(STRING), IsSubdomainOf(n, zone) PROVE IsSubdomainOf(n, Parent(zone))
  <2>1. CASE Len(zone) > 1
    <3>1. /\ Len(Parent(zone)) = Len(zone) - 1
          /\ \A i \in 1 .. Len(zone) - 1 : Parent(zone)[i] = zone[i + 1]
      BY <2>1 DEF Parent
    <3>2. ASSUME NEW i \in 1 .. Len(zone) - 1
          PROVE  n[Len(n) - (Len(zone) - 1) + i] = Parent(zone)[i]
      <4>1. i + 1 \in 1 .. Len(zone) /\ Len(n) - Len(zone) + (i + 1) = Len(n) - (Len(zone) - 1) + i
        OBVIOUS
      <4> QED
        BY <1>2, <3>1, <4>1 DEF IsSubdomainOf
    <3> QED
      BY <1>2, <2>1, <3>1, <3>2 DEF IsSubdomainOf
  <2>2. CASE ~(Len(zone) > 1)
    <3>1. Parent(zone) = << >> /\ Len(<< >>) = 0
      BY <2>2 DEF Parent, Root
    <3> QED
      BY <3>1 DEF IsSubdomainOf
  <2> QED
    BY <2>1, <2>2
<1>3. ASSUME NEW o \in HomeOps(zone) PROVE o \in HomeOps(Parent(zone))
  <2>1. o \in [op : STRING, rr : RRs(Seq(STRING))] /\ IsSubdomainOf(o.rr.name, zone)
    BY DEF HomeOps
  <2>2. o.rr.name \in Seq(STRING)
    BY <2>1 DEF RRs
  <2> QED
    BY <1>2, <2>1, <2>2 DEF HomeOps
<1> QED
  BY <1>1, <1>3

\* An operation of a zone names a record of it.
LEMMA HomeOpRecord ==
  ASSUME NEW zone, NEW o \in HomeOps(zone)
  PROVE  HomeRecord(o.rr, zone)
<1>1. o.rr \in RRs(Seq(STRING)) /\ IsSubdomainOf(o.rr.name, zone)
  BY DEF HomeOps
<1>2. HasName(o.rr)
  BY <1>1 DEF RRs, HasName
<1> QED
  BY <1>1, <1>2 DEF HomeRecord

\* A new serial leaves every row in its domain and under its name.
LEMMA RenumberKeepsNames ==
  ASSUME NEW rws, NEW set, \A r \in rws : IsRow(r) /\ HasName(r.rr)
  PROVE  \A s \in Renumber(rws, set) :
           HasName(s.rr) /\ \E r \in rws : s.dom = r.dom /\ s.rr.name = r.rr.name
<1> TAKE s \in Renumber(rws, set)
<1>1. PICK r \in rws :
        s = IF \E p \in set : p[1] = r.id
            THEN [r EXCEPT !.rr.num = (CHOOSE p \in set : p[1] = r.id)[2]] ELSE r
  BY DEF Renumber
<1>2. r = [id |-> r.id, dom |-> r.dom, rr |-> r.rr] /\ "name" \in DOMAIN r.rr
  BY DEF IsRow, HasName
<1>3. CASE \E p \in set : p[1] = r.id
  <2> DEFINE num == (CHOOSE p \in set : p[1] = r.id)[2]
             rr == [r.rr EXCEPT !.num = num]
  <2>1. s = [r EXCEPT !.rr.num = num]
    BY <1>1, <1>3
  <2>2. rr.name = r.rr.name /\ "name" \in DOMAIN rr
    BY <1>2
  <2>3. s = [id |-> r.id, dom |-> r.dom, rr |-> rr]
    <3> HIDE DEF num
    <3> QED
      BY <1>2, <2>1
  <2> HIDE DEF rr
  <2> QED
    BY <2>2, <2>3 DEF HasName
<1>4. CASE ~\E p \in set : p[1] = r.id
  BY <1>1, <1>4
<1> QED
  BY <1>3, <1>4

\* Largest finds the largest id of the domains there are.
LEMMA LargestId ==
  ASSUME NEW n \in Nat, NEW ids \in SUBSET (1 .. n)
  PROVE  Largest(ids) \in Nat /\ \A i \in ids : i <= Largest(ids)
<1>1. CASE ids = {}
  BY <1>1 DEF Largest
<1>2. CASE ids # {}
  <2> DEFINE Bounds == {m \in Nat : \A i \in ids : i <= m}
  <2>1. n \in Bounds
    OBVIOUS
  <2>2. PICK m \in Bounds : \A k \in Bounds : ~(<<k, m>> \in OpToRel(<, Nat))
    <3>1. IsWellFoundedOn(OpToRel(<, Nat), Nat)
      BY NatLessThanWellFounded
    <3>2. Bounds \subseteq Nat /\ Bounds # {}
      BY <2>1
    <3> HIDE DEF Bounds
    <3> QED
      BY <3>1, <3>2, WFMin
  <2>3. m \in ids
    <3> SUFFICES ASSUME m \notin ids PROVE FALSE
      OBVIOUS
    <3>1. m \in Nat /\ \A i \in ids : i \in Nat /\ i >= 1 /\ i <= m /\ i # m
      OBVIOUS
    <3>2. m - 1 \in Nat /\ \A i \in ids : i <= m - 1
      <4> HIDE DEF Bounds
      <4>1. PICK i \in ids : i \in Nat /\ i >= 1 /\ i <= m
        BY <1>2, <3>1
      <4>2. m - 1 \in Nat
        BY <3>1, <4>1
      <4> QED
        BY <3>1, <4>2
    <3>3. m - 1 \in Bounds /\ <<m - 1, m>> \in OpToRel(<, Nat)
      BY <3>1, <3>2 DEF OpToRel
    <3> QED
      BY <2>2, <3>3
  <2>4. \A i \in ids : i <= m
    OBVIOUS
  <2> HIDE DEF Bounds
  <2>5. Largest(ids) \in ids /\ \A i \in ids : i <= Largest(ids)
    BY <1>2, <2>3, <2>4 DEF Largest
  <2>6. \A i \in ids : i \in Nat
    OBVIOUS
  <2> QED
    BY <2>5, <2>6
<1> QED
  BY <1>1, <1>2

-----------------------------------------------------------------------------
\* A row of the tables after a step is one that was there, under a new serial
\* perhaps, or a new one that no domain of another zone has, but for torn ones.
LEMMA TablesKept ==
  ASSUME TablesHome, UNCHANGED <<dialect, domains, lastDom>>, torn \subseteq torn',
         \A r \in rows' :
           /\ HasName(r.rr)
           /\ \/ \E s \in rows : r.dom = s.dom /\ r.rr.name = s.rr.name
              \/ /\ dialect = "pgsql" => r.dom \in 0 .. lastDom
                 /\ \A d \in domains : d.id = r.dom =>
                      d.name \in torn' \/ IsSubdomainOf(r.rr.name, d.name)
  PROVE  TablesHome'
<1>1. ASSUME NEW r \in rows', NEW d \in domains, r.dom = d.id, d.name \notin torn'
      PROVE  IsSubdomainOf(r.rr.name, d.name)
  <2>1. CASE \E s \in rows : r.dom = s.dom /\ r.rr.name = s.rr.name
    BY <1>1, <2>1 DEF TablesHome, RecordsStayHome
  <2> QED
    BY <1>1, <2>1
<1>2. RecordsStayHome'
  BY <1>1 DEF RecordsStayHome
<1>3. dialect' = "pgsql" => \A r \in rows' : r.dom \in 0 .. lastDom'
  BY DEF TablesHome
<1> QED
  BY <1>2, <1>3 DEF TablesHome

\* A writer that does not step keeps what is said of it: in pgsql no id is used
\* again.
LEMMA OthersHome ==
  ASSUME ControlInv, \A v \in Writers : TxHome(v), NEW w \in Writers, OthersStay(w),
         UNCHANGED dialect, lastDom \in Nat, lastDom' \in Nat,
         dialect = "pgsql" => lastDom <= lastDom', TxHome(w)'
  PROVE  \A v \in Writers : TxHome(v)'
<1> SUFFICES ASSUME NEW v \in Writers \ {w} PROVE TxHome(v)'
  OBVIOUS
<1>1. pc'[v] = pc[v] /\ tx'[v] = tx[v] /\ session'[v] = session[v]
  BY DEF OthersStay
<1>2. HomeOf(v)' = HomeOf(v)
  BY <1>1 DEF HomeOf
<1> QED
  BY <1>1, <1>2 DEF TxHome

\* A writer at rest has no statements and no rows of its own.
LEMMA ReplyHome ==
  ASSUME ControlInv, NEW w \in Writers, Reply(w), lastDom' \in Nat
  PROVE  TxHome(w)'
<1>1. tx'[w] = NoTx /\ session'[w] = NoSession /\ pc'[w] = "idle"
  BY DEF ControlInv, Reply, Goto
<1>2. << >> \in Seq(STRING) /\ << >> \in Seq(Seq(HomeOps(Root)))
  BY EmptySeq
<1>3. HomeOf(w)' = Root
  BY <1>1 DEF HomeOf, NoTx
<1> QED
  BY <1>1, <1>2, <1>3 DEF TxHome, NoTx, NoSession, Root

\* A writer that goes on with its statements, after the search for the zone.
LEMMA TxKept ==
  ASSUME NEW w \in Writers, TxHome(w), UNCHANGED <<dialect, lastDom>>,
         DOMAIN tx'[w] = DOMAIN tx[w], tx'[w].at = tx[w].at, tx'[w].zone = tx[w].zone,
         tx'[w].dom = tx[w].dom, tx'[w].calls \in Seq(Seq(HomeOps(tx[w].zone))),
         pc'[w] \notin {"find", "domain", "apex"},
         session'[w].state = "none" => session'[w].ins = {},
         \A r \in session'[w].ins : r.dom = tx[w].dom /\ HomeRecord(r.rr, tx[w].zone)
  PROVE  TxHome(w)'
BY DEF TxHome, HomeOf

\* A step keeps records in their zones, and what is said of its writer.
StepHome(w) ==
  /\ UNCHANGED dialect /\ lastDom' \in Nat /\ (dialect = "pgsql" => lastDom <= lastDom')
  /\ TablesHome' /\ TxHome(w)'

LEMMA SearchStepsHome ==
  ASSUME HomeRequests, TablesInv, HomeInv, NEW w \in Writers,
         Receive(w) \/ Find(w) \/ Own(w) \/ Begin(w) \/ ReadSoa(w)
  PROVE  StepHome(w)
<1>0. /\ ControlInv /\ TablesHome /\ TxHome(w) /\ lastDom \in Nat /\ OthersStay(w)
      /\ {"at", "zone", "dom", "calls", "soa", "kind", "then"} \subseteq DOMAIN tx[w]
  BY StepsKeepControl DEF TablesInv, HomeInv, TablesHome, TxHome, Run
<1>1. UNCHANGED <<dialect, tables, torn>>
  BY DEF Receive, Find, Own, Begin, ReadSoa
<1>2. UNCHANGED <<domains, rows, lastDom, lastRow>>
  BY <1>1 DEF tables
<1>3. TablesHome'
  BY <1>0, <1>1, <1>2, TablesKept DEF TablesHome
<1>4. SUFFICES TxHome(w)'
  BY <1>0, <1>1, <1>2, <1>3 DEF StepHome
<1>5. CASE Reply(w)
  BY <1>0, <1>2, <1>5, ReplyHome
<1>6. CASE Receive(w)
  <2>1. PICK req \in Requests :
          /\ pc[w] = "idle"
          /\ tx' = [tx EXCEPT ![w] = [NoTx EXCEPT !.kind = req.kind, !.zone = req.zone,
                                     !.at = req.zone, !.calls = req.calls, !.soa = req.soa]]
          /\ Goto(w, IF req.kind = "POST" THEN "domain" ELSE "find")
          /\ UNCHANGED session
    BY <1>6 DEF Receive
  <2> DEFINE t == [NoTx EXCEPT !.kind = req.kind, !.zone = req.zone,
                               !.at = req.zone, !.calls = req.calls, !.soa = req.soa]
  <2>2. /\ {"at", "zone", "dom", "calls", "soa", "kind", "then"} \subseteq DOMAIN t
        /\ t.kind = req.kind /\ t.zone = req.zone /\ t.at = req.zone
        /\ t.calls = req.calls /\ t.soa = req.soa /\ t.dom = 0
    BY DEF NoTx
  <2>3. tx'[w] = t
    BY <2>1 DEF ControlInv, TablesInv
  <2> HIDE DEF t
  <2>4. /\ req.zone \in Seq(STRING) /\ req.calls \in Seq(Seq(HomeOps(req.zone)))
        /\ req.kind = "POST" => HomeRecord(req.soa[1], req.zone)
    <3>1. req.kind = "POST" => HasName(req.soa[1]) /\ IsSubdomainOf(req.soa[1].name, req.zone)
      BY DEF HomeRequests, HasName, RRs
    <3> QED
      BY <3>1 DEF HomeRequests, HomeRecord
  <2>5. pc'[w] = IF req.kind = "POST" THEN "domain" ELSE "find"
    BY <1>0, <2>1 DEF Goto, ControlInv
  <2>6. session'[w] = session[w] /\ session[w].state = "none"
    BY <1>0, <2>1 DEF ControlInv, InTransaction
  <2>7. HomeOf(w)' = req.zone
    BY <2>2, <2>3, <2>5 DEF HomeOf
  <2>8. session'[w].ins = {}
    BY <1>0, <2>6 DEF TxHome
  <2> QED
    BY <1>0, <1>2, <2>2, <2>3, <2>4, <2>5, <2>7, <2>8 DEF TxHome
<1>7. CASE Find(w) /\ ~Reply(w)
  <2> PICK at : at = tx[w].at
    OBVIOUS
  <2>1. /\ pc[w] = "find" /\ UNCHANGED session
        /\ at \in Seq(STRING) /\ tx[w].calls \in Seq(Seq(HomeOps(at)))
    <3>1. pc[w] = "find" /\ UNCHANGED session
      BY <1>7 DEF Find
    <3>2. HomeOf(w) = at
      BY <3>1 DEF HomeOf
    <3> QED
      BY <1>0, <3>1, <3>2 DEF TxHome
  <2>2. session'[w] = session[w] /\ session[w].ins = {}
    BY <1>0, <2>1 DEF ControlInv, InTransaction, TxHome
  <2>3. ASSUME NEW d \in domains, NEW next, Goto(w, "own"),
               tx' = [tx EXCEPT ![w].zone = at, ![w].dom = d.id, ![w].then = next]
        PROVE  TxHome(w)'
    <3> DEFINE t == [tx[w] EXCEPT !.zone = at, !.dom = d.id, !.then = next]
    <3>1. DOMAIN t = DOMAIN tx[w] /\ t.at = at /\ t.zone = at /\ t.dom = d.id /\ t.calls = tx[w].calls
      BY <1>0
    <3>2. tx'[w] = t
      BY <1>0, <2>3 DEF ControlInv
    <3> HIDE DEF t
    <3>3. pc'[w] = "own"
      BY <1>0, <2>3 DEF Goto, ControlInv
    <3>4. d.id \in 0 .. lastDom
      BY <1>0 DEF TablesHome, Ids
    <3>5. HomeOf(w)' = at
      BY <3>1, <3>2, <3>3 DEF HomeOf
    <3> QED
      BY <1>0, <1>2, <2>1, <2>2, <3>1, <3>2, <3>3, <3>4, <3>5 DEF TxHome
  <2>4. CASE tx' = [tx EXCEPT ![w].at = Parent(@)] /\ UNCHANGED pc
    <3> DEFINE t == [tx[w] EXCEPT !.at = Parent(at)]
    <3>1. DOMAIN t = DOMAIN tx[w] /\ t.at = Parent(at) /\ t.dom = tx[w].dom /\ t.calls = tx[w].calls
      BY <1>0
    <3>2. tx'[w] = t
      BY <1>0, <2>4 DEF ControlInv
    <3> HIDE DEF t
    <3>3. Parent(at) \in Seq(STRING) /\ HomeOps(at) \subseteq HomeOps(Parent(at))
      BY <2>1, HomeAbove
    <3>4. tx[w].calls \in Seq(Seq(HomeOps(Parent(at))))
      <4>1. Seq(HomeOps(at)) \subseteq Seq(HomeOps(Parent(at)))
        BY <3>3, SeqMonotonic
      <4> QED
        BY <2>1, <4>1, SeqMonotonic
    <3>5. HomeOf(w)' = Parent(at)
      BY <2>1, <2>4, <3>1, <3>2 DEF HomeOf
    <3> QED
      BY <1>0, <1>1, <1>2, <2>1, <2>2, <2>4, <3>1, <3>2, <3>3, <3>4, <3>5 DEF TxHome
  <2>5. \/ \E d \in domains : \E next :
             /\ tx' = [tx EXCEPT ![w].zone = tx[w].at, ![w].dom = d.id, ![w].then = next]
             /\ Goto(w, "own")
        \/ tx' = [tx EXCEPT ![w].at = Parent(@)] /\ UNCHANGED <<pc, session>>
    BY <1>7, ZenonT(30) DEF Find
  <2> QED
    BY <2>3, <2>4, <2>5
<1>8. CASE ~Reply(w) /\ (Own(w) \/ Begin(w) \/ ReadSoa(w))
  <2>1. pc[w] \in {"own", "begin", "soa"} /\ pc'[w] \notin {"find", "domain", "apex"}
    BY <1>0, <1>8 DEF Own, Begin, ReadSoa, Goto, ControlInv
  <2>2. tx[w].calls \in Seq(Seq(HomeOps(tx[w].zone)))
    BY <1>0, <2>1 DEF TxHome, HomeOf
  <2>3. \/ tx'[w] = tx[w]
        \/ tx'[w] = [tx[w] EXCEPT !.hurt = TRUE]
        \/ \E serial : tx'[w] = [tx[w] EXCEPT !.serial = serial]
    BY <1>0, <1>8, ZenonT(40) DEF Own, Begin, ReadSoa, ControlInv
  <2>4. /\ DOMAIN tx'[w] = DOMAIN tx[w] /\ tx'[w].at = tx[w].at /\ tx'[w].zone = tx[w].zone
        /\ tx'[w].dom = tx[w].dom /\ tx'[w].calls = tx[w].calls
    BY <1>0, <2>3
  <2>5. session'[w] = session[w] \/ \E state : session'[w] = InState(state)
    BY <1>0, <1>8 DEF Own, Begin, ReadSoa, ControlInv
  <2>6. /\ session'[w].state = "none" => session'[w].ins = {}
        /\ \A r \in session'[w].ins : r.dom = tx[w].dom /\ HomeRecord(r.rr, tx[w].zone)
    <3>1. CASE session'[w] = session[w]
      BY <1>0, <3>1 DEF TxHome
    <3>2. ASSUME NEW state, session'[w] = InState(state) PROVE session'[w].ins = {}
      BY <3>2 DEF InState, NoSession
    <3> QED
      BY <2>5, <3>1, <3>2
  <2> QED
    BY <1>0, <1>1, <1>2, <2>1, <2>2, <2>4, <2>6, TxKept
<1> QED
  BY <1>5, <1>6, <1>7, <1>8

\* A statement of a transaction puts a record of its zone into its domain; on a
\* connection without a transaction, for all to see, and the zone is torn.
LEMMA StatementHome ==
  ASSUME TablesInv, HomeInv, NEW w \in Writers, Statement(w)
  PROVE  StepHome(w)
<1>0. /\ ControlInv /\ TablesHome /\ TxHome(w) /\ lastDom \in Nat
      /\ {"at", "zone", "dom", "calls", "soa", "kind", "then"} \subseteq DOMAIN tx[w]
  BY DEF TablesInv, HomeInv, TablesHome, TxHome
<1>1. /\ pc[w] = "statement" /\ pc'[w] \notin {"find", "domain", "apex"}
      /\ UNCHANGED <<dialect, domains, lastDom>>
  BY <1>0 DEF Statement, Goto, ControlInv
<1> DEFINE zone == tx[w].zone
           dom == tx[w].dom
           calls == tx[w].calls
           op == calls[1][1]
           new == [id |-> lastRow + 1, dom |-> dom, rr |-> op.rr]
<1>2. calls \in Seq(Seq(HomeOps(zone)))
  BY <1>0, <1>1 DEF TxHome, HomeOf
<1>3. session[w].state # "none" /\ \A r \in session[w].ins : r.dom = dom /\ HomeRecord(r.rr, zone)
  BY <1>0, <1>1 DEF ControlInv, InTransaction, TxHome
<1>4. \A r \in rows : HasName(r.rr)
  BY <1>0 DEF TablesHome
<1>5. ASSUME torn \subseteq torn',
             DOMAIN tx'[w] = DOMAIN tx[w], tx'[w].at = tx[w].at, tx'[w].zone = zone,
             tx'[w].dom = dom, tx'[w].calls \in Seq(Seq(HomeOps(zone))),
             session'[w].state # "none",
             session'[w].ins \subseteq session[w].ins \cup {new},
             new \in session'[w].ins => HomeRecord(new.rr, zone),
             \A r \in rows' : \/ r \in rows
                              \/ r = new /\ HasName(new.rr) /\ NamesOf(dom) \subseteq torn'
      PROVE  StepHome(w)
  <2>1. new.dom = dom /\ (dialect = "pgsql" => dom \in 0 .. lastDom)
    BY <1>0 DEF TxHome
  <2>2. \A r \in session'[w].ins : r.dom = dom /\ HomeRecord(r.rr, zone)
    <3> HIDE DEF new
    <3> QED
      BY <1>3, <1>5, <2>1
  <2>3. TxHome(w)'
    BY <1>0, <1>1, <1>5, <2>2, TxKept
  <2>4. TablesHome'
    <3>1. ASSUME NEW r \in rows'
          PROVE  /\ HasName(r.rr)
                 /\ \/ \E s \in rows : r.dom = s.dom /\ r.rr.name = s.rr.name
                    \/ /\ dialect = "pgsql" => r.dom \in 0 .. lastDom
                       /\ \A d \in domains : d.id = r.dom =>
                            d.name \in torn' \/ IsSubdomainOf(r.rr.name, d.name)
      <4>1. CASE r \in rows
        BY <1>4, <4>1
      <4>2. CASE r = new /\ HasName(new.rr) /\ NamesOf(dom) \subseteq torn'
        <5> HIDE DEF new, dom
        <5>1. \A d \in domains : d.id = dom => d.name \in torn'
          BY <4>2 DEF NamesOf
        <5> QED
          BY <2>1, <4>2, <5>1
      <4> QED
        BY <1>5, <4>1, <4>2
    <3> QED
      BY <1>0, <1>1, <1>5, <3>1, TablesKept
  <2> QED
    BY <1>0, <1>1, <2>3, <2>4 DEF StepHome
<1>6. CASE calls = << >>
  <2>1. tx'[w] = tx[w] \/ tx'[w] = [tx[w] EXCEPT !.then = "soa"]
    BY <1>0, <1>6 DEF Statement, ControlInv
  <2>2. UNCHANGED <<rows, session, torn>>
    BY <1>6 DEF Statement
  <2>3. /\ DOMAIN tx'[w] = DOMAIN tx[w] /\ tx'[w].at = tx[w].at /\ tx'[w].zone = zone
        /\ tx'[w].dom = dom /\ tx'[w].calls = calls
    BY <1>0, <2>1
  <2>4. new \in session[w].ins => HomeRecord(new.rr, zone)
    BY <1>3
  <2> HIDE DEF new, dom, zone, calls
  <2> QED
    BY <1>2, <1>3, <1>5, <2>2, <2>3, <2>4
<1>7. ASSUME calls # << >>, tx'[w].calls = Tail(calls) PROVE tx'[w].calls \in Seq(Seq(HomeOps(zone)))
  BY <1>2, <1>7, HeadTailProperties
<1>8. CASE calls # << >> /\ calls[1] = << >>
  <2>1. tx'[w] = [tx[w] EXCEPT !.calls = Tail(calls)]
    BY <1>0, <1>8 DEF Statement, ControlInv
  <2>2. UNCHANGED <<rows, session, torn>>
    BY <1>8 DEF Statement
  <2>3. /\ DOMAIN tx'[w] = DOMAIN tx[w] /\ tx'[w].at = tx[w].at /\ tx'[w].zone = zone
        /\ tx'[w].dom = dom /\ tx'[w].calls = Tail(calls)
    BY <1>0, <2>1
  <2>4. new \in session[w].ins => HomeRecord(new.rr, zone)
    BY <1>3
  <2> HIDE DEF new, dom, zone, calls
  <2> QED
    BY <1>3, <1>5, <1>7, <1>8, <2>2, <2>3, <2>4
<1>9. CASE calls # << >> /\ GiveUpCall(w)
  <2>1. tx'[w] = [tx[w] EXCEPT !.calls = Tail(calls), !.hurt = TRUE]
    BY <1>0, <1>9 DEF GiveUpCall, ControlInv
  <2>2. UNCHANGED <<rows, torn>>
    BY <1>9 DEF GiveUpCall
  <2>3. /\ DOMAIN tx'[w] = DOMAIN tx[w] /\ tx'[w].at = tx[w].at /\ tx'[w].zone = zone
        /\ tx'[w].dom = dom /\ tx'[w].calls = Tail(calls)
    BY <1>0, <2>1
  <2>4. new \in session[w].ins => HomeRecord(new.rr, zone)
    BY <1>3
  <2>5. session'[w].ins = session[w].ins /\ session'[w].state \in {session[w].state, "aborted"}
    BY <1>0, <1>9 DEF GiveUpCall, ControlInv
  <2> HIDE DEF new, dom, zone, calls
  <2> QED
    BY <1>3, <1>5, <1>7, <1>9, <2>2, <2>3, <2>4, <2>5
<1>10. CASE calls # << >> /\ calls[1] # << >> /\ Succeed(w, op)
  <2>1. /\ 1 \in 1 .. Len(calls) /\ calls[1] \in Seq(HomeOps(zone))
        /\ op \in HomeOps(zone) /\ Tail(calls[1]) \in Seq(HomeOps(zone))
    <3>1. 1 \in 1 .. Len(calls) /\ calls[1] \in Seq(HomeOps(zone))
      BY <1>2, <1>10, LenProperties, ElementOfSeq
    <3>2. 1 \in 1 .. Len(calls[1]) /\ calls[1][1] \in HomeOps(zone)
      BY <1>10, <3>1, LenProperties, ElementOfSeq
    <3>3. Tail(calls[1]) \in Seq(HomeOps(zone))
      BY <1>10, <3>1, HeadTailProperties
    <3> QED
      BY <3>1, <3>2, <3>3
  <2>2. HomeRecord(new.rr, zone)
    BY <2>1, HomeOpRecord
  <2>3. /\ DOMAIN tx'[w] = DOMAIN tx[w] /\ tx'[w].at = tx[w].at /\ tx'[w].zone = zone
        /\ tx'[w].dom = dom /\ tx'[w].calls = [calls EXCEPT ![1] = Tail(calls[1])]
    <3>1. tx' = [tx EXCEPT ![w].calls[1] = Tail(@), ![w].done = Append(@, op)]
      BY <1>10 DEF Succeed
    <3> QED
      BY <1>0, <3>1 DEF ControlInv
  <2>4. tx'[w].calls \in Seq(Seq(HomeOps(zone)))
    BY <1>2, <2>1, <2>3, ExceptSeq
  <2>5. /\ session'[w].state = session[w].state
        /\ session'[w].ins \subseteq session[w].ins \cup {new}
    BY <1>0, <1>10 DEF Succeed, ControlInv
  <2>6. torn \subseteq torn'
    BY <1>10 DEF Succeed
  <2>7. \A r \in rows' : \/ r \in rows
                         \/ r = new /\ NamesOf(dom) \subseteq torn'
    BY <1>10 DEF Succeed
  <2>8. HasName(new.rr)
    BY <2>2 DEF HomeRecord
  <2> HIDE DEF new, dom, zone, calls, op
  <2> QED
    BY <1>3, <1>5, <2>2, <2>3, <2>4, <2>5, <2>6, <2>7, <2>8
<1> QED
  BY <1>6, <1>8, <1>9, <1>10 DEF Statement

\* The new serials of SOA rows move none of them.
LEMMA SetSerialHome ==
  ASSUME TablesInv, HomeInv, NEW w \in Writers, SetSerial(w)
  PROVE  StepHome(w)
<1>0. /\ ControlInv /\ TablesHome /\ TxHome(w) /\ lastDom \in Nat
      /\ {"at", "zone", "dom", "calls", "soa", "kind", "then"} \subseteq DOMAIN tx[w]
  BY DEF TablesInv, HomeInv, TablesHome, TxHome
<1>1. /\ pc[w] = "serial" /\ pc'[w] = "commit" /\ torn \subseteq torn'
      /\ UNCHANGED <<dialect, domains, lastDom>>
  BY <1>0 DEF SetSerial, Goto, ControlInv
<1>2. SerialEffect(w)
  BY <1>0, SetSerialEffect
<1>3. /\ session[w].state # "none" /\ session'[w].state # "none"
      /\ \A r \in session[w].ins :
           IsRow(r) /\ HasName(r.rr) /\ r.dom = tx[w].dom /\ HomeRecord(r.rr, tx[w].zone)
      /\ \A r \in rows : IsRow(r) /\ HasName(r.rr)
  BY <1>0, <1>1, <1>2 DEF ControlInv, InTransaction, TxHome, TablesHome, HomeRecord, SerialEffect
<1>4. \A r \in rows' : HasName(r.rr) /\ \E s \in rows : r.dom = s.dom /\ r.rr.name = s.rr.name
  BY <1>2, <1>3, RenumberKeepsNames DEF SerialEffect
<1>5. TablesHome'
  BY <1>0, <1>1, <1>4, TablesKept
<1>6. \A r \in session'[w].ins :
        HasName(r.rr) /\ \E s \in session[w].ins : r.dom = s.dom /\ r.rr.name = s.rr.name
  BY <1>2, <1>3, RenumberKeepsNames DEF SerialEffect
<1>7. \A r \in session'[w].ins : r.dom = tx[w].dom /\ HomeRecord(r.rr, tx[w].zone)
  BY <1>3, <1>6 DEF HomeRecord
<1>8. tx'[w] = tx[w] \/ tx'[w] = [tx[w] EXCEPT !.hurt = TRUE]
  BY <1>0 DEF SetSerial, ControlInv
<1>9. /\ DOMAIN tx'[w] = DOMAIN tx[w] /\ tx'[w].at = tx[w].at /\ tx'[w].zone = tx[w].zone
      /\ tx'[w].dom = tx[w].dom /\ tx'[w].calls = tx[w].calls
  BY <1>0, <1>8
<1>10. tx[w].calls \in Seq(Seq(HomeOps(tx[w].zone)))
  BY <1>0, <1>1 DEF TxHome, HomeOf
<1>11. TxHome(w)'
  BY <1>0, <1>1, <1>3, <1>7, <1>9, <1>10, TxKept
<1> QED
  BY <1>0, <1>1, <1>5, <1>11 DEF StepHome

\* What a commit makes seen is of the zone, or the zone that has its domain now
\* is torn.
LEMMA CommitHome ==
  ASSUME TablesInv, HomeInv, NEW w \in Writers, Committed(w) \/ CommitFails(w)
  PROVE  StepHome(w)
<1>0. ControlInv /\ TablesHome /\ TxHome(w) /\ lastDom \in Nat
  BY DEF TablesInv, HomeInv, TablesHome
<1>1. /\ pc[w] = "commit" /\ Reply(w) /\ UNCHANGED <<dialect, domains, lastDom>>
      /\ torn \subseteq torn'
  BY DEF Committed, CommitFails, tables
<1>2. TxHome(w)'
  BY <1>0, <1>1, ReplyHome
<1>3. \A r \in rows : IsRow(r) /\ HasName(r.rr)
  BY <1>0 DEF ControlInv, TablesHome
<1>4. CASE UNCHANGED rows
  BY <1>0, <1>1, <1>2, <1>3, <1>4, TablesKept DEF StepHome
<1>5. CASE Committed(w) /\ rows' = Merged(w) /\ NamesOf(tx[w].dom) \subseteq torn' \cup {tx[w].zone}
  <2> DEFINE zone == tx[w].zone
             dom == tx[w].dom
             kept == {r \in rows : r.id \notin session[w].del}
  <2>1. \A r \in kept : IsRow(r) /\ HasName(r.rr)
    BY <1>3
  <2>2. \A d \in domains : d.id = dom => d.name \in torn' \/ d.name = zone
    BY <1>5 DEF NamesOf
  <2>3. /\ \A r \in session[w].ins : r.dom = dom /\ HasName(r.rr) /\ IsSubdomainOf(r.rr.name, zone)
        /\ dialect = "pgsql" => dom \in 0 .. lastDom
    BY <1>0 DEF TxHome, HomeRecord
  <2>4. rows' = Renumber(kept, session[w].set) \cup session[w].ins /\ kept \subseteq rows
    BY <1>5 DEF Merged
  <2> HIDE DEF kept, dom, zone
  <2>5. \A r \in Renumber(kept, session[w].set) :
          HasName(r.rr) /\ \E s \in kept : r.dom = s.dom /\ r.rr.name = s.rr.name
    BY <2>1, RenumberKeepsNames
  <2>6. ASSUME NEW r \in rows'
        PROVE  /\ HasName(r.rr)
               /\ \/ \E s \in rows : r.dom = s.dom /\ r.rr.name = s.rr.name
                  \/ /\ dialect = "pgsql" => r.dom \in 0 .. lastDom
                     /\ \A d \in domains : d.id = r.dom =>
                          d.name \in torn' \/ IsSubdomainOf(r.rr.name, d.name)
    <3>1. CASE r \in Renumber(kept, session[w].set)
      BY <2>4, <2>5, <3>1
    <3>2. CASE r \in session[w].ins
      BY <2>2, <2>3, <3>2
    <3> QED
      BY <2>4, <3>1, <3>2
  <2>7. TablesHome'
    BY <1>0, <1>1, <2>6, TablesKept
  <2> QED
    BY <1>0, <1>1, <1>2, <2>7 DEF StepHome
<1> QED
  BY <1>4, <1>5 DEF Committed, CommitFails, tables

\* An INSERT of a domain takes an id no row has; that of its SOA puts a record
\* of the zone into it; deletions take away.
LEMMA ZoneStepsHome ==
  ASSUME TablesInv, HomeInv, NEW w \in Writers,
         InsertDomain(w) \/ InsertSoa(w) \/ DeleteRows(w) \/ DeleteDomain(w)
  PROVE  StepHome(w)
<1>0. /\ ControlInv /\ TablesHome /\ TxHome(w) /\ lastDom \in Nat /\ UNCHANGED dialect
      /\ {"at", "zone", "dom", "calls", "soa", "kind", "then"} \subseteq DOMAIN tx[w]
      /\ \A r \in rows : HasName(r.rr)
  BY DEF TablesInv, HomeInv, TablesHome, TxHome,
         InsertDomain, InsertSoa, DeleteRows, DeleteDomain
<1>1. session[w].state = "none" /\ session[w].ins = {}
  BY <1>0 DEF ControlInv, InTransaction, TxHome, InsertDomain, InsertSoa, DeleteRows, DeleteDomain
<1>2. CASE InsertDomain(w) /\ ~Reply(w)
  <2> DEFINE id == IF dialect = "sqlite" THEN Largest(Ids(domains)) + 1 ELSE lastDom + 1
             zone == tx[w].zone
             t == [tx[w] EXCEPT !.dom = id]
  <2>1. /\ domains' = domains \cup {[id |-> id, name |-> zone]} /\ lastDom' = id
        /\ tx' = [tx EXCEPT ![w].dom = id] /\ Goto(w, "apex") /\ UNCHANGED <<rows, session, torn>>
        /\ pc[w] = "domain"
    BY <1>2 DEF InsertDomain
  <2>2. /\ Largest(Ids(domains)) \in Nat /\ \A i \in Ids(domains) : i <= Largest(Ids(domains))
        /\ Ids(domains) \subseteq 1 .. lastDom
    BY <1>0, LargestId DEF TablesHome
  <2>3. /\ id \in Nat \ {0} /\ \A i \in Ids(domains) : i \in Nat \ {0} /\ i < id
        /\ dialect = "pgsql" => lastDom < id
    BY <1>0, <2>2 DEF TablesHome
  <2>4. \A r \in rows : r.dom # id
    <3>1. dialect = "sqlite" => \A r \in rows : r.dom \in Ids(domains)
      BY DEF TablesInv, SqliteInv
    <3>2. dialect = "pgsql" => \A r \in rows : r.dom \in 0 .. lastDom
      BY <1>0 DEF TablesHome
    <3>3. dialect \in {"sqlite", "pgsql"}
      BY <1>0 DEF TablesHome
    <3> HIDE DEF id
    <3> QED
      BY <1>0, <2>3, <3>1, <3>2, <3>3
  <2>5. tx'[w] = t
    BY <1>0, <2>1 DEF ControlInv
  <2>6. /\ DOMAIN t = DOMAIN tx[w] /\ t.at = tx[w].at /\ t.zone = zone /\ t.dom = id
        /\ t.calls = tx[w].calls /\ t.soa = tx[w].soa
    BY <1>0
  <2>7. pc'[w] = "apex" /\ session'[w] = session[w]
    BY <1>0, <2>1 DEF Goto, ControlInv
  <2> HIDE DEF id, t
  <2>8. HomeOf(w)' = tx[w].at /\ HomeOf(w) = tx[w].at
    BY <2>1, <2>5, <2>6, <2>7 DEF HomeOf
  <2>9. TxHome(w)'
    BY <1>0, <1>1, <2>1, <2>3, <2>5, <2>6, <2>7, <2>8 DEF TxHome
  <2>10. Ids(domains)' \subseteq 1 .. id
    <3> SUFFICES ASSUME NEW d \in domains' PROVE d.id \in 1 .. id
      BY DEF Ids
    <3>1. d \in domains => d.id \in Ids(domains)
      BY DEF Ids
    <3>2. d \in domains \/ d.id = id
      BY <2>1
    <3> QED
      BY <2>3, <3>1, <3>2
  <2>11. RecordsStayHome'
    <3> SUFFICES ASSUME NEW r \in rows, NEW d \in domains', r.dom = d.id, d.name \notin torn
                 PROVE  IsSubdomainOf(r.rr.name, d.name)
      BY <2>1 DEF RecordsStayHome
    <3>1. d \in domains
      BY <2>1, <2>4
    <3> QED
      BY <1>0, <3>1 DEF TablesHome, RecordsStayHome
  <2>12. dialect = "pgsql" => \A r \in rows' : r.dom \in 0 .. lastDom'
    BY <1>0, <2>1, <2>3 DEF TablesHome
  <2>13. TablesHome'
    BY <1>0, <2>1, <2>3, <2>10, <2>11, <2>12 DEF TablesHome
  <2> QED
    BY <1>0, <2>1, <2>3, <2>9, <2>13 DEF StepHome
<1>3. CASE InsertDomain(w) /\ Reply(w) /\ UNCHANGED <<domains, lastDom>>
  <2>1. UNCHANGED <<rows, torn>>
    BY <1>3 DEF InsertDomain
  <2> QED
    BY <1>0, <1>3, <2>1, ReplyHome, TablesKept DEF StepHome
<1>4. CASE InsertSoa(w)
  <2> DEFINE new == [id |-> lastRow + 1, dom |-> tx[w].dom, rr |-> tx[w].soa[1]]
             zone == tx[w].zone
             dom == tx[w].dom
  <2>1. pc[w] = "apex" /\ UNCHANGED <<domains, lastDom>>
    BY <1>4 DEF InsertSoa
  <2>2. HomeRecord(new.rr, zone)
    BY <1>0, <2>1 DEF TxHome
  <2>3. TxHome(w)'
    <3>1. CASE Reply(w)
      BY <1>0, <2>1, <3>1, ReplyHome
    <3>2. CASE Goto(w, "find") /\ UNCHANGED <<tx, session>>
      <4>1. pc'[w] = "find"
        BY <1>0, <3>2 DEF Goto, ControlInv
      <4>2. HomeOf(w)' = HomeOf(w)
        BY <2>1, <3>2, <4>1 DEF HomeOf
      <4> QED
        BY <1>0, <2>1, <3>2, <4>1, <4>2 DEF TxHome
    <3> QED
      BY <1>4, <3>1, <3>2 DEF InsertSoa
  <2>4. torn \subseteq torn' /\ \A r \in rows' : \/ r \in rows
                                                 \/ r = new /\ NamesOf(dom) \subseteq torn' \cup {zone}
    BY <1>4 DEF InsertSoa, NewDomain
  <2>5. new.dom = dom /\ (dialect = "pgsql" => dom \in 0 .. lastDom)
    BY <1>0 DEF TxHome
  <2> HIDE DEF new, zone, dom
  <2>6. NamesOf(dom) \subseteq torn' \cup {zone} =>
          \A d \in domains : d.id = dom => d.name \in torn' \/ d.name = zone
    BY DEF NamesOf
  <2>7. ASSUME NEW r \in rows'
        PROVE  /\ HasName(r.rr)
               /\ \/ \E s \in rows : r.dom = s.dom /\ r.rr.name = s.rr.name
                  \/ /\ dialect = "pgsql" => r.dom \in 0 .. lastDom
                     /\ \A d \in domains : d.id = r.dom =>
                          d.name \in torn' \/ IsSubdomainOf(r.rr.name, d.name)
    <3>1. CASE r \in rows
      BY <1>0, <3>1
    <3>2. CASE r = new /\ NamesOf(dom) \subseteq torn' \cup {zone}
      BY <2>2, <2>5, <2>6, <3>2 DEF HomeRecord
    <3> QED
      BY <2>4, <3>1, <3>2
  <2>8. TablesHome'
    BY <1>0, <2>1, <2>4, <2>7, TablesKept
  <2> QED
    BY <1>0, <2>1, <2>3, <2>8 DEF StepHome
<1>5. CASE DeleteRows(w)
  <2>1. /\ pc[w] = "empty" /\ pc'[w] = "drop" /\ UNCHANGED <<domains, lastDom, session, tx>>
        /\ torn \subseteq torn' /\ rows' \subseteq rows
    BY <1>0, <1>5 DEF DeleteRows, Goto, ControlInv
  <2>2. tx[w].calls \in Seq(Seq(HomeOps(tx[w].zone)))
    BY <1>0, <2>1 DEF TxHome, HomeOf
  <2>3. TxHome(w)'
    BY <1>0, <1>1, <2>1, <2>2, TxKept
  <2>4. TablesHome'
    BY <1>0, <2>1, TablesKept
  <2> QED
    BY <1>0, <2>1, <2>3, <2>4 DEF StepHome
<1>6. CASE DeleteDomain(w)
  <2>1. /\ Reply(w) /\ UNCHANGED lastDom
        /\ domains' \subseteq domains /\ torn \subseteq torn' /\ rows' \subseteq rows
    BY <1>6 DEF DeleteDomain
  <2>2. Ids(domains)' \subseteq 1 .. lastDom
    BY <1>0, <2>1 DEF TablesHome, Ids
  <2>3. RecordsStayHome'
    BY <1>0, <2>1 DEF TablesHome, RecordsStayHome
  <2>4. TablesHome'
    BY <1>0, <2>1, <2>2, <2>3 DEF TablesHome
  <2> QED
    BY <1>0, <2>1, <2>4, ReplyHome DEF StepHome
<1>7. ASSUME InsertDomain(w), Reply(w) PROVE UNCHANGED <<domains, lastDom>>
  <2>1. pc'[w] = "idle"
    BY <1>0, <1>7 DEF Reply, Goto, ControlInv
  <2>2. ~Goto(w, "apex")
    BY <1>0, <2>1 DEF Goto, ControlInv
  <2> QED
    BY <1>7, <2>2 DEF InsertDomain
<1> QED
  BY <1>2, <1>3, <1>4, <1>5, <1>6, <1>7

-----------------------------------------------------------------------------
LEMMA InitHome ==
  ASSUME HomeRequests, Init
  PROVE  HomeInv
<1>1. PICK id \in {f \in [DOMAIN InitZones -> 1 .. Cardinality(DOMAIN InitZones)] :
                     \A y, z \in DOMAIN InitZones : f[y] = f[z] => y = z} :
        /\ domains = {[id |-> id[z], name |-> z] : z \in DOMAIN InitZones}
        /\ \E pos \in {SetToSeq(InitRecords)} :
             rows = {[id |-> i, dom |-> id[pos[i][1]], rr |-> pos[i][2]] : i \in DOMAIN pos}
  BY DEF Init
<1> DEFINE pos == SetToSeq(InitRecords)
<1>2. rows = {[id |-> i, dom |-> id[pos[i][1]], rr |-> pos[i][2]] : i \in DOMAIN pos}
  BY <1>1
<1>3. pos \in [1 .. Cardinality(InitRecords) -> InitRecords]
  BY InitPositions
<1> HIDE DEF pos
<1>4. \A i \in DOMAIN pos :
        /\ pos[i][1] \in DOMAIN InitZones
        /\ HasName(pos[i][2]) /\ IsSubdomainOf(pos[i][2].name, pos[i][1])
  <2> TAKE i \in DOMAIN pos
  <2>1. PICK z \in DOMAIN InitZones : \E rr \in InitZones[z] : pos[i] = <<z, rr>>
    BY <1>3 DEF InitRecords
  <2>2. PICK rr \in InitZones[z] : pos[i] = <<z, rr>>
    BY <2>1
  <2>3. rr \in RRs(Seq(STRING)) /\ IsSubdomainOf(rr.name, z)
    BY <2>1 DEF HomeRequests
  <2>4. HasName(rr)
    BY <2>3 DEF HasName, RRs
  <2> QED
    BY <2>1, <2>2, <2>3, <2>4
<1>5. \A z \in DOMAIN InitZones : id[z] \in 1 .. lastDom
  BY <1>1 DEF Init
<1>6. lastDom \in Nat
  BY GsqlAssumption, FS_CardinalityType DEF Init
<1>7. \A r \in rows :
        /\ HasName(r.rr) /\ r.dom \in 1 .. lastDom
        /\ \E z \in DOMAIN InitZones : r.dom = id[z] /\ IsSubdomainOf(r.rr.name, z)
  BY <1>2, <1>4, <1>5
<1>8. RecordsStayHome
  <2> SUFFICES ASSUME NEW r \in rows, NEW d \in domains, r.dom = d.id
               PROVE  IsSubdomainOf(r.rr.name, d.name)
    BY DEF RecordsStayHome
  <2>1. PICK z \in DOMAIN InitZones : r.dom = id[z] /\ IsSubdomainOf(r.rr.name, z)
    BY <1>7
  <2>2. PICK y \in DOMAIN InitZones : d = [id |-> id[y], name |-> y]
    BY <1>1
  <2>3. d.id = id[y] /\ d.name = y
    BY <2>2
  <2> QED
    BY <1>1, <2>1, <2>3
<1>9. TablesHome
  <2>1. Ids(domains) \subseteq 1 .. lastDom
    BY <1>1, <1>5 DEF Ids
  <2>2. dialect \in {"sqlite", "pgsql"}
    BY GsqlAssumption DEF Init
  <2>3. \A r \in rows : r.dom \in 0 .. lastDom
    BY <1>6, <1>7
  <2> QED
    BY <1>6, <1>7, <1>8, <2>1, <2>2, <2>3 DEF TablesHome
<1>10. ASSUME NEW w \in Writers PROVE TxHome(w)
  <2>1. pc[w] = "idle" /\ tx[w] = NoTx /\ session[w] = NoSession
    BY DEF Init
  <2>2. << >> \in Seq(STRING) /\ << >> \in Seq(Seq(HomeOps(Root)))
    BY EmptySeq
  <2>3. HomeOf(w) = Root
    BY <2>1 DEF HomeOf, NoTx
  <2> QED
    BY <1>6, <2>1, <2>2, <2>3 DEF TxHome, NoTx, NoSession, Root
<1> QED
  BY <1>9, <1>10 DEF HomeInv

LEMMA NextHome ==
  ASSUME HomeRequests, TablesInv, HomeInv, [Next]_vars
  PROVE  HomeInv'
<1>0. ControlInv /\ TablesHome /\ lastDom \in Nat /\ \A v \in Writers : TxHome(v)
  BY DEF TablesInv, HomeInv, TablesHome
<1>1. CASE Restart
  <2>1. /\ UNCHANGED <<dialect, domains, rows, lastDom, torn>>
        /\ pc' = [w \in Writers |-> "idle"] /\ tx' = [w \in Writers |-> NoTx]
        /\ session' = [w \in Writers |-> NoSession]
    BY <1>1 DEF Restart, tables
  <2>2. TablesHome'
    BY <1>0, <2>1, TablesKept DEF TablesHome
  <2>3. ASSUME NEW w \in Writers PROVE TxHome(w)'
    <3>1. pc'[w] = "idle" /\ tx'[w] = NoTx /\ session'[w] = NoSession /\ lastDom' \in Nat
      BY <1>0, <2>1
    <3>2. << >> \in Seq(STRING) /\ << >> \in Seq(Seq(HomeOps(Root)))
      BY EmptySeq
    <3>3. HomeOf(w)' = Root
      BY <3>1 DEF HomeOf, NoTx
    <3> QED
      BY <3>1, <3>2, <3>3 DEF TxHome, NoTx, NoSession, Root
  <2> QED
    BY <2>2, <2>3 DEF HomeInv
<1>2. ASSUME NEW w \in Writers, Receive(w) \/ Run(w) PROVE HomeInv'
  <2>1. StepHome(w)
    BY <1>2, SearchStepsHome, StatementHome, SetSerialHome, CommitHome, ZoneStepsHome DEF Run
  <2>2. OthersStay(w)
    BY <1>0, <1>2, StepsKeepControl
  <2>3. \A v \in Writers : TxHome(v)'
    BY <1>0, <2>1, <2>2, OthersHome DEF StepHome
  <2> QED
    BY <2>1, <2>3 DEF HomeInv, StepHome
<1>3. CASE UNCHANGED vars
  <2>1. UNCHANGED <<dialect, domains, rows, lastDom, torn, pc, tx, session>>
    BY <1>3 DEF vars, tables
  <2>2. TablesHome'
    BY <1>0, <2>1, TablesKept DEF TablesHome
  <2>3. \A w \in Writers : TxHome(w)'
    BY <1>0, <2>1 DEF TxHome, HomeOf
  <2> QED
    BY <2>2, <2>3 DEF HomeInv
<1> QED
  BY <1>1, <1>2, <1>3 DEF Next

\* Requests that name records of their own zone put none into another zone, but
\* for torn ones: for any writers and zones, however they interleave, whatever
\* fails and wherever the daemon dies (gsql.cpp:204-281, 479-500).
THEOREM RecordsStayInTheirZones ==
  ASSUME HomeRequests
  PROVE  Spec => []RecordsStayHome
<1>1. Init => TablesInv /\ HomeInv
  BY InitTables, InitHome
<1>2. TablesInv /\ HomeInv /\ [Next]_vars => (TablesInv /\ HomeInv)'
  BY NextTables, NextHome
<1>3. TablesInv /\ HomeInv => RecordsStayHome
  BY DEF HomeInv, TablesHome
<1> QED
  BY <1>1, <1>2, <1>3, PTL DEF Spec

-----------------------------------------------------------------------------
(* What is confirmed is written.                                           *)

\* A row with the fields that its statements look at.
IsFullRow(r) == IsRow(r) /\ {"name", "type"} \subseteq DOMAIN r.rr

\* No two rows, seen by all or not, have one id.
RowIds ==
  /\ lastRow \in Nat
  /\ \A r \in rows : IsFullRow(r) /\ r.id \in 1 .. lastRow
  /\ \A r, s \in rows : r.id = s.id => r = s
  /\ \A w \in Writers : \A r \in session[w].ins :
       /\ IsFullRow(r) /\ r.id \in 1 .. lastRow
       /\ \A s \in rows : r.id # s.id
  /\ \A v, w \in Writers : \A r \in session[v].ins, s \in session[w].ins :
       r.id = s.id => v = w /\ r = s

\* What a step of writer w makes of its rows: they are the same rows as before,
\* or fewer, and perhaps one with the next id.
OwnRows(w) ==
  /\ lastRow' \in {lastRow, lastRow + 1}
  /\ \A r \in rows' \cup session'[w].ins :
       /\ IsFullRow(r)
       /\ \/ r.id = lastRow + 1 /\ lastRow' = lastRow + 1
          \/ \E s \in rows \cup session[w].ins : s.id = r.id
  /\ \A r, s \in rows' : r.id = s.id => r = s
  /\ \A r, s \in session'[w].ins : r.id = s.id => r = s
  /\ \A r \in session'[w].ins, s \in rows' : r.id # s.id

\* Such a step gives no id twice.
LEMMA RowIdsKept ==
  ASSUME RowIds, NEW w \in Writers, OthersStay(w), OwnRows(w)
  PROVE  RowIds'
<1>1. lastRow \in Nat /\ lastRow' \in Nat /\ lastRow <= lastRow'
  BY DEF RowIds, OwnRows
<1>2. \A r \in rows \cup session[w].ins : r.id \in 1 .. lastRow
  BY DEF RowIds
<1>3. \A r \in rows' \cup session'[w].ins : IsFullRow(r) /\ r.id \in 1 .. lastRow'
  BY <1>1, <1>2 DEF OwnRows
<1>4. ASSUME NEW v \in Writers \ {w}, NEW r \in session[v].ins, NEW s \in rows' \cup session'[w].ins
      PROVE  r.id # s.id
  <2>1. r.id \in 1 .. lastRow
    BY <1>4 DEF RowIds
  <2>2. \A x \in rows \cup session[w].ins : x.id # r.id
    BY <1>4 DEF RowIds
  <2>3. s.id = lastRow + 1 \/ \E x \in rows \cup session[w].ins : x.id = s.id
    BY DEF OwnRows
  <2> QED
    BY <1>1, <2>1, <2>2, <2>3
<1>5. \A v \in Writers \ {w} : session'[v] = session[v]
  BY DEF OthersStay
<1>6. ASSUME NEW v \in Writers, NEW r \in session'[v].ins
      PROVE  IsFullRow(r) /\ r.id \in 1 .. lastRow' /\ \A s \in rows' : r.id # s.id
  <2>1. CASE v = w
    BY <1>3, <1>6, <2>1 DEF OwnRows
  <2>2. CASE v # w
    <3>1. r \in session[v].ins
      BY <1>5, <1>6, <2>2
    <3>2. IsFullRow(r) /\ r.id \in 1 .. lastRow
      BY <3>1 DEF RowIds
    <3> QED
      BY <1>1, <1>4, <2>2, <3>1, <3>2
  <2> QED
    BY <2>1, <2>2
<1>7. ASSUME NEW u \in Writers, NEW v \in Writers, NEW r \in session'[u].ins, NEW s \in session'[v].ins,
             r.id = s.id
      PROVE  u = v /\ r = s
  <2>1. CASE u = w /\ v = w
    BY <1>7, <2>1 DEF OwnRows
  <2>2. CASE u # w /\ v # w
    BY <1>5, <1>7, <2>2 DEF RowIds
  <2>3. CASE u # w /\ v = w
    BY <1>4, <1>5, <1>7, <2>3
  <2>4. CASE u = w /\ v # w
    BY <1>4, <1>5, <1>7, <2>4
  <2> QED
    BY <2>1, <2>2, <2>3, <2>4
<1>8. \A r, s \in rows' : r.id = s.id => r = s
  BY DEF OwnRows
<1> QED
  BY <1>1, <1>3, <1>6, <1>7, <1>8 DEF RowIds

\* One row with its new serial.
Renumbered(r, set) ==
  IF \E s \in set : s[1] = r.id THEN [r EXCEPT !.rr.num = (CHOOSE s \in set : s[1] = r.id)[2]] ELSE r

\* A new serial leaves a row its id, its domain, its name and its type.
LEMMA RenumberedRow ==
  ASSUME NEW r, IsFullRow(r), NEW set
  PROVE  LET s == Renumbered(r, set)
         IN  /\ IsFullRow(s) /\ s.id = r.id /\ s.dom = r.dom
             /\ s.rr.name = r.rr.name /\ s.rr.type = r.rr.type
             /\ s = r \/ \E p \in set : p[1] = r.id
<1>1. r = [id |-> r.id, dom |-> r.dom, rr |-> r.rr] /\ {"name", "type"} \subseteq DOMAIN r.rr
  BY DEF IsFullRow, IsRow
<1>2. CASE \E p \in set : p[1] = r.id
  <2> DEFINE num == (CHOOSE p \in set : p[1] = r.id)[2]
             rr == [r.rr EXCEPT !.num = num]
  <2>1. Renumbered(r, set) = [r EXCEPT !.rr.num = num]
    BY <1>2 DEF Renumbered
  <2> HIDE DEF num
  <2>2. Renumbered(r, set) = [id |-> r.id, dom |-> r.dom, rr |-> rr]
    BY <1>1, <2>1
  <2>3. DOMAIN rr = DOMAIN r.rr /\ rr.name = r.rr.name /\ rr.type = r.rr.type
    BY <1>1
  <2> HIDE DEF rr
  <2> QED
    BY <1>1, <1>2, <2>2, <2>3 DEF IsFullRow, IsRow
<1>3. CASE ~\E p \in set : p[1] = r.id
  BY <1>3 DEF Renumbered
<1> QED
  BY <1>2, <1>3

\* Renumber does that to each row, and to SOA rows only where the set says so.
LEMMA RenumberRows ==
  ASSUME NEW rws, NEW set, \A r \in rws : IsFullRow(r)
  PROVE  /\ \A s \in Renumber(rws, set) : \E r \in rws : s = Renumbered(r, set)
         /\ \A s \in Renumber(rws, set) : IsFullRow(s)
         /\ (\A r, s \in rws : r.id = s.id => r = s) =>
              \A r, s \in Renumber(rws, set) : r.id = s.id => r = s
         /\ (\A p \in set, r \in rws : p[1] = r.id => r.rr.type = "SOA") =>
              /\ \A s \in Renumber(rws, set) : s.rr.type # "SOA" => s \in rws
              /\ \A r \in rws : r.rr.type # "SOA" => r \in Renumber(rws, set)
<1>1. Renumber(rws, set) = {Renumbered(r, set) : r \in rws}
  BY DEF Renumber, Renumbered
<1>2. \A r \in rws : LET s == Renumbered(r, set)
                     IN  /\ IsFullRow(s) /\ s.id = r.id /\ s.rr.type = r.rr.type
                         /\ s = r \/ \E p \in set : p[1] = r.id
  BY RenumberedRow
<1> QED
  BY <1>1, <1>2

-----------------------------------------------------------------------------
\* The record that operation i of done adds is among mine, or is deleted later.
Added(done, i, mine, dom) ==
  \/ done[i].op # "add" \/ done[i].rr.type = "SOA"
  \/ \E r \in mine : r.dom = dom /\ r.rr = done[i].rr
  \/ \E j \in i + 1 .. Len(done) : done[j].op # "add" /\ Deletes(done[j], done[i].rr)

\* Of what operation i of done deletes nothing is seen that is not added later.
Deleted(done, i, sees, dom) ==
  done[i].op # "add" =>
    \A r \in sees : r.dom = dom /\ r.rr.type # "SOA" /\ Deletes(done[i], r.rr) =>
      \E j \in i + 1 .. Len(done) : done[j] = AddRecord(r.rr)

\* An operation is one of the transaction after those before it.
LEMMA AppendedOp ==
  ASSUME NEW done \in Seq(GsqlOps), NEW op \in GsqlOps
  PROVE  LET n == Len(done)
         IN  /\ n \in Nat /\ Append(done, op) \in Seq(GsqlOps) /\ Len(Append(done, op)) = n + 1
             /\ DOMAIN Append(done, op) = 1 .. n + 1 /\ DOMAIN done = 1 .. n
             /\ \A i \in 1 .. n : Append(done, op)[i] = done[i]
             /\ Append(done, op)[n + 1] = op
BY AppendProperties, LenProperties

\* One more addition.
LEMMA AdditionWritten ==
  ASSUME NEW done \in Seq(GsqlOps), NEW op \in GsqlOps, op.op = "add",
         NEW new, NEW dom, new.dom = dom, new.rr = op.rr, NEW mine, NEW sees
  PROVE  LET all == Append(done, op)
         IN  /\ (\A i \in DOMAIN done : Added(done, i, mine, dom)) =>
                  \A i \in DOMAIN all : Added(all, i, mine \cup {new}, dom)
             /\ (\A i \in DOMAIN done : Deleted(done, i, sees, dom)) =>
                  \A i \in DOMAIN all : Deleted(all, i, sees \cup {new}, dom)
<1> DEFINE all == Append(done, op)
           n == Len(done)
<1>1. /\ n \in Nat /\ Len(all) = n + 1 /\ DOMAIN all = 1 .. n + 1 /\ DOMAIN done = 1 .. n
      /\ \A i \in 1 .. n : all[i] = done[i]
      /\ all[n + 1] = op
  BY AppendedOp
<1>2. op = AddRecord(new.rr)
  BY DEF AddRecord, GsqlOps
<1> HIDE DEF all, n
<1>3. ASSUME \A i \in DOMAIN done : Added(done, i, mine, dom), NEW i \in DOMAIN all
      PROVE  Added(all, i, mine \cup {new}, dom)
  <2>1. CASE i = n + 1
    BY <1>1, <2>1 DEF Added
  <2>2. CASE i \in 1 .. n
    <3>1. Added(done, i, mine, dom)
      BY <1>1, <1>3, <2>2
    <3>2. \A j \in i + 1 .. n : j \in i + 1 .. n + 1 /\ all[j] = done[j]
      BY <1>1, <2>2
    <3> QED
      BY <1>1, <2>2, <3>1, <3>2 DEF Added, n
  <2> QED
    BY <1>1, <2>1, <2>2
<1>4. ASSUME \A i \in DOMAIN done : Deleted(done, i, sees, dom), NEW i \in DOMAIN all
      PROVE  Deleted(all, i, sees \cup {new}, dom)
  <2>1. CASE i = n + 1
    BY <1>1, <2>1 DEF Deleted
  <2>2. CASE i \in 1 .. n
    <3>1. Deleted(done, i, sees, dom)
      BY <1>1, <1>4, <2>2
    <3>2. \A j \in i + 1 .. n : j \in i + 1 .. n + 1 /\ all[j] = done[j]
      BY <1>1, <2>2
    <3>3. n + 1 \in i + 1 .. n + 1
      BY <1>1, <2>2
    <3> QED
      BY <1>1, <1>2, <2>2, <3>1, <3>2, <3>3 DEF Deleted, n
  <2> QED
    BY <1>1, <2>1, <2>2
<1> QED
  BY <1>3, <1>4 DEF all

\* One more deletion.
LEMMA DeletionWritten ==
  ASSUME NEW done \in Seq(GsqlOps), NEW op \in GsqlOps, op.op # "add",
         NEW dom, NEW mine, NEW sees, NEW mine2, NEW sees2,
         \A r \in mine : r \in mine2 \/ (r.dom = dom /\ Deletes(op, r.rr)),
         \A r \in sees2 : r \in sees /\ ~(r.dom = dom /\ Deletes(op, r.rr))
  PROVE  LET all == Append(done, op)
         IN  /\ (\A i \in DOMAIN done : Added(done, i, mine, dom)) =>
                  \A i \in DOMAIN all : Added(all, i, mine2, dom)
             /\ (\A i \in DOMAIN done : Deleted(done, i, sees, dom)) =>
                  \A i \in DOMAIN all : Deleted(all, i, sees2, dom)
<1> DEFINE all == Append(done, op)
           n == Len(done)
<1>1. /\ n \in Nat /\ Len(all) = n + 1 /\ DOMAIN all = 1 .. n + 1 /\ DOMAIN done = 1 .. n
      /\ \A i \in 1 .. n : all[i] = done[i]
      /\ all[n + 1] = op
  BY AppendedOp
<1> HIDE DEF all, n
<1>3. ASSUME \A i \in DOMAIN done : Added(done, i, mine, dom), NEW i \in DOMAIN all
      PROVE  Added(all, i, mine2, dom)
  <2>1. CASE i = n + 1
    BY <1>1, <2>1 DEF Added
  <2>2. CASE i \in 1 .. n
    <3>1. Added(done, i, mine, dom)
      BY <1>1, <1>3, <2>2
    <3>2. \A j \in i + 1 .. n : j \in i + 1 .. n + 1 /\ all[j] = done[j]
      BY <1>1, <2>2
    <3>3. n + 1 \in i + 1 .. n + 1 /\ all[i] = done[i]
      BY <1>1, <2>2
    <3>4. ASSUME NEW r \in mine, r.dom = dom, r.rr = done[i].rr PROVE Added(all, i, mine2, dom)
      <4>1. CASE r \in mine2
        BY <3>3, <3>4, <4>1 DEF Added
      <4>2. CASE Deletes(op, r.rr)
        BY <1>1, <3>3, <3>4, <4>2 DEF Added
      <4> QED
        BY <3>4, <4>1, <4>2
    <3> QED
      BY <1>1, <2>2, <3>1, <3>2, <3>3, <3>4 DEF Added, n
  <2> QED
    BY <1>1, <2>1, <2>2
<1>4. ASSUME \A i \in DOMAIN done : Deleted(done, i, sees, dom), NEW i \in DOMAIN all
      PROVE  Deleted(all, i, sees2, dom)
  <2>1. CASE i = n + 1
    BY <1>1, <2>1 DEF Deleted
  <2>2. CASE i \in 1 .. n
    <3>1. Deleted(done, i, sees, dom)
      BY <1>1, <1>4, <2>2
    <3>2. \A j \in i + 1 .. n : j \in i + 1 .. n + 1 /\ all[j] = done[j]
      BY <1>1, <2>2
    <3> QED
      BY <1>1, <2>2, <3>1, <3>2 DEF Deleted, n
  <2> QED
    BY <1>1, <2>1, <2>2
<1> QED
  BY <1>3, <1>4 DEF all

\* The fields of a request.
TxFields == {"kind", "zone", "at", "dom", "calls", "soa", "done", "serial", "hurt", "then"}

\* What the session of a transaction holds, none of whose statements failed.
SessionWritten(w) ==
  /\ session[w].state = "open"
  /\ pc[w] # "commit" => session[w].set = {}
  /\ \A i \in DOMAIN tx[w].done : Added(tx[w].done, i, session[w].ins, tx[w].dom)
  /\ \A i \in DOMAIN tx[w].done : Deleted(tx[w].done, i, Sees(w), tx[w].dom)
  /\ \A p \in session[w].set, r \in Sees(w) : p[1] = r.id => r.rr.type = "SOA"

\* A writer has what its statements did, while none of them failed, and nothing at rest.
TxWritten(w) ==
  /\ TxFields \subseteq DOMAIN tx[w] /\ tx[w].hurt \in BOOLEAN
  /\ tx[w].calls \in Seq(Seq(GsqlOps)) /\ tx[w].done \in Seq(GsqlOps)
  /\ pc[w] \in {"domain", "apex"} => tx[w].soa[1] \in GsqlRecords
  /\ ~InTransaction(w) => tx[w].done = << >> /\ tx[w].hurt = FALSE
  /\ InTransaction(w) /\ tx[w].hurt = FALSE => SessionWritten(w)

\* The rows, the transactions, and what a step of w makes of them.
WrittenInv == RowIds /\ \A w \in Writers : TxWritten(w)
StepWritten(w) == OwnRows(w) /\ TxWritten(w)'

\* The rows are those that were there, or fewer.
LEMMA FewerRows ==
  ASSUME RowIds, NEW w \in Writers, rows' \subseteq rows, UNCHANGED lastRow,
         session'[w].ins \subseteq session[w].ins
  PROVE  OwnRows(w)
<1>1. \A r \in rows' \cup session'[w].ins : IsFullRow(r) /\ r \in rows \cup session[w].ins
  BY DEF RowIds
<1>2. \A r, s \in rows' : r.id = s.id => r = s
  BY DEF RowIds
<1>3. \A r, s \in session'[w].ins : r.id = s.id => r = s
  BY DEF RowIds
<1>4. \A r \in session'[w].ins, s \in rows' : r.id # s.id
  BY DEF RowIds
<1> QED
  BY <1>1, <1>2, <1>3, <1>4 DEF OwnRows

\* One more row, seen by all or not.
LEMMA OneMoreRow ==
  ASSUME RowIds, NEW w \in Writers, NEW new, IsFullRow(new), new.id = lastRow + 1, lastRow' = lastRow + 1,
         \/ rows' = rows \cup {new} /\ session'[w].ins \subseteq session[w].ins
         \/ rows' = rows /\ session'[w].ins = session[w].ins \cup {new}
  PROVE  OwnRows(w)
<1>1. \A r \in rows \cup session[w].ins : IsFullRow(r) /\ r.id \in 1 .. lastRow /\ r.id # new.id
  BY DEF RowIds
<1>2. /\ \A r, s \in rows : r.id = s.id => r = s
      /\ \A r, s \in session[w].ins : r.id = s.id => r = s
      /\ \A r \in session[w].ins, s \in rows : r.id # s.id
  BY DEF RowIds
<1>3. CASE rows' = rows \cup {new} /\ session'[w].ins \subseteq session[w].ins
  BY <1>1, <1>2, <1>3 DEF OwnRows
<1>4. CASE rows' = rows /\ session'[w].ins = session[w].ins \cup {new}
  BY <1>1, <1>2, <1>4 DEF OwnRows
<1> QED
  BY <1>3, <1>4

\* Records and what names them have the fields of a row's record.
LEMMA RecordFields ==
  /\ \A rr \in GsqlRecords : {"name", "type"} \subseteq DOMAIN rr
  /\ \A op \in GsqlOps : op.rr \in GsqlRecords
<1>1. \A rr \in GsqlRecords : {"name", "type"} \subseteq DOMAIN rr
  BY DEF GsqlRecords, RRs
<1> HIDE DEF GsqlRecords
<1> QED
  BY <1>1 DEF GsqlOps

\* A writer at rest.
LEMMA RestWritten ==
  ASSUME ControlInv, NEW w \in Writers, Reply(w)
  PROVE  TxWritten(w)' /\ session'[w].ins = {}
<1>1. tx'[w] = NoTx /\ session'[w] = NoSession /\ pc'[w] = "idle"
  BY DEF ControlInv, Reply, Goto
<1>2. << >> \in Seq(Seq(GsqlOps)) /\ << >> \in Seq(GsqlOps)
  BY EmptySeq
<1>3. ~InTransaction(w)'
  BY <1>1 DEF InTransaction
<1>4. TxFields \subseteq DOMAIN tx'[w]
  BY <1>1 DEF TxFields, NoTx
<1>5. /\ tx'[w].hurt = FALSE /\ tx'[w].calls = << >> /\ tx'[w].done = << >> /\ session'[w].ins = {}
  BY <1>1 DEF NoTx, NoSession
<1> HIDE DEF GsqlOps
<1> QED
  BY <1>1, <1>2, <1>3, <1>4, <1>5 DEF TxWritten

\* A step that leaves the session and the statements that are done.
LEMMA GoesOnWritten ==
  ASSUME NEW w \in Writers, TxWritten(w), UNCHANGED <<dialect, rows>>, session'[w] = session[w],
         TxFields \subseteq DOMAIN tx'[w], tx'[w].done = tx[w].done, tx'[w].hurt = tx[w].hurt,
         tx'[w].calls \in Seq(Seq(GsqlOps)),
         pc'[w] \in {"domain", "apex"} => tx'[w].soa[1] \in GsqlRecords,
         InTransaction(w) => tx'[w].dom = tx[w].dom /\ pc[w] # "commit",
         InTransaction(w)' <=> InTransaction(w)
  PROVE  TxWritten(w)'
<1>1. InTransaction(w) => Sees(w)' = Sees(w)
  BY DEF Sees
<1>2. InTransaction(w) /\ tx[w].hurt = FALSE => SessionWritten(w)'
  BY <1>1 DEF TxWritten, SessionWritten
<1> QED
  BY <1>2 DEF TxWritten

\* A writer that is in no transaction sees nothing of its own.
LEMMA OutsideWritten ==
  ASSUME NEW w \in Writers, TxWritten(w), ~InTransaction(w), ~InTransaction(w)',
         tx'[w].done = << >>, tx'[w].hurt = FALSE,
         TxFields \subseteq DOMAIN tx'[w], tx'[w].calls \in Seq(Seq(GsqlOps)),
         pc'[w] \in {"domain", "apex"} => tx'[w].soa[1] \in GsqlRecords
  PROVE  TxWritten(w)'
<1>1. << >> \in Seq(GsqlOps)
  BY EmptySeq
<1> HIDE DEF GsqlOps
<1> QED
  BY <1>1 DEF TxWritten

\* The steps that find the zone and begin.
LEMMA SearchStepsWritten ==
  ASSUME TablesInv, WrittenInv, NEW w \in Writers,
         Receive(w) \/ Find(w) \/ Own(w) \/ Begin(w) \/ ReadSoa(w)
  PROVE  StepWritten(w)
<1>0. /\ ControlInv /\ RowIds /\ TxWritten(w)
      /\ TxFields \subseteq DOMAIN tx[w] /\ DOMAIN tx = Writers /\ DOMAIN pc = Writers /\ DOMAIN session = Writers
      /\ tx[w].then \in {"idle", "begin", "empty", "soa"}
  BY DEF TablesInv, WrittenInv, ControlInv, TxWritten
<1>1. UNCHANGED <<dialect, tables>>
  BY DEF Receive, Find, Own, Begin, ReadSoa
<1>2. UNCHANGED <<dialect, domains, rows, lastDom, lastRow>>
  BY <1>1 DEF tables
<1>3. ASSUME session'[w].ins \subseteq session[w].ins, TxWritten(w)' PROVE StepWritten(w)
  BY <1>0, <1>2, <1>3, FewerRows DEF StepWritten
<1>4. CASE Reply(w)
  BY <1>0, <1>3, <1>4, RestWritten
<1>5. CASE Receive(w)
  <2>1. PICK req \in Requests :
          /\ pc[w] = "idle"
          /\ tx' = [tx EXCEPT ![w] = [NoTx EXCEPT !.kind = req.kind, !.zone = req.zone,
                                     !.at = req.zone, !.calls = req.calls, !.soa = req.soa]]
          /\ pc' = [pc EXCEPT ![w] = IF req.kind = "POST" THEN "domain" ELSE "find"]
          /\ UNCHANGED session
    BY <1>5 DEF Receive, Goto
  <2>2. /\ req.calls \in Seq(Seq(GsqlOps))
        /\ req.kind = "POST" => req.soa[1] \in GsqlRecords
    BY RecordsAssumption
  <2>3. /\ tx'[w].done = << >> /\ tx'[w].hurt = FALSE /\ tx'[w].calls = req.calls
        /\ tx'[w].soa = req.soa /\ TxFields \subseteq DOMAIN tx'[w] /\ tx'[w].then = "idle"
    BY <1>0, <2>1 DEF NoTx, TxFields
  <2>4. pc'[w] = IF req.kind = "POST" THEN "domain" ELSE "find"
    BY <1>0, <2>1
  <2>5. ~InTransaction(w) /\ ~InTransaction(w)'
    BY <2>1, <2>4 DEF InTransaction
  <2>6. TxWritten(w)'
    BY <1>0, <2>2, <2>3, <2>4, <2>5, OutsideWritten
  <2> QED
    BY <1>3, <2>1, <2>6
<1>6. CASE Find(w) /\ ~Reply(w)
  <2>1. pc[w] = "find" /\ ~InTransaction(w) /\ session' = session
    BY <1>6, ZenonT(40) DEF Find, InTransaction
  <2>2. \/ /\ pc'[w] = "own"
           /\ \E zone, dom, next : next \in {"begin", "empty"}
                /\ tx'[w] = [tx[w] EXCEPT !.zone = zone, !.dom = dom, !.then = next]
        \/ pc'[w] = "find" /\ \E n : tx'[w] = [tx[w] EXCEPT !.at = n]
    <3> DEFINE t == tx[w]
               hits == {d \in domains : d.name = t.at}
               next == IF t.kind = "DELETE" THEN "empty" ELSE "begin"
    <3>1. CASE \E d \in hits : tx' = [tx EXCEPT ![w].zone = t.at, ![w].dom = d.id, ![w].then = next]
                              /\ Goto(w, "own")
      <4>1. PICK d \in hits : tx' = [tx EXCEPT ![w].zone = t.at, ![w].dom = d.id, ![w].then = next]
                              /\ Goto(w, "own")
        BY <3>1
      <4>2. next \in {"begin", "empty"}
        OBVIOUS
      <4> HIDE DEF next, hits
      <4>3. tx'[w] = [tx[w] EXCEPT !.zone = t.at, !.dom = d.id, !.then = next] /\ pc'[w] = "own"
        BY <1>0, <4>1 DEF Goto
      <4> QED
        BY <4>2, <4>3
    <3>2. CASE tx' = [tx EXCEPT ![w].at = Parent(@)] /\ UNCHANGED pc
      BY <1>0, <2>1, <3>2
    <3> QED
      BY <1>6, <3>1, <3>2 DEF Find
  <2>3. /\ TxFields \subseteq DOMAIN tx'[w] /\ tx'[w].done = tx[w].done /\ tx'[w].hurt = tx[w].hurt
        /\ tx'[w].calls = tx[w].calls /\ pc'[w] \in {"own", "find"}
        /\ pc'[w] = "own" => tx'[w].then \in {"begin", "empty"}
    BY <1>0, <2>2 DEF TxFields
  <2>4. ~InTransaction(w)'
    BY <2>3 DEF InTransaction
  <2>5. TxWritten(w)'
    BY <1>0, <2>1, <2>3, <2>4, OutsideWritten DEF TxWritten
  <2> QED
    BY <1>3, <2>1, <2>5
<1>7. CASE Own(w) /\ ~Reply(w)
  <2>1. /\ pc[w] = "own" /\ session' = session /\ tx' = tx
        /\ pc'[w] = tx[w].then \/ (tx[w].then = "soa" /\ pc'[w] = "commit")
    BY <1>0, <1>7 DEF Own, Goto
  <2>2. InTransaction(w)' <=> InTransaction(w)
    BY <1>0, <2>1 DEF InTransaction
  <2>3. TxWritten(w)'
    BY <1>0, <1>2, <2>1, <2>2, GoesOnWritten DEF TxWritten
  <2> QED
    BY <1>3, <2>1, <2>3
<1>8. CASE ReadSoa(w)
  <2>1. /\ pc[w] = "soa" /\ session' = session /\ pc'[w] \in {"serial", "commit"}
        /\ tx'[w] = tx[w] \/ \E s : tx'[w] = [tx[w] EXCEPT !.serial = s]
    BY <1>0, <1>8, ZenonT(40) DEF ReadSoa, Goto
  <2>2. /\ TxFields \subseteq DOMAIN tx'[w] /\ tx'[w].done = tx[w].done /\ tx'[w].hurt = tx[w].hurt
        /\ tx'[w].calls = tx[w].calls /\ tx'[w].dom = tx[w].dom
    BY <1>0, <2>1 DEF TxFields
  <2>3. InTransaction(w)' /\ InTransaction(w)
    BY <2>1 DEF InTransaction
  <2>4. TxWritten(w)'
    BY <1>0, <1>2, <2>1, <2>2, <2>3, GoesOnWritten DEF TxWritten
  <2> QED
    BY <1>3, <2>1, <2>4
<1>9. CASE Begin(w) /\ ~Reply(w)
  <2>1. /\ pc[w] = "begin" /\ pc'[w] = "statement"
        /\ \/ session'[w] = InState("open") /\ tx'[w] = tx[w]
           \/ /\ \E st : session'[w] = InState(st)
              /\ tx'[w] = [tx[w] EXCEPT !.hurt = TRUE]
    BY <1>0, <1>9, ZenonT(40) DEF Begin, Goto
  <2>2. ~InTransaction(w)
    BY <2>1 DEF InTransaction
  <2>3. tx[w].done = << >> /\ tx[w].hurt = FALSE
    BY <1>0, <2>2 DEF TxWritten
  <2>4. session'[w].ins = {} /\ session'[w].set = {}
    BY <2>1 DEF InState, NoSession
  <2>5. CASE session'[w] = InState("open") /\ tx'[w] = tx[w]
    <3>1. session'[w].state = "open" /\ DOMAIN tx'[w].done = {}
      BY <2>3, <2>5 DEF InState, NoSession
    <3>2. SessionWritten(w)'
      BY <2>1, <2>4, <3>1 DEF SessionWritten
    <3>3. TxWritten(w)'
      BY <1>0, <2>1, <2>5, <3>2 DEF TxWritten, InTransaction
    <3> QED
      BY <1>3, <2>4, <3>3
  <2>6. CASE tx'[w] = [tx[w] EXCEPT !.hurt = TRUE]
    <3>1. /\ TxFields \subseteq DOMAIN tx'[w] /\ tx'[w].done = tx[w].done /\ tx'[w].hurt = TRUE
          /\ tx'[w].calls = tx[w].calls
      BY <1>0, <2>6 DEF TxFields
    <3>2. TxWritten(w)'
      BY <1>0, <2>1, <3>1 DEF TxWritten, InTransaction
    <3> QED
      BY <1>3, <2>4, <3>2
  <2> QED
    BY <2>1, <2>5, <2>6
<1> QED
  BY <1>4, <1>5, <1>6, <1>7, <1>8, <1>9

\* A statement that succeeds in an open transaction.
LEMMA SucceedWritten ==
  ASSUME TablesInv, WrittenInv, NEW w \in Writers, pc[w] = "statement", pc' = pc,
         tx[w].calls # << >>, tx[w].calls[1] # << >>,
         ~Fails(w, tx[w].calls[1][1]), Succeed(w, tx[w].calls[1][1]), UNCHANGED <<dialect, domains>>
  PROVE  StepWritten(w)
<1> DEFINE calls == tx[w].calls
           op == calls[1][1]
           dom == tx[w].dom
           done == tx[w].done
           new == [id |-> lastRow + 1, dom |-> dom, rr |-> op.rr]
           gone == Gone(w, op)
           s == session[w]
<1>0. /\ ControlInv /\ RowIds /\ TxWritten(w)
      /\ TxFields \subseteq DOMAIN tx[w] /\ DOMAIN tx = Writers /\ DOMAIN session = Writers
      /\ s = [state |-> s.state, ins |-> s.ins, del |-> s.del, set |-> s.set]
  BY DEF TablesInv, WrittenInv, ControlInv, TxWritten
<1>1. /\ op \in GsqlOps /\ calls \in Seq(Seq(GsqlOps)) /\ done \in Seq(GsqlOps)
      /\ Tail(calls[1]) \in Seq(GsqlOps)
  <2>1. calls \in Seq(Seq(GsqlOps)) /\ done \in Seq(GsqlOps)
    BY <1>0 DEF TxWritten
  <2> HIDE DEF GsqlOps, calls, done
  <2>2. 1 \in 1 .. Len(calls) /\ calls[1] \in Seq(GsqlOps)
    BY <2>1, LenProperties, ElementOfSeq DEF calls
  <2>3. 1 \in 1 .. Len(calls[1]) /\ calls[1][1] \in GsqlOps
    BY <2>2, LenProperties, ElementOfSeq DEF calls
  <2>4. Tail(calls[1]) \in Seq(GsqlOps)
    BY <2>2, HeadTailProperties DEF calls
  <2> QED
    BY <2>1, <2>2, <2>3, <2>4
<1>2. IsFullRow(new) /\ new.id = lastRow + 1 /\ new.dom = dom /\ new.rr = op.rr
  <2>1. {"name", "type"} \subseteq DOMAIN op.rr
    BY <1>1, RecordFields
  <2> HIDE DEF op, dom
  <2> QED
    BY <2>1 DEF IsFullRow, IsRow
<1>3. /\ tx'[w].calls \in Seq(Seq(GsqlOps)) /\ tx'[w].done = Append(done, op) /\ tx'[w].dom = dom
      /\ tx'[w].hurt = tx[w].hurt /\ TxFields \subseteq DOMAIN tx'[w]
  <2>1. tx' = [tx EXCEPT ![w].calls[1] = Tail(@), ![w].done = Append(@, op)]
    BY DEF Succeed
  <2>2. /\ tx'[w].calls = [calls EXCEPT ![1] = Tail(calls[1])] /\ tx'[w].done = Append(done, op)
        /\ tx'[w].dom = dom /\ tx'[w].hurt = tx[w].hurt /\ DOMAIN tx'[w] = DOMAIN tx[w]
    BY <1>0, <2>1 DEF TxFields
  <2>3. [calls EXCEPT ![1] = Tail(calls[1])] \in Seq(Seq(GsqlOps))
    <3> HIDE DEF GsqlOps, calls
    <3>1. 1 \in 1 .. Len(calls)
      BY <1>1, LenProperties DEF calls
    <3> QED
      BY <1>1, <3>1, ExceptSeq
  <2> QED
    BY <1>0, <2>2, <2>3
<1>4. /\ Append(done, op) \in Seq(GsqlOps)
  BY <1>1, AppendedOp
<1>5. InTransaction(w) /\ InTransaction(w)'
  BY DEF InTransaction
<1>6. SUFFICES ASSUME OwnRows(w), tx[w].hurt = FALSE => SessionWritten(w)' PROVE StepWritten(w)
  <2>1. OwnRows(w)
    <3>1. CASE op.op = "add"
      <4>1. /\ lastRow' = lastRow + 1
            /\ \/ rows' = rows \cup {new} /\ session'[w].ins \subseteq session[w].ins
               \/ rows' = rows /\ session'[w].ins = session[w].ins \cup {new}
        BY <1>0, <3>1 DEF Succeed
      <4> HIDE DEF new
      <4> QED
        BY <1>0, <1>2, <4>1, OneMoreRow
    <3>2. CASE op.op # "add"
      <4>1. lastRow' = lastRow /\ rows' \subseteq rows /\ session'[w].ins \subseteq session[w].ins
        BY <1>0, <3>2 DEF Succeed
      <4> QED
        BY <1>0, <4>1, FewerRows
    <3> QED
      BY <3>1, <3>2
  <2>2. tx[w].hurt = FALSE => SessionWritten(w)'
    <3> SUFFICES ASSUME tx[w].hurt = FALSE PROVE SessionWritten(w)'
      OBVIOUS
    <3>1. /\ s.state = "open" /\ s.set = {}
          /\ \A i \in DOMAIN done : Added(done, i, s.ins, dom)
          /\ \A i \in DOMAIN done : Deleted(done, i, Sees(w), dom)
      BY <1>0, <1>5 DEF TxWritten, SessionWritten
    <3>2. rows' = rows /\ session'[w].state = "open" /\ session'[w].set = {}
      BY <1>0, <3>1 DEF Succeed
    <3>3. CASE op.op = "add"
      <4>1. session'[w].ins = s.ins \cup {new} /\ session'[w].del = s.del
        BY <1>0, <3>1, <3>3 DEF Succeed
      <4>2. Sees(w)' = Sees(w) \cup {new}
        BY <3>2, <4>1 DEF Sees
      <4> HIDE DEF new, op, done, dom, s
      <4>3. /\ \A i \in DOMAIN Append(done, op) : Added(Append(done, op), i, s.ins \cup {new}, dom)
            /\ \A i \in DOMAIN Append(done, op) : Deleted(Append(done, op), i, Sees(w) \cup {new}, dom)
        BY <1>1, <1>2, <3>1, <3>3, AdditionWritten
      <4> QED
        BY <1>3, <3>2, <4>1, <4>2, <4>3 DEF SessionWritten
    <3>4. CASE op.op # "add"
      <4>1. session'[w].ins = s.ins \ gone /\ session'[w].del = s.del \cup {r.id : r \in gone}
        BY <1>0, <3>1, <3>4 DEF Succeed
      <4>2. gone = {r \in Sees(w) : r.dom = dom /\ Deletes(op, r.rr)} /\ s.ins \subseteq Sees(w)
        BY DEF Gone, Sees
      <4> DEFINE sees2 == Sees(w)'
      <4>3. sees2 = {r \in rows : r.id \notin s.del \cup {x.id : x \in gone}} \cup (s.ins \ gone)
        BY <3>2, <4>1 DEF Sees
      <4>4. Sees(w) = {r \in rows : r.id \notin s.del} \cup s.ins
        BY DEF Sees
      <4> HIDE DEF sees2, new, op, done, dom, s, gone
      <4>5. \A r \in sees2 : r \in Sees(w) /\ ~(r.dom = dom /\ Deletes(op, r.rr))
        BY <4>2, <4>3, <4>4
      <4>6. \A r \in s.ins : r \in s.ins \ gone \/ (r.dom = dom /\ Deletes(op, r.rr))
        BY <4>2
      <4>7. /\ \A i \in DOMAIN Append(done, op) : Added(Append(done, op), i, s.ins \ gone, dom)
            /\ \A i \in DOMAIN Append(done, op) : Deleted(Append(done, op), i, sees2, dom)
        BY <1>1, <3>1, <3>4, <4>5, <4>6, DeletionWritten
      <4> QED
        BY <1>3, <3>2, <4>1, <4>7 DEF SessionWritten, sees2
    <3> QED
      BY <3>3, <3>4
  <2> QED
    BY <1>6, <2>1, <2>2
<1>7. TxWritten(w)'
  BY <1>0, <1>3, <1>4, <1>5, <1>6 DEF TxWritten
<1> QED
  BY <1>6, <1>7 DEF StepWritten

\* The steps through the statements.
LEMMA StatementWritten ==
  ASSUME TablesInv, WrittenInv, NEW w \in Writers, Statement(w)
  PROVE  StepWritten(w)
<1> DEFINE calls == tx[w].calls
           op == calls[1][1]
<1>0. /\ ControlInv /\ RowIds /\ TxWritten(w) /\ DOMAIN pc = Writers
      /\ TxFields \subseteq DOMAIN tx[w] /\ DOMAIN tx = Writers /\ DOMAIN session = Writers
      /\ session[w] = [state |-> session[w].state, ins |-> session[w].ins,
                       del |-> session[w].del, set |-> session[w].set]
  BY DEF TablesInv, WrittenInv, ControlInv, TxWritten
<1>1. pc[w] = "statement" /\ UNCHANGED <<dialect, domains>> /\ InTransaction(w)
  BY DEF Statement, InTransaction
<1>2. calls \in Seq(Seq(GsqlOps))
  BY <1>0 DEF TxWritten
<1>3. calls # << >> => Tail(calls) \in Seq(Seq(GsqlOps))
  BY <1>2, HeadTailProperties
<1>4. ASSUME UNCHANGED <<rows, lastRow, session>>,
             TxFields \subseteq DOMAIN tx'[w], tx'[w].done = tx[w].done, tx'[w].hurt = tx[w].hurt,
             tx'[w].calls \in Seq(Seq(GsqlOps)), tx'[w].dom = tx[w].dom, InTransaction(w)',
             pc'[w] \notin {"domain", "apex"}
      PROVE  StepWritten(w)
  <2>1. TxWritten(w)'
    BY <1>0, <1>1, <1>4, GoesOnWritten
  <2> QED
    BY <1>0, <1>4, <2>1, FewerRows DEF StepWritten
<1>5. CASE calls = << >>
  <2>1. UNCHANGED <<rows, lastRow, session>>
    BY <1>5 DEF Statement
  <2>2. \/ pc'[w] = "commit" /\ tx'[w] = tx[w]
        \/ pc'[w] = "own" /\ tx'[w] = [tx[w] EXCEPT !.then = "soa"]
    BY <1>0, <1>5 DEF Statement, Goto
  <2>3. /\ TxFields \subseteq DOMAIN tx'[w] /\ tx'[w].done = tx[w].done /\ tx'[w].hurt = tx[w].hurt
        /\ tx'[w].calls = calls /\ tx'[w].dom = tx[w].dom
        /\ pc'[w] = "own" => tx'[w].then = "soa"
    BY <1>0, <2>2 DEF TxFields
  <2>4. InTransaction(w)' /\ pc'[w] \notin {"domain", "apex"}
    BY <2>2, <2>3 DEF InTransaction
  <2> QED
    BY <1>2, <1>4, <2>1, <2>3, <2>4
<1>6. CASE calls # << >> /\ calls[1] = << >>
  <2>1. UNCHANGED <<rows, lastRow, session, pc>> /\ tx'[w] = [tx[w] EXCEPT !.calls = Tail(calls)]
    BY <1>0, <1>6 DEF Statement
  <2>2. /\ TxFields \subseteq DOMAIN tx'[w] /\ tx'[w].done = tx[w].done /\ tx'[w].hurt = tx[w].hurt
        /\ tx'[w].calls = Tail(calls) /\ tx'[w].dom = tx[w].dom
    BY <1>0, <2>1 DEF TxFields
  <2>3. InTransaction(w)' /\ pc'[w] \notin {"domain", "apex"}
    BY <1>1, <2>1 DEF InTransaction
  <2> QED
    BY <1>3, <1>4, <1>6, <2>1, <2>2, <2>3
<1>7. CASE calls # << >> /\ GiveUpCall(w) /\ UNCHANGED pc
  <2>1. /\ UNCHANGED <<rows, lastRow>> /\ tx'[w] = [tx[w] EXCEPT !.calls = Tail(calls), !.hurt = TRUE]
        /\ session'[w].ins = session[w].ins
    BY <1>0, <1>7 DEF GiveUpCall
  <2>2. /\ TxFields \subseteq DOMAIN tx'[w] /\ tx'[w].done = tx[w].done /\ tx'[w].hurt = TRUE
        /\ tx'[w].calls = Tail(calls)
    BY <1>0, <2>1 DEF TxFields
  <2>3. InTransaction(w)' /\ pc'[w] \notin {"domain", "apex"}
    BY <1>1, <1>7 DEF InTransaction
  <2>4. TxWritten(w)'
    BY <1>0, <1>3, <1>7, <2>2, <2>3 DEF TxWritten
  <2> QED
    BY <1>0, <2>1, <2>4, FewerRows DEF StepWritten
<1>8. CASE calls # << >> /\ calls[1] # << >> /\ ~Fails(w, op) /\ Succeed(w, op) /\ UNCHANGED pc
  BY <1>1, <1>8, SucceedWritten
<1> QED
  BY <1>5, <1>6, <1>7, <1>8 DEF Statement

\* What a new serial leaves of rows: their ids, and all that is not an SOA.
LEMMA RenumberedIds ==
  ASSUME NEW rws, NEW set, \A r \in rws : IsFullRow(r)
  PROVE  \A s \in Renumber(rws, set) : \E r \in rws : s.id = r.id /\ s.dom = r.dom /\ s.rr.type = r.rr.type
BY RenumberRows, RenumberedRow

\* The serials are written into the rows of SOA records.
LEMMA SerialsWritten ==
  ASSUME TablesInv, WrittenInv, NEW w \in Writers, NEW ids \in SUBSET SoaRows(w), WriteSerials(w, ids),
         pc[w] = "serial", pc' = [pc EXCEPT ![w] = "commit"], UNCHANGED <<dialect, lastRow>>,
         tx'[w] = tx[w] \/ tx'[w] = [tx[w] EXCEPT !.hurt = TRUE]
  PROVE  StepWritten(w)
<1> DEFINE s == session[w]
           set == NewSerials(w, ids)
<1>0. /\ ControlInv /\ RowIds /\ TxWritten(w) /\ DOMAIN pc = Writers
      /\ TxFields \subseteq DOMAIN tx[w] /\ tx[w].hurt \in BOOLEAN /\ DOMAIN session = Writers
      /\ s = [state |-> s.state, ins |-> s.ins, del |-> s.del, set |-> s.set]
  BY DEF TablesInv, WrittenInv, ControlInv, TxWritten
<1>1. /\ TxFields \subseteq DOMAIN tx'[w] /\ tx'[w].done = tx[w].done /\ tx'[w].calls = tx[w].calls
      /\ tx'[w].dom = tx[w].dom /\ tx'[w].hurt \in {tx[w].hurt, TRUE}
  BY <1>0 DEF TxFields
<1>2. InTransaction(w) /\ InTransaction(w)' /\ pc'[w] = "commit"
  BY <1>0 DEF InTransaction
<1>3. Sees(w) \subseteq rows \cup s.ins /\ s.ins \subseteq Sees(w)
  BY DEF Sees
<1>4. \A r, x \in rows \cup s.ins : r.id = x.id => r = x
  BY DEF WrittenInv, RowIds
<1>5. \A p \in set : \A r \in rows \cup s.ins : p[1] = r.id => r.rr.type = "SOA"
  <2> TAKE p \in set
  <2>1. p[1] \in ids
    BY DEF NewSerials
  <2>2. PICK x \in Sees(w) : x.rr.type = "SOA" /\ x.id = p[1]
    BY <2>1 DEF SoaRows
  <2> QED
    BY <1>3, <1>4, <2>2
<1>6. \A r \in rows \cup s.ins : IsFullRow(r)
  BY <1>0 DEF RowIds
<1>7. CASE s.state = "auto"
  <2>1. rows' = Renumber(rows, set) /\ session' = session
    BY <1>7 DEF WriteSerials
  <2> HIDE DEF set
  <2>2. /\ \A r \in Renumber(rows, set) : IsFullRow(r) /\ \E x \in rows : r.id = x.id
        /\ \A r, x \in Renumber(rows, set) : r.id = x.id => r = x
    BY <1>4, <1>6, RenumberRows, RenumberedIds
  <2>3. OwnRows(w)
    <3>1. \A r \in s.ins, x \in rows' : r.id # x.id
      BY <1>0, <2>1, <2>2 DEF RowIds
    <3> QED
      BY <1>4, <1>6, <2>1, <2>2, <3>1 DEF OwnRows
  <2>4. tx[w].hurt = TRUE
    BY <1>0, <1>2, <1>7 DEF TxWritten, SessionWritten
  <2>5. TxWritten(w)'
    BY <1>0, <1>1, <1>2, <2>4 DEF TxWritten
  <2> QED
    BY <2>3, <2>5 DEF StepWritten
<1>8. CASE s.state # "auto"
  <2> DEFINE ins2 == Renumber(s.ins, set)
             set2 == {p \in s.set : p[1] \notin ids} \cup set
  <2>1. rows' = rows /\ session' = [session EXCEPT ![w].ins = ins2, ![w].set = set2]
    BY <1>8 DEF WriteSerials
  <2>a. ins2 = Renumber(s.ins, set) /\ set2 = {p \in s.set : p[1] \notin ids} \cup set
    OBVIOUS
  <2> HIDE DEF set, ins2, set2
  <2>2. /\ session'[w].ins = ins2 /\ session'[w].set = set2
        /\ session'[w].state = s.state /\ session'[w].del = s.del
    BY <1>0, <2>1
  <2>3. /\ \A r \in ins2 : IsFullRow(r) /\ \E x \in s.ins : r.id = x.id /\ r.dom = x.dom /\ r.rr.type = x.rr.type
        /\ \A r, x \in ins2 : r.id = x.id => r = x
        /\ \A r \in ins2 : r.rr.type # "SOA" => r \in s.ins
        /\ \A r \in s.ins : r.rr.type # "SOA" => r \in ins2
    BY <1>4, <1>5, <1>6, <2>a, RenumberRows, RenumberedIds
  <2>4. OwnRows(w)
    <3>1. \A r \in ins2, x \in rows : r.id # x.id
      BY <1>0, <2>3 DEF RowIds
    <3>2. \A r \in rows \cup ins2 : IsFullRow(r) /\ \E x \in rows \cup s.ins : x.id = r.id
      BY <1>6, <2>3
    <3>3. rows' = rows /\ session'[w].ins = ins2 /\ lastRow' = lastRow
      BY <2>1, <2>2
    <3> QED
      BY <1>4, <2>3, <3>1, <3>2, <3>3 DEF OwnRows
  <2>5. ASSUME tx[w].hurt = FALSE PROVE SessionWritten(w)'
    <3>1. /\ s.state = "open" /\ s.set = {}
          /\ \A i \in DOMAIN tx[w].done : Added(tx[w].done, i, s.ins, tx[w].dom)
          /\ \A i \in DOMAIN tx[w].done : Deleted(tx[w].done, i, Sees(w), tx[w].dom)
      BY <1>0, <1>2, <2>5 DEF TxWritten, SessionWritten
    <3> DEFINE done == tx[w].done
               dom == tx[w].dom
               sees2 == Sees(w)'
    <3>2. sees2 = {r \in rows : r.id \notin s.del} \cup ins2
      BY <2>1, <2>2 DEF Sees
    <3>3. Sees(w) = {r \in rows : r.id \notin s.del} \cup s.ins
      BY DEF Sees
    <3> HIDE DEF done, dom, sees2
    <3>4. ASSUME NEW i \in DOMAIN done PROVE Added(done, i, ins2, dom)
      <4>1. Added(done, i, s.ins, dom)
        BY <3>1, <3>4 DEF done, dom
      <4> QED
        BY <2>3, <4>1 DEF Added
    <3>5. ASSUME NEW i \in DOMAIN done PROVE Deleted(done, i, sees2, dom)
      <4>1. Deleted(done, i, Sees(w), dom)
        BY <3>1, <3>5 DEF done, dom
      <4>2. \A r \in sees2 : r.rr.type # "SOA" => r \in Sees(w)
        BY <2>3, <3>2, <3>3
      <4> QED
        BY <4>1, <4>2 DEF Deleted
    <3>6. ASSUME NEW p \in set2, NEW r \in sees2, p[1] = r.id PROVE r.rr.type = "SOA"
      <4>1. p \in set
        BY <2>a, <3>1
      <4>2. PICK x \in rows \cup s.ins : x.id = r.id /\ x.rr.type = r.rr.type
        BY <2>3, <3>2
      <4> QED
        BY <1>5, <3>6, <4>1, <4>2
    <3> QED
      BY <1>1, <1>2, <2>2, <3>1, <3>4, <3>5, <3>6 DEF SessionWritten, done, dom, sees2
  <2>6. TxWritten(w)'
    BY <1>0, <1>1, <1>2, <2>5 DEF TxWritten
  <2> QED
    BY <2>4, <2>6 DEF StepWritten
<1> QED
  BY <1>7, <1>8

\* setSoaSerial, whether its UPDATEs succeed or not.
LEMMA SetSerialWritten ==
  ASSUME TablesInv, WrittenInv, NEW w \in Writers, SetSerial(w)
  PROVE  StepWritten(w)
<1>0. /\ ControlInv /\ RowIds /\ TxWritten(w) /\ DOMAIN pc = Writers
      /\ TxFields \subseteq DOMAIN tx[w] /\ DOMAIN tx = Writers /\ DOMAIN session = Writers
      /\ session[w] = [state |-> session[w].state, ins |-> session[w].ins,
                       del |-> session[w].del, set |-> session[w].set]
  BY DEF TablesInv, WrittenInv, ControlInv, TxWritten
<1>1. pc[w] = "serial" /\ pc' = [pc EXCEPT ![w] = "commit"] /\ UNCHANGED <<dialect, lastRow>>
  BY DEF SetSerial, Goto
<1>2. ASSUME tx' = [tx EXCEPT ![w].hurt = TRUE], UNCHANGED rows, session'[w].ins = session[w].ins
      PROVE  StepWritten(w)
  <2>1. /\ TxFields \subseteq DOMAIN tx'[w] /\ tx'[w].done = tx[w].done /\ tx'[w].calls = tx[w].calls
        /\ tx'[w].hurt = TRUE
    BY <1>0, <1>2 DEF TxFields
  <2>2. InTransaction(w)' /\ pc'[w] = "commit"
    BY <1>0, <1>1 DEF InTransaction
  <2>3. TxWritten(w)'
    BY <1>0, <2>1, <2>2 DEF TxWritten
  <2> QED
    BY <1>0, <1>1, <1>2, <2>3, FewerRows DEF StepWritten
<1>3. ASSUME NEW ids \in SUBSET SoaRows(w), WriteSerials(w, ids),
             tx' = tx \/ tx' = [tx EXCEPT ![w].hurt = TRUE]
      PROVE  StepWritten(w)
  <2>1. tx'[w] = tx[w] \/ tx'[w] = [tx[w] EXCEPT !.hurt = TRUE]
    BY <1>0, <1>3
  <2> QED
    BY <1>1, <1>3, <2>1, SerialsWritten
<1>4. \/ \E ids \in SUBSET SoaRows(w) :
           WriteSerials(w, ids) /\ (tx' = tx \/ tx' = [tx EXCEPT ![w].hurt = TRUE])
      \/ tx' = [tx EXCEPT ![w].hurt = TRUE] /\ UNCHANGED <<rows, session>>
  BY DEF SetSerial
<1> QED
  BY <1>2, <1>3, <1>4

\* A commit makes the rows of the session everybody's.
LEMMA CommitWritten ==
  ASSUME TablesInv, WrittenInv, NEW w \in Writers, Committed(w) \/ CommitFails(w)
  PROVE  StepWritten(w)
<1>0. ControlInv /\ RowIds
  BY DEF TablesInv, WrittenInv
<1>1. Reply(w) /\ UNCHANGED lastRow
  BY DEF Committed, CommitFails, tables
<1>2. TxWritten(w)' /\ session'[w].ins = {}
  BY <1>0, <1>1, RestWritten
<1>3. CASE rows' = rows
  BY <1>0, <1>1, <1>2, <1>3, FewerRows DEF StepWritten
<1>4. CASE rows' = Merged(w)
  <2> DEFINE left == {r \in rows : r.id \notin session[w].del}
             set == session[w].set
             ins == session[w].ins
  <2>1. rows' = Renumber(left, set) \cup ins
    BY <1>4 DEF Merged
  <2>2. /\ \A r \in left \cup ins : IsFullRow(r)
        /\ \A r, x \in left : r.id = x.id => r = x
        /\ \A r, x \in ins : r.id = x.id => r = x
        /\ \A r \in ins, x \in left : r.id # x.id
    BY <1>0 DEF RowIds
  <2>3. left \subseteq rows
    OBVIOUS
  <2> HIDE DEF left, set
  <2>4. /\ \A r \in Renumber(left, set) : IsFullRow(r) /\ \E x \in left : r.id = x.id
        /\ \A r, x \in Renumber(left, set) : r.id = x.id => r = x
    BY <2>2, RenumberRows, RenumberedIds
  <2>5. \A r, x \in rows' : r.id = x.id => r = x
    BY <2>1, <2>2, <2>4
  <2>6. \A r \in rows' : IsFullRow(r) /\ \E x \in rows \cup session[w].ins : x.id = r.id
    BY <2>1, <2>2, <2>3, <2>4
  <2>7. OwnRows(w)
    BY <1>1, <1>2, <2>5, <2>6 DEF OwnRows
  <2> QED
    BY <1>2, <2>7 DEF StepWritten
<1> QED
  BY <1>3, <1>4 DEF Committed, CommitFails, tables

\* Zones are made and deleted outside any transaction.
LEMMA ZoneStepsWritten ==
  ASSUME TablesInv, WrittenInv, NEW w \in Writers,
         InsertDomain(w) \/ InsertSoa(w) \/ DeleteRows(w) \/ DeleteDomain(w)
  PROVE  StepWritten(w)
<1>0. /\ ControlInv /\ RowIds /\ TxWritten(w) /\ DOMAIN pc = Writers /\ DOMAIN session = Writers
      /\ TxFields \subseteq DOMAIN tx[w] /\ DOMAIN tx = Writers
  BY DEF TablesInv, WrittenInv, ControlInv, TxWritten
<1>1. /\ pc[w] \in {"domain", "apex", "empty", "drop"} /\ ~InTransaction(w)
      /\ pc[w] \in {"domain", "apex"} => tx[w].soa[1] \in GsqlRecords
      /\ UNCHANGED session \/ session'[w].ins = {}
      /\ tx[w].calls \in Seq(Seq(GsqlOps)) /\ tx[w].done = << >> /\ tx[w].hurt = FALSE
  <2>1. pc[w] \in {"domain", "apex", "empty", "drop"}
    BY DEF InsertDomain, InsertSoa, DeleteRows, DeleteDomain
  <2>2. ~InTransaction(w)
    BY <2>1 DEF InTransaction
  <2>3. UNCHANGED session \/ Reply(w)
    BY DEF InsertDomain, InsertSoa, DeleteRows, DeleteDomain
  <2> QED
    BY <1>0, <2>1, <2>2, <2>3, RestWritten DEF TxWritten
<1>2. session'[w].ins \subseteq session[w].ins
  BY <1>1
<1>3. OwnRows(w)
  <2>1. CASE rows' \subseteq rows /\ UNCHANGED lastRow
    BY <1>0, <1>2, <2>1, FewerRows
  <2>2. CASE InsertSoa(w) /\ rows' # rows
    <3> DEFINE rr == tx[w].soa[1]
               dom == NewDomain(w)
               new == [id |-> lastRow + 1, dom |-> dom, rr |-> rr]
    <3>1. rows' = rows \cup {new} /\ lastRow' = lastRow + 1 /\ pc[w] = "apex"
      BY <2>2 DEF InsertSoa
    <3>2. {"name", "type"} \subseteq DOMAIN rr
      BY <1>1, <3>1, RecordFields
    <3> HIDE DEF rr, dom
    <3>3. IsFullRow(new) /\ new.id = lastRow + 1
      BY <3>2 DEF IsFullRow, IsRow
    <3> HIDE DEF new
    <3> QED
      BY <1>0, <1>2, <3>1, <3>3, OneMoreRow
  <2>3. InsertDomain(w) \/ DeleteRows(w) \/ DeleteDomain(w) => rows' \subseteq rows /\ UNCHANGED lastRow
    BY DEF InsertDomain, DeleteRows, DeleteDomain
  <2>4. InsertSoa(w) => rows' # rows \/ UNCHANGED <<rows, lastRow>>
    <3> DEFINE new == [id |-> lastRow + 1, dom |-> NewDomain(w), rr |-> tx[w].soa[1]]
    <3>1. InsertSoa(w) => rows' = rows \cup {new} \/ UNCHANGED <<rows, lastRow>>
      BY DEF InsertSoa
    <3>2. new \notin rows
      <4>1. new.id = lastRow + 1 /\ lastRow \in Nat
        BY <1>0 DEF RowIds
      <4>2. \A r \in rows : r.id \in 1 .. lastRow
        BY <1>0 DEF RowIds
      <4> HIDE DEF new
      <4> QED
        BY <4>1, <4>2
    <3> QED
      BY <3>1, <3>2
  <2> QED
    BY <2>1, <2>2, <2>3, <2>4
<1>4. CASE Reply(w)
  BY <1>0, <1>3, <1>4, RestWritten DEF StepWritten
<1>5. CASE ~Reply(w)
  <2>1. \/ pc[w] = "domain" /\ pc'[w] = "apex" /\ \E id : tx'[w] = [tx[w] EXCEPT !.dom = id]
        \/ pc'[w] \in {"find", "drop"} /\ tx'[w] = tx[w]
    <3>1. CASE InsertDomain(w)
      <4>1. PICK id : tx' = [tx EXCEPT ![w].dom = id] /\ pc' = [pc EXCEPT ![w] = "apex"] /\ pc[w] = "domain"
        BY <1>5, <3>1 DEF InsertDomain, Goto
      <4> QED
        BY <1>0, <4>1
    <3>2. CASE ~InsertDomain(w)
      BY <1>0, <1>5, <3>2 DEF InsertSoa, DeleteRows, DeleteDomain, Goto
    <3> QED
      BY <3>1, <3>2
  <2>2. /\ TxFields \subseteq DOMAIN tx'[w] /\ tx'[w].done = tx[w].done /\ tx'[w].hurt = tx[w].hurt
        /\ tx'[w].calls = tx[w].calls /\ tx'[w].soa = tx[w].soa
    BY <1>0, <2>1 DEF TxFields
  <2>3. ~InTransaction(w)' /\ (pc'[w] \in {"domain", "apex"} => pc[w] \in {"domain", "apex"})
    BY <2>1 DEF InTransaction
  <2>4. TxWritten(w)'
    BY <1>0, <1>1, <2>2, <2>3, OutsideWritten
  <2> QED
    BY <1>3, <2>4 DEF StepWritten
<1> QED
  BY <1>4, <1>5

\* While a transaction is open nobody else adds a row or changes one: sqlite keeps
\* its tables locked, and in pgsql nothing but deletions succeed.
LEMMA OthersOnlyDelete ==
  ASSUME TablesInv, NEW w \in Writers, NEW v \in Writers \ {w},
         session[v].state = "open", Receive(w) \/ Run(w)
  PROVE  rows' \subseteq rows
<1>1. CASE dialect = "pgsql"
  BY <1>1, StepsOnlyDelete DEF TablesInv
<1>2. CASE dialect = "sqlite"
  <2>1. Locked(w) /\ session[w].state # "open"
    BY <1>2, SMTT(30) DEF Locked, TablesInv, SqliteInv
  <2>2. CASE Receive(w) \/ Find(w) \/ Own(w) \/ Begin(w) \/ ReadSoa(w) \/ CommitFails(w) \/ InsertDomain(w)
    BY <2>2 DEF Receive, Find, Own, Begin, ReadSoa, CommitFails, InsertDomain, tables
  <2>3. CASE Statement(w)
    <3> DEFINE op == tx[w].calls[1][1]
    <3>1. UNCHANGED rows \/ (~Fails(w, op) /\ Succeed(w, op))
      BY <2>3 DEF Statement, GiveUpCall
    <3> HIDE DEF op
    <3> QED
      BY <2>1, <3>1 DEF Fails, Succeed
  <2>4. CASE SetSerial(w)
    BY <2>1, <2>4 DEF SetSerial, WriteSerials
  <2>5. CASE Committed(w)
    BY <2>1, <2>5 DEF Committed
  <2>6. CASE InsertSoa(w) \/ DeleteRows(w) \/ DeleteDomain(w)
    BY <2>1, <2>6 DEF InsertSoa, DeleteRows, DeleteDomain
  <2> QED
    BY <2>2, <2>3, <2>4, <2>5, <2>6 DEF Run
<1> QED
  BY <1>1, <1>2 DEF TablesInv

\* Every step of a writer keeps the rows apart and its transaction written.
LEMMA StepsWritten ==
  ASSUME TablesInv, WrittenInv, NEW w \in Writers, Receive(w) \/ Run(w)
  PROVE  StepWritten(w)
BY SearchStepsWritten, StatementWritten, SetSerialWritten, CommitWritten, ZoneStepsWritten DEF Run

\* So does every step.
LEMMA NextWritten == TablesInv /\ WrittenInv /\ [Next]_vars => WrittenInv'
<1> SUFFICES ASSUME TablesInv, WrittenInv, [Next]_vars PROVE WrittenInv'
  OBVIOUS
<1>1. ASSUME NEW w \in Writers, Receive(w) \/ Run(w) PROVE WrittenInv'
  <2>1. OthersStay(w) /\ StepWritten(w) /\ UNCHANGED dialect
    BY <1>1, StepsKeepControl, StepsWritten, ZenonT(30) DEF TablesInv, Receive, Run, Find, Own, Begin, Statement, ReadSoa,
       SetSerial, Committed, CommitFails, InsertDomain, InsertSoa, DeleteRows, DeleteDomain
  <2>2. RowIds'
    BY <2>1, RowIdsKept DEF WrittenInv, StepWritten
  <2>3. ASSUME NEW v \in Writers \ {w} PROVE TxWritten(v)'
    <3>1. pc'[v] = pc[v] /\ tx'[v] = tx[v] /\ session'[v] = session[v] /\ TxWritten(v)
      BY <2>1 DEF OthersStay, WrittenInv
    <3>2. InTransaction(v)' <=> InTransaction(v)
      BY <3>1 DEF InTransaction
    <3>3. SessionWritten(v) => SessionWritten(v)'
      <4>1. SessionWritten(v) => rows' \subseteq rows
        BY <1>1, OthersOnlyDelete DEF SessionWritten
      <4>2. rows' \subseteq rows => Sees(v)' \subseteq Sees(v)
        BY <3>1 DEF Sees
      <4> DEFINE sees2 == Sees(v)'
      <4>3. SessionWritten(v) => sees2 \subseteq Sees(v)
        BY <4>1, <4>2
      <4> HIDE DEF sees2
      <4>4. SessionWritten(v) => \A i \in DOMAIN tx[v].done : Deleted(tx[v].done, i, sees2, tx[v].dom)
        BY <4>3 DEF SessionWritten, Deleted
      <4>5. SessionWritten(v) => \A p \in session[v].set, r \in sees2 : p[1] = r.id => r.rr.type = "SOA"
        BY <4>3 DEF SessionWritten
      <4> QED
        BY <2>1, <3>1, <4>4, <4>5 DEF SessionWritten, sees2
    <3> QED
      BY <3>1, <3>2, <3>3 DEF TxWritten
  <2> QED
    BY <2>1, <2>2, <2>3, Zenon DEF WrittenInv, StepWritten
<1>2. CASE Restart
  <2>1. \A w \in Writers : pc'[w] = "idle" /\ tx'[w] = NoTx /\ session'[w] = NoSession
    BY <1>2 DEF Restart
  <2>2. UNCHANGED <<rows, lastRow>>
    BY <1>2 DEF Restart, tables
  <2>3. \A w \in Writers : session'[w].ins = {}
    BY <2>1 DEF NoSession
  <2>4. RowIds'
    BY <2>2, <2>3 DEF WrittenInv, RowIds
  <2>5. ASSUME NEW w \in Writers PROVE TxWritten(w)'
    <3>1. << >> \in Seq(Seq(GsqlOps)) /\ << >> \in Seq(GsqlOps)
      BY EmptySeq
    <3>2. ~InTransaction(w)' /\ pc'[w] \notin {"domain", "apex"}
      BY <2>1 DEF InTransaction
    <3>3. /\ TxFields \subseteq DOMAIN tx'[w] /\ tx'[w].hurt = FALSE /\ tx'[w].calls = << >>
          /\ tx'[w].done = << >>
      BY <2>1 DEF TxFields, NoTx
    <3> HIDE DEF GsqlOps
    <3> QED
      BY <3>1, <3>2, <3>3 DEF TxWritten
  <2> QED
    BY <2>4, <2>5 DEF WrittenInv
<1>3. CASE UNCHANGED vars
  <2>1. UNCHANGED <<dialect, rows, lastRow, session, pc, tx>>
    BY <1>3 DEF vars, tables
  <2>2. RowIds'
    BY <2>1 DEF WrittenInv, RowIds
  <2>3. ASSUME NEW w \in Writers PROVE TxWritten(w)'
    <3>1. Sees(w)' = Sees(w) /\ (InTransaction(w)' <=> InTransaction(w))
      BY <2>1 DEF Sees, InTransaction
    <3>2. SessionWritten(w)' <=> SessionWritten(w)
      BY <2>1, <3>1 DEF SessionWritten
    <3> QED
      BY <2>1, <3>1, <3>2 DEF WrittenInv, TxWritten
  <2> QED
    BY <2>2, <2>3 DEF WrittenInv
<1> QED
  BY <1>1, <1>2, <1>3 DEF Next

\* The first rows are numbered one by one.
LEMMA InitWritten == Init => WrittenInv
<1> SUFFICES ASSUME Init PROVE WrittenInv
  OBVIOUS
<1>1. PICK id : rows = {[id |-> i, dom |-> id[SetToSeq(InitRecords)[i][1]], rr |-> SetToSeq(InitRecords)[i][2]] :
                          i \in DOMAIN SetToSeq(InitRecords)}
                /\ lastRow = Len(SetToSeq(InitRecords))
  BY DEF Init
<1> DEFINE pos == SetToSeq(InitRecords)
           n == Cardinality(InitRecords)
           row(i) == [id |-> i, dom |-> id[pos[i][1]], rr |-> pos[i][2]]
<1>2. pos \in [1 .. n -> InitRecords] /\ n \in Nat
  BY InitPositions, GsqlAssumption, FS_CardinalityType
<1>3. rows = {row(i) : i \in 1 .. n} /\ lastRow = n
  <2>1. Len(pos) = n /\ DOMAIN pos = 1 .. n
    BY <1>2, LenProperties
  <2> QED
    BY <1>1, <2>1
<1>4. \A i \in 1 .. n : IsFullRow(row(i)) /\ row(i).id = i
  <2> TAKE i \in 1 .. n
  <2>1. pos[i][2] \in GsqlRecords
    <3>1. pos[i] \in InitRecords
      BY <1>2
    <3> HIDE DEF pos
    <3>2. PICK z \in DOMAIN InitZones : \E rr \in InitZones[z] : pos[i] = <<z, rr>>
      BY <3>1 DEF InitRecords
    <3> QED
      BY <3>2, RecordsAssumption
  <2>2. {"name", "type"} \subseteq DOMAIN pos[i][2]
    BY <2>1, RecordFields
  <2> HIDE DEF pos
  <2> QED
    BY <2>2 DEF IsFullRow, IsRow
<1> HIDE DEF row, n
<1>5. \A w \in Writers : pc[w] = "idle" /\ tx[w] = NoTx /\ session[w] = NoSession
  BY DEF Init
<1>6. \A w \in Writers : session[w].ins = {}
  BY <1>5 DEF NoSession
<1>7. RowIds
  BY <1>2, <1>3, <1>4, <1>6 DEF RowIds
<1>8. ASSUME NEW w \in Writers PROVE TxWritten(w)
  <2>1. << >> \in Seq(Seq(GsqlOps)) /\ << >> \in Seq(GsqlOps)
    BY EmptySeq
  <2>2. ~InTransaction(w) /\ pc[w] \notin {"domain", "apex"}
    BY <1>5 DEF InTransaction
  <2>3. TxFields \subseteq DOMAIN tx[w] /\ tx[w].hurt = FALSE /\ tx[w].calls = << >> /\ tx[w].done = << >>
    BY <1>5 DEF TxFields, NoTx
  <2> HIDE DEF GsqlOps
  <2> QED
    BY <2>1, <2>2, <2>3 DEF TxWritten
<1> QED
  BY <1>7, <1>8 DEF WrittenInv

\* What a confirmed transaction did is there.
Confirms(w) ==
  Committed(w) /\ ~tx[w].hurt =>
    LET done  == tx[w].done
        kept  == {r.rr : r \in {x \in rows' : x.dom = tx[w].dom}}
    IN  \A i \in DOMAIN done :
          LET later == {done[j] : j \in i + 1 .. Len(done)}
          IN  IF done[i].op = "add"
              THEN \/ done[i].rr.type = "SOA" \/ done[i].rr \in kept
                   \/ \E o \in later : o.op # "add" /\ Deletes(o, done[i].rr)
              ELSE \A rr \in kept :
                     rr.type # "SOA" /\ Deletes(done[i], rr) => AddRecord(rr) \in later

\* A commit merges the rows that are left with those of the session.
LEMMA CommitConfirms ==
  ASSUME TablesInv, WrittenInv, NEW w \in Writers
  PROVE  Confirms(w)
<1> SUFFICES ASSUME Committed(w), ~tx[w].hurt PROVE Confirms(w)
  BY DEF Confirms
<1> DEFINE done == tx[w].done
           dom == tx[w].dom
           s == session[w]
           kept == {r.rr : r \in {x \in rows' : x.dom = dom}}
           left == {r \in rows : r.id \notin s.del}
<1>1. pc[w] = "commit" /\ InTransaction(w) /\ tx[w].hurt = FALSE /\ TxWritten(w)
  BY DEF Committed, InTransaction, WrittenInv, TxWritten
<1>2. SessionWritten(w)
  BY <1>1 DEF TxWritten
<1>3. rows' = Renumber(left, s.set) \cup s.ins /\ Sees(w) = left \cup s.ins
  BY <1>2 DEF Committed, Merged, Sees, SessionWritten
<1>4. \A r \in left : IsFullRow(r)
  BY DEF WrittenInv, RowIds
<1>5. /\ \A i \in DOMAIN done : Added(done, i, s.ins, dom)
      /\ \A i \in DOMAIN done : Deleted(done, i, Sees(w), dom)
      /\ \A p \in s.set, r \in Sees(w) : p[1] = r.id => r.rr.type = "SOA"
  BY <1>2 DEF SessionWritten
<1> HIDE DEF left, s, done, dom
<1>6. \A r \in rows' : r.rr.type # "SOA" => r \in Sees(w)
  BY <1>3, <1>4, <1>5, RenumberRows
<1>7. ASSUME NEW i \in DOMAIN done, done[i].op = "add"
      PROVE  \/ done[i].rr.type = "SOA" \/ done[i].rr \in kept
             \/ \E j \in i + 1 .. Len(done) : done[j].op # "add" /\ Deletes(done[j], done[i].rr)
  BY <1>3, <1>5, <1>7 DEF Added
<1>8. ASSUME NEW i \in DOMAIN done, done[i].op # "add", NEW rr \in kept,
             rr.type # "SOA", Deletes(done[i], rr)
      PROVE  \E j \in i + 1 .. Len(done) : done[j] = AddRecord(rr)
  <2>1. PICK r \in rows' : r.dom = dom /\ r.rr = rr
    OBVIOUS
  <2> QED
    BY <1>5, <1>6, <1>8, <2>1 DEF Deleted
<1> QED
  BY <1>7, <1>8 DEF Confirms, done, dom

\* A confirmed transaction, no statement of which failed, is there as a whole:
\* for any writers and zones, however they interleave, whatever fails and
\* wherever the daemon dies (gsql.cpp:204-281).
THEOREM CommitsAreWhole == Spec => ConfirmedIsWritten
<1>1. TablesInv /\ WrittenInv /\ [Next]_vars => [\A w \in Writers : Confirms(w)]_vars
  BY CommitConfirms
<1>2. TablesInv /\ WrittenInv /\ [Next]_vars => WrittenInv'
  BY NextWritten
<1>3. TablesInv /\ [Next]_vars => TablesInv'
  BY NextTables
<1>4. Init => TablesInv /\ WrittenInv
  BY InitTables, InitWritten
<1>5. [][\A w \in Writers : Confirms(w)]_vars => ConfirmedIsWritten
  BY PTL DEF Confirms, ConfirmedIsWritten
<1> QED
  BY <1>1, <1>2, <1>3, <1>4, <1>5, PTL DEF Spec

-----------------------------------------------------------------------------
(* The refinement: what every statement does to the zones a query sees is   *)
(* what ZoneStore promises.  PromiseInv says what an open transaction has   *)
(* made of its request so far.                                             *)

\* What a transaction of the promise makes of the records it saw.
Applied(base, ops) == Promise!FoldLeft(Promise!ApplyOp, base, ops)

\* What FoldLeft does: it takes away the last element of a set of positions.
Folds(it, base, seq, S) ==
  it = [s \in SUBSET S |->
          IF s = {} THEN base ELSE Promise!ApplyOp(it[s \ {Max(s)}], seq[Max(s)])]

\* The same, position by position.
Stepwise(it, base, seq, n) ==
  /\ it[1 .. 0] = base
  /\ \A i \in 1 .. n : it[1 .. i] = Promise!ApplyOp(it[1 .. i - 1], seq[i])

\* Induction over the numbers, for a set that holds 0 and with each number the next.
LEMMA NatsBySteps ==
  ASSUME NEW S, 0 \in S, \A n \in Nat : n \in S => n + 1 \in S
  PROVE  Nat \subseteq S
<1> DEFINE Out == Nat \ S
<1>1. SUFFICES ASSUME Out # {} PROVE FALSE
  OBVIOUS
<1>2. PICK m \in Out : \A k \in Out : ~(<<k, m>> \in OpToRel(<, Nat))
  <2>1. IsWellFoundedOn(OpToRel(<, Nat), Nat)
    BY NatLessThanWellFounded
  <2> HIDE DEF Out
  <2>2. Out \subseteq Nat
    BY DEF Out
  <2> QED
    BY <1>1, <2>1, <2>2, WFMin
<1>3. m # 0 /\ m - 1 \in Nat /\ m - 1 \notin Out
  <2>1. m \in Nat /\ m # 0
    OBVIOUS
  <2>2. m - 1 \in Nat /\ <<m - 1, m>> \in OpToRel(<, Nat)
    BY <2>1 DEF OpToRel
  <2> QED
    BY <1>2, <2>1, <2>2
<1> QED
  BY <1>3

\* The order in which three sequences are laid end to end does not matter.
Associates(a, b, c) == (a \o b) \o c = a \o (b \o c)

LEMMA Associative ==
  ASSUME NEW S, NEW a \in Seq(S), NEW b \in Seq(S), NEW c \in Seq(S)
  PROVE  Associates(a, b, c)
<1>1. \A T : \A s, t, u \in Seq(T) : (s \o t) \o u = s \o (t \o u)
  BY ConcatAssociative, Zenon
<1>2. (a \o b) \o c = a \o (b \o c)
  BY <1>1
<1> QED
  BY <1>2 DEF Associates

\* What the first m members of seqs amount to, one after the other.
Flattened(f, seqs, S, m) ==
  /\ f \in [0 .. m -> Seq(S)]
  /\ f[0] = << >>
  /\ \A i \in 1 .. m : f[i] = f[i - 1] \o seqs[i]

\* Sequences can be flattened member by member.
LEMMA FlattenedExists ==
  ASSUME NEW S, NEW seqs \in Seq(Seq(S))
  PROVE  \E f : Flattened(f, seqs, S, Len(seqs))
<1> DEFINE n == Len(seqs)
           Found == {m \in Nat : m <= n => \E f : Flattened(f, seqs, S, m)}
<1>1. 0 \in Found
  <2>1. Flattened([i \in {0} |-> << >>], seqs, S, 0)
    BY EmptySeq DEF Flattened
  <2> QED
    BY <2>1
<1>2. ASSUME NEW m \in Nat, m \in Found PROVE m + 1 \in Found
  <2>1. CASE ~(m + 1 <= n)
    BY <2>1
  <2>2. CASE m + 1 <= n
    <3>1. m <= n /\ m + 1 \in 1 .. n /\ n \in Nat
      BY <2>2
    <3>2. PICK f : Flattened(f, seqs, S, m)
      BY <1>2, <3>1
    <3>3. f[m] \in Seq(S) /\ seqs[m + 1] \in Seq(S)
      BY <3>1, <3>2 DEF Flattened
    <3> DEFINE last == f[m] \o seqs[m + 1]
               g == [i \in 0 .. m + 1 |-> IF i = m + 1 THEN last ELSE f[i]]
    <3>4. last \in Seq(S)
      BY <3>3, ConcatProperties
    <3>5. g[m + 1] = last /\ \A i \in 0 .. m : g[i] = f[i]
      <4>1. m + 1 \in 0 .. m + 1 /\ \A i \in 0 .. m : i \in 0 .. m + 1 /\ i # m + 1
        OBVIOUS
      <4> HIDE DEF last
      <4> QED
        BY <4>1
    <3>6. g \in [0 .. m + 1 -> Seq(S)] /\ g[0] = << >>
      BY <3>2, <3>4 DEF Flattened
    <3>7. ASSUME NEW i \in 1 .. m + 1 PROVE g[i] = g[i - 1] \o seqs[i]
      <4> HIDE DEF g
      <4>1. CASE i = m + 1
        <5>1. i - 1 = m /\ m \in 0 .. m
          BY <4>1
        <5> QED
          BY <3>5, <4>1, <5>1
      <4>2. CASE i # m + 1
        <5>1. i \in 1 .. m /\ i \in 0 .. m /\ i - 1 \in 0 .. m
          BY <4>2
        <5> QED
          BY <3>2, <3>5, <5>1 DEF Flattened
      <4> QED
        BY <4>1, <4>2
    <3> HIDE DEF g
    <3>8. Flattened(g, seqs, S, m + 1)
      BY <3>6, <3>7 DEF Flattened
    <3> QED
      BY <3>8
  <2> QED
    BY <2>1, <2>2
<1>3. n \in Nat /\ n <= n
  OBVIOUS
<1>4. n \in Found
  <2> HIDE DEF Found, n
  <2> QED
    BY <1>1, <1>2, <1>3, NatsBySteps
<1> QED
  BY <1>3, <1>4

\* FlattenSeq, which is one recursive function, does just that.
LEMMA FlattenSteps ==
  ASSUME NEW S, NEW seqs \in Seq(Seq(S))
  PROVE  \E f : Flattened(f, seqs, S, Len(seqs)) /\ FlattenSeq(seqs) = f[Len(seqs)]
<1> DEFINE n == Len(seqs)
           Iter(it) == it = [i \in 1 .. n |-> IF i = 1 THEN seqs[i] ELSE it[i - 1] \o seqs[i]]
           it == CHOOSE it : Iter(it)
<1>0. n \in Nat
  OBVIOUS
<1>1. PICK f : Flattened(f, seqs, S, n)
  BY FlattenedExists
<1>a. f[0] = << >> /\ \A i \in 1 .. n : seqs[i] \in Seq(S) /\ f[i] = f[i - 1] \o seqs[i]
  BY <1>1, SMTT(30) DEF Flattened
<1>2. CASE n = 0
  <2>1. seqs = << >>
    BY <1>2
  <2>2. FlattenSeq(seqs) = << >>
    BY <2>1 DEF FlattenSeq
  <2> QED
    BY <1>1, <1>2, <2>2 DEF Flattened
<1>3. CASE n # 0
  <2>1. FlattenSeq(seqs) = it[n]
    BY <1>3, Zenon DEF FlattenSeq
  <2>2. Iter([i \in 1 .. n |-> f[i]])
    <3>1. ASSUME NEW i \in 1 .. n
          PROVE  f[i] = IF i = 1 THEN seqs[i] ELSE [k \in 1 .. n |-> f[k]][i - 1] \o seqs[i]
      <4>1. CASE i = 1
        <5>1. f[1] = << >> \o seqs[1] /\ seqs[1] \in Seq(S)
          <6>1. f[1] = f[0] \o seqs[1]
            <7>1. 1 \in 1 .. n /\ 1 - 1 = 0
              BY <1>0, <1>3
            <7> HIDE DEF n
            <7> QED
              BY <1>a, <7>1
          <6> QED
            BY <1>a, <4>1, <6>1
        <5> QED
          BY <4>1, <5>1, ConcatEmptySeq
      <4>2. CASE i # 1
        <5>1. i - 1 \in 1 .. n
          BY <4>2
        <5> QED
          BY <1>a, <4>2, <5>1
      <4> QED
        BY <4>1, <4>2
    <3> QED
      BY <3>1
  <2>3. Iter(it)
    <3> HIDE DEF Iter
    <3> QED
      BY <2>2
  <2> HIDE DEF it
  <2>4. \A i \in 1 .. n : it[i] = IF i = 1 THEN seqs[i] ELSE it[i - 1] \o seqs[i]
    <3> HIDE DEF n
    <3> QED
      BY <2>3
  <2> HIDE DEF n, Iter
  <2> DEFINE Same == {m \in Nat : m \in 1 .. n => it[m] = f[m]}
  <2>5. 0 \in Same
    OBVIOUS
  <2>6. ASSUME NEW m \in Nat, m \in Same PROVE m + 1 \in Same
    <3>1. SUFFICES ASSUME m + 1 \in 1 .. n PROVE it[m + 1] = f[m + 1]
      OBVIOUS
    <3>2. (m + 1) - 1 = m
      OBVIOUS
    <3>3. it[m + 1] = IF m = 0 THEN seqs[m + 1] ELSE it[m] \o seqs[m + 1]
      BY <2>4, <3>1, <3>2
    <3>4. f[m + 1] = f[m] \o seqs[m + 1] /\ seqs[m + 1] \in Seq(S)
      BY <1>a, <3>1, <3>2
    <3>5. CASE m = 0
      BY <1>a, <3>3, <3>4, <3>5, ConcatEmptySeq
    <3>6. CASE m # 0
      <4>1. m \in 1 .. n
        BY <1>0, <3>1, <3>6
      <4> QED
        BY <2>6, <3>3, <3>4, <3>6, <4>1
    <3> QED
      BY <3>5, <3>6
  <2>7. n \in Same
    <3> HIDE DEF Same
    <3> QED
      BY <1>0, <2>5, <2>6, NatsBySteps
  <2>8. it[n] = f[n]
    BY <1>0, <1>3, <2>7
  <2> QED
    BY <1>1, <2>1, <2>8 DEF n
<1> QED
  BY <1>2, <1>3

\* The last of the first n positions.
LEMMA MaxOfPositions ==
  ASSUME NEW m \in Nat, NEW s \in SUBSET (1 .. m), s # {}
  PROVE  Max(s) \in s /\ \A x \in s : Max(s) >= x
<1>1. \E x \in s : \A y \in s : x >= y
  <2> DEFINE Out == {k \in Nat : \A x \in s : x <= m - k}
             Has == {k \in Nat : k <= m => \/ \A x \in s : x <= m - k
                                           \/ \E x \in s : \A y \in s : x >= y}
  <2>1. 0 \in Has
    OBVIOUS
  <2>2. ASSUME NEW k \in Nat, k \in Has PROVE k + 1 \in Has
    <3>1. CASE m - k \in s
      BY <2>2, <3>1
    <3>2. CASE m - k \notin s
      BY <2>2, <3>2
    <3> QED
      BY <3>1, <3>2
  <2>3. m \in Has
    <3> HIDE DEF Has
    <3> QED
      BY <2>1, <2>2, NatsBySteps
  <2>4. \/ \A x \in s : x <= m - m
        \/ \E x \in s : \A y \in s : x >= y
    BY <2>3
  <2>5. PICK x : x \in s /\ x >= 1
    <3>1. \E x : x \in s
      BY Zenon
    <3> QED
      BY <3>1
  <2>6. ~ (x <= m - m)
    BY <2>5
  <2> QED
    BY <2>4, <2>5, <2>6
<1>2. Max(s) = CHOOSE x \in s : \A y \in s : x >= y
  BY DEF Max
<1> QED
  BY <1>1, <1>2

\* A fold has a function that computes it over the sets of positions.
LEMMA FoldsExists ==
  ASSUME NEW base, NEW seq, NEW n \in Nat
  PROVE  \E it : Folds(it, base, seq, 1 .. n)
<1> DEFINE Good == {m \in Nat : \E it : Folds(it, base, seq, 1 .. m)}
<1>1. 0 \in Good
  <2>1. 1 .. 0 = {}
    OBVIOUS
  <2>2. Folds([s \in {{}} |-> base], base, seq, 1 .. 0)
    BY <2>1, Zenon DEF Folds
  <2> QED
    BY <2>2
<1>2. ASSUME NEW m \in Nat, m \in Good PROVE m + 1 \in Good
  <2>1. PICK it : Folds(it, base, seq, 1 .. m)
    BY <1>2
  <2> DEFINE Taken(s) == Promise!ApplyOp(it[s \ {m + 1}], seq[m + 1])
             g == [s \in SUBSET (1 .. m + 1) |-> IF m + 1 \in s THEN Taken(s) ELSE it[s]]
  <2>2. ASSUME NEW s \in SUBSET (1 .. m + 1)
        PROVE  g[s] = IF s = {} THEN base
                      ELSE Promise!ApplyOp(g[s \ {Max(s)}], seq[Max(s)])
    <3>1. CASE m + 1 \in s
      <4>1. Max(s) = m + 1
        <5>1. s # {} /\ m + 1 \in Nat
          BY <3>1
        <5>2. Max(s) \in s /\ Max(s) >= m + 1 /\ Max(s) \in 1 .. m + 1
          BY <3>1, <5>1, MaxOfPositions
        <5> QED
          BY <5>2
      <4>2. s \ {m + 1} \in SUBSET (1 .. m + 1) /\ m + 1 \notin s \ {m + 1} /\ s # {}
        BY <3>1
      <4>3. g[s \ {m + 1}] = it[s \ {m + 1}]
        BY <4>2, Zenon
      <4>4. g[s] = Taken(s)
        BY <3>1
      <4> HIDE DEF g
      <4> QED
        BY <4>1, <4>2, <4>3, <4>4
    <3>2. CASE m + 1 \notin s
      <4>1. s \in SUBSET (1 .. m)
        BY <3>2
      <4>2. it[s] = IF s = {} THEN base
                    ELSE Promise!ApplyOp(it[s \ {Max(s)}], seq[Max(s)])
        BY <2>1, <4>1, Zenon DEF Folds
      <4>3. \A r : r \in SUBSET (1 .. m + 1) /\ m + 1 \notin r => g[r] = it[r]
        BY Zenon
      <4>4. s \ {Max(s)} \in SUBSET (1 .. m + 1) /\ m + 1 \notin s \ {Max(s)}
        BY <3>2
      <4> HIDE DEF g
      <4> QED
        BY <3>2, <4>2, <4>3, <4>4
    <3> QED
      BY <3>1, <3>2
  <2>3. g = [s \in SUBSET (1 .. m + 1) |-> g[s]]
    OBVIOUS
  <2> HIDE DEF g
  <2>4. Folds(g, base, seq, 1 .. m + 1)
    BY <2>2, <2>3, Zenon DEF Folds
  <2> QED
    BY <2>4
<1>3. n \in Good
  <2> HIDE DEF Good
  <2> QED
    BY <1>1, <1>2, NatsBySteps
<1> QED
  BY <1>3

\* A fold along a sequence, position by position.
LEMMA FoldsStepwise ==
  ASSUME NEW base, NEW seq, NEW n \in Nat,
         NEW it, Folds(it, base, seq, 1 .. n)
  PROVE  Stepwise(it, base, seq, n)
<1>1. \A s \in SUBSET (1 .. n) :
        it[s] = IF s = {} THEN base
                ELSE Promise!ApplyOp(it[s \ {Max(s)}], seq[Max(s)])
  BY Zenon DEF Folds
<1>2. 1 .. 0 = {} /\ {} \in SUBSET (1 .. n)
  OBVIOUS
<1>3. ASSUME NEW i \in 1 .. n
      PROVE  it[1 .. i] = Promise!ApplyOp(it[1 .. i - 1], seq[i])
  <2>1. 1 .. i \in SUBSET (1 .. n) /\ i \in 1 .. i /\ 1 .. i # {}
    <3>1. i \in Nat /\ 1 <= i /\ i <= n
      OBVIOUS
    <3> QED
      BY <3>1
  <2>2. Max(1 .. i) = i
    <3>1. Max(1 .. i) \in 1 .. i /\ Max(1 .. i) >= i
      BY <2>1, MaxOfPositions
    <3> QED
      BY <3>1
  <2>3. (1 .. i) \ {i} = 1 .. i - 1
    OBVIOUS
  <2> QED
    BY <1>1, <2>1, <2>2, <2>3
<1> QED
  BY <1>1, <1>2, <1>3 DEF Stepwise

\* A transaction is applied operation by operation.
LEMMA AppliedSteps ==
  ASSUME NEW base, NEW ops, NEW n \in Nat, DOMAIN ops = 1 .. n
  PROVE  \E f : /\ f[0] = base /\ f[n] = Applied(base, ops)
                /\ \A i \in 1 .. n : f[i] = Promise!ApplyOp(f[i - 1], ops[i])
<1> DEFINE it == CHOOSE it : Folds(it, base, ops, 1 .. n)
<1>1. Applied(base, ops) = it[1 .. n]
  BY Zenon DEF Applied, Folds, Promise!FoldLeft, Promise!MapThenFoldSet, Promise!Max, Max, Promise!ApplyOp
<1>2. Folds(it, base, ops, 1 .. n)
  BY FoldsExists
<1> HIDE DEF it
<1>3. Stepwise(it, base, ops, n)
  BY <1>2, FoldsStepwise
<1> DEFINE f == [i \in 0 .. n |-> it[1 .. i]]
<1>4. \A i \in 0 .. n : f[i] = it[1 .. i]
  OBVIOUS
<1>5. 0 \in 0 .. n /\ n \in 0 .. n /\ \A i \in 1 .. n : i \in 0 .. n /\ i - 1 \in 0 .. n
  OBVIOUS
<1> HIDE DEF f
<1>6. /\ f[0] = base /\ f[n] = Applied(base, ops)
      /\ \A i \in 1 .. n : f[i] = Promise!ApplyOp(f[i - 1], ops[i])
  BY <1>1, <1>3, <1>4, <1>5 DEF Stepwise
<1> QED
  BY <1>6

\* What ApplyOp does.
LEMMA ApplyOpDoes ==
  ASSUME NEW rrs, NEW op
  PROVE  Promise!ApplyOp(rrs, op) = IF op.op = "add" THEN rrs \cup {op.rr} ELSE {rr \in rrs : ~Deletes(op, rr)}
BY DEF Promise!ApplyOp, Promise!Deletes, Deletes

\* No operation makes nothing.
LEMMA AppliedNone == \A base : Applied(base, << >>) = base
<1> TAKE base
<1>1. DOMAIN << >> = 1 .. 0
  OBVIOUS
<1>2. PICK f : f[0] = base /\ f[0] = Applied(base, << >>)
  BY <1>1, AppliedSteps
<1> QED
  BY <1>2

\* One more operation is applied last.
LEMMA AppliedAppend ==
  ASSUME NEW base, NEW done \in Seq(GsqlOps), NEW op \in GsqlOps
  PROVE  Applied(base, Append(done, op)) = Promise!ApplyOp(Applied(base, done), op)
<1> DEFINE all == Append(done, op)
           n == Len(done)
<1>1. /\ n \in Nat /\ DOMAIN all = 1 .. n + 1 /\ DOMAIN done = 1 .. n
      /\ \A i \in 1 .. n : all[i] = done[i]
      /\ all[n + 1] = op
  BY AppendedOp
<1> HIDE DEF all, n
<1>2. PICK f : /\ f[0] = base /\ f[n] = Applied(base, done)
               /\ \A i \in 1 .. n : f[i] = Promise!ApplyOp(f[i - 1], done[i])
  BY <1>1, AppliedSteps
<1>3. n + 1 \in Nat
  BY <1>1
<1>4. PICK g : /\ g[0] = base /\ g[n + 1] = Applied(base, all)
               /\ \A i \in 1 .. n + 1 : g[i] = Promise!ApplyOp(g[i - 1], all[i])
  BY <1>1, <1>3, AppliedSteps
<1> DEFINE Same == {m \in Nat : m <= n => f[m] = g[m]}
<1>5. 0 \in Same
  BY <1>2, <1>4
<1>6. ASSUME NEW m \in Nat, m \in Same PROVE m + 1 \in Same
  <2>1. SUFFICES ASSUME m + 1 <= n PROVE f[m + 1] = g[m + 1]
    OBVIOUS
  <2>2. m + 1 \in 1 .. n /\ m + 1 \in 1 .. n + 1 /\ (m + 1) - 1 = m /\ m <= n
    BY <1>1, <2>1
  <2>3. f[m] = g[m]
    BY <1>6, <2>2
  <2> HIDE DEF Same
  <2> QED
    BY <1>1, <1>2, <1>4, <2>2, <2>3
<1>7. f[n] = g[n]
  <2>1. n \in Same
    <3> HIDE DEF Same
    <3> QED
      BY <1>1, <1>5, <1>6, NatsBySteps
  <2> QED
    BY <1>1, <2>1
<1>8. n + 1 \in 1 .. n + 1 /\ (n + 1) - 1 = n
  BY <1>1
<1> QED
  BY <1>1, <1>2, <1>4, <1>7, <1>8 DEF all

\* What is left of the records there were, and what the operations make of none.
LEMMA AppliedParts ==
  ASSUME NEW base, NEW ops \in Seq(GsqlOps)
  PROVE  Applied(base, ops) =
           {rr \in base : \A i \in DOMAIN ops : ~Deletes(ops[i], rr)} \cup Applied({}, ops)
<1> DEFINE n == Len(ops)
           Left(m) == {rr \in base : \A i \in 1 .. m : ~Deletes(ops[i], rr)}
<1>1. n \in Nat /\ DOMAIN ops = 1 .. n
  OBVIOUS
<1> HIDE DEF n
<1>2. PICK f : /\ f[0] = base /\ f[n] = Applied(base, ops)
               /\ \A i \in 1 .. n : f[i] = Promise!ApplyOp(f[i - 1], ops[i])
  BY <1>1, AppliedSteps
<1>3. PICK g : /\ g[0] = {} /\ g[n] = Applied({}, ops)
               /\ \A i \in 1 .. n : g[i] = Promise!ApplyOp(g[i - 1], ops[i])
  BY <1>1, AppliedSteps
<1> DEFINE Good == {m \in Nat : m <= n => f[m] = Left(m) \cup g[m]}
<1>4. 0 \in Good
  BY <1>2, <1>3
<1>5. ASSUME NEW m \in Nat, m \in Good PROVE m + 1 \in Good
  <2>1. SUFFICES ASSUME m + 1 <= n PROVE f[m + 1] = Left(m + 1) \cup g[m + 1]
    OBVIOUS
  <2>2. m + 1 \in 1 .. n /\ (m + 1) - 1 = m /\ m <= n
    BY <1>1, <2>1
  <2>3. f[m] = Left(m) \cup g[m]
    BY <1>5, <2>2
  <2>4. /\ f[m + 1] = Promise!ApplyOp(f[m], ops[m + 1])
        /\ g[m + 1] = Promise!ApplyOp(g[m], ops[m + 1])
    <3> HIDE DEF Good, Left
    <3> QED
      BY <1>2, <1>3, <2>2
  <2>5. Left(m + 1) = {rr \in Left(m) : ~Deletes(ops[m + 1], rr)}
    <3>1. \A i : i \in 1 .. m + 1 <=> i \in 1 .. m \/ i = m + 1
      OBVIOUS
    <3> QED
      BY <3>1
  <2> HIDE DEF Good, Left
  <2>6. CASE ops[m + 1].op = "add"
    <3>1. \A rr : ~Deletes(ops[m + 1], rr)
      BY <2>6 DEF Deletes
    <3> QED
      BY <2>3, <2>4, <2>5, <2>6, <3>1, ApplyOpDoes
  <2>7. CASE ops[m + 1].op # "add"
    BY <2>3, <2>4, <2>5, <2>7, ApplyOpDoes
  <2> QED
    BY <2>6, <2>7
<1>6. n \in Good
  <2> HIDE DEF Good
  <2> QED
    BY <1>1, <1>4, <1>5, NatsBySteps
<1>7. f[n] = Left(n) \cup g[n]
  BY <1>1, <1>6
<1> QED
  BY <1>1, <1>2, <1>3, <1>7

\* The first sequence of several comes first.
LEMMA FlattenHead ==
  ASSUME NEW S, NEW seqs \in Seq(Seq(S)), seqs # << >>
  PROVE  /\ FlattenSeq(seqs) = seqs[1] \o FlattenSeq(Tail(seqs))
         /\ seqs[1] \in Seq(S) /\ FlattenSeq(Tail(seqs)) \in Seq(S)
<1> DEFINE rest == Tail(seqs)
           n == Len(rest)
<1>1. /\ rest \in Seq(Seq(S)) /\ n \in Nat /\ Len(seqs) = n + 1 /\ DOMAIN seqs = 1 .. n + 1
      /\ \A i \in 1 .. n : rest[i] = seqs[i + 1] /\ rest[i] \in Seq(S)
      /\ seqs[1] \in Seq(S)
  <2>1. Len(seqs) \in Nat /\ Len(seqs) # 0 /\ rest \in Seq(Seq(S)) /\ Len(rest) = Len(seqs) - 1
    BY HeadTailProperties, EmptySeq
  <2>2. \A i \in 1 .. Len(rest) : rest[i] = seqs[i + 1]
    BY HeadTailProperties
  <2>3. \A i \in 1 .. Len(rest) : rest[i] \in Seq(S)
    BY <2>1, ElementOfSeq
  <2>4. seqs[1] \in Seq(S)
    BY <2>1, ElementOfSeq
  <2> QED
    BY <2>1, <2>2, <2>3, <2>4
<1>2. PICK f : Flattened(f, seqs, S, Len(seqs)) /\ FlattenSeq(seqs) = f[Len(seqs)]
  BY FlattenSteps
<1>3. PICK g : Flattened(g, rest, S, n) /\ FlattenSeq(rest) = g[n]
  BY <1>1, FlattenSteps
<1> HIDE DEF rest, n
<1>4. f[0] = << >> /\ \A i \in 1 .. n + 1 : f[i] = f[i - 1] \o seqs[i]
  BY <1>1, <1>2 DEF Flattened
<1>5. g[0] = << >> /\ \A i \in 1 .. n : g[i] = g[i - 1] \o rest[i] /\ g[i - 1] \in Seq(S)
  <2>1. \A i \in 1 .. n : i - 1 \in 0 .. n
    BY <1>1
  <2> QED
    BY <1>1, <1>3, <2>1 DEF Flattened
<1> DEFINE Joined(m) == seqs[1] \o g[m]
           Good == {m \in Nat : m <= n => f[m + 1] = Joined(m)}
<1>6. 0 \in Good
  <2>1. f[1] = << >> \o seqs[1]
    <3>1. 1 \in 1 .. n + 1 /\ 1 - 1 = 0
      BY <1>1
    <3> QED
      BY <1>4, <3>1
  <2>2. << >> \o seqs[1] = seqs[1] /\ seqs[1] \o << >> = seqs[1]
    BY <1>1, ConcatEmptySeq
  <2>3. f[0 + 1] = Joined(0)
    BY <1>5, <2>1, <2>2
  <2> HIDE DEF Joined
  <2> QED
    BY <2>3
<1>7. ASSUME NEW m \in Nat, m \in Good PROVE m + 1 \in Good
  <2>1. SUFFICES ASSUME m + 1 <= n PROVE f[(m + 1) + 1] = Joined(m + 1)
    <3> HIDE DEF Joined
    <3> QED
      OBVIOUS
  <2>2. /\ m + 1 \in 1 .. n /\ (m + 1) - 1 = m /\ m <= n
        /\ (m + 1) + 1 \in 1 .. n + 1 /\ ((m + 1) + 1) - 1 = m + 1
    BY <1>1, <2>1
  <2>3. f[m + 1] = Joined(m)
    <3> HIDE DEF Joined
    <3> QED
      BY <1>7, <2>2
  <2> HIDE DEF Good
  <2>4. f[(m + 1) + 1] = f[m + 1] \o seqs[(m + 1) + 1]
    BY <1>4, <2>2
  <2>5. g[m + 1] = g[m] \o rest[m + 1] /\ rest[m + 1] = seqs[(m + 1) + 1] /\ rest[m + 1] \in Seq(S)
        /\ g[m] \in Seq(S)
    BY <1>1, <1>5, <2>2
  <2>6. (seqs[1] \o g[m]) \o rest[m + 1] = seqs[1] \o (g[m] \o rest[m + 1])
    <3> DEFINE a == seqs[1]
               b == g[m]
               c == rest[m + 1]
    <3>1. a \in Seq(S) /\ b \in Seq(S) /\ c \in Seq(S)
      BY <1>1, <2>5
    <3> HIDE DEF a, b, c
    <3>2. Associates(a, b, c)
      BY <3>1, Associative, Zenon
    <3> QED
      BY <3>2 DEF Associates, a, b, c
  <2> QED
    BY <2>3, <2>4, <2>5, <2>6, Zenon
<1>8. n \in Good
  <2> HIDE DEF Good
  <2> QED
    BY <1>1, <1>6, <1>7, NatsBySteps
<1>9. f[n + 1] = Joined(n)
  <2> HIDE DEF Joined
  <2> QED
    BY <1>1, <1>8
<1>10. g[n] \in Seq(S)
  BY <1>1, <1>3 DEF Flattened
<1> QED
  BY <1>1, <1>2, <1>3, <1>9, <1>10 DEF rest

\* Sequences laid end to end are a sequence.
LEMMA FlattenIsSeq ==
  ASSUME NEW S, NEW seqs \in Seq(Seq(S))
  PROVE  FlattenSeq(seqs) \in Seq(S) /\ (seqs = << >> => FlattenSeq(seqs) = << >>)
<1>1. PICK f : Flattened(f, seqs, S, Len(seqs)) /\ FlattenSeq(seqs) = f[Len(seqs)]
  BY FlattenSteps
<1>2. Len(seqs) \in 0 .. Len(seqs)
  BY LenProperties
<1>3. seqs = << >> => Len(seqs) = 0
  OBVIOUS
<1> QED
  BY <1>1, <1>2, <1>3 DEF Flattened

\* The ids that were given out, and the records of the tables.
StoreInv ==
  /\ dialect \in {"sqlite", "pgsql"}
  /\ lastDom \in Nat /\ Ids(domains) \subseteq 1 .. lastDom
  /\ \A d \in domains : d = [id |-> d.id, name |-> d.name]
  /\ \A c, d \in domains : c.id = d.id => c = d
  /\ \A r \in rows : r.rr \in GsqlRecords
  /\ dialect = "pgsql" => \A r \in rows : r.dom \in 0 .. lastDom

\* The ids of the rows that a session deletes or gives a new serial.
Touched(s) == s.del \cup {p[1] : p \in s.set}

\* They are of rows that everybody sees, or of its own.
TouchedInv ==
  \A w \in Writers :
    /\ Touched(session[w]) \subseteq 1 .. lastRow
    /\ \A v \in Writers \ {w} : \A r \in session[v].ins : r.id \notin Touched(session[w])

\* What an open transaction, no statement of which failed, has made of its request:
\* its own rows are what its statements make of nothing; it deletes what they name,
\* and gives serials to SOA records only; it leaves out none.
Work(w) ==
  LET t == tx[w]
      s == session[w]
  IN  /\ \E req \in Requests : FlattenSeq(req.calls) = t.done \o FlattenSeq(t.calls)
      /\ pc[w] # "statement" => t.calls = << >>
      /\ {r.rr : r \in s.ins} = Promise!WithSerial(Applied({}, t.done), IF pc[w] = "commit" THEN t.serial ELSE {})
      /\ \A r \in rows : r.id \in s.del => \E i \in DOMAIN t.done : Deletes(t.done[i], r.rr)
      /\ \A p \in s.set : p[2] \in t.serial /\ \A r \in rows : r.id = p[1] => r.rr.type = "SOA"
      /\ \A r \in rows : r.dom = t.dom /\ r.id \notin s.del =>
           /\ \A i \in DOMAIN t.done : ~Deletes(t.done[i], r.rr)
           /\ pc[w] = "commit" /\ t.serial # {} /\ r.rr.type = "SOA" => \E p \in s.set : p[1] = r.id

\* A writer works on a request, in the domain it found or made and in no other.
TxPromise(w) ==
  /\ session[w].state = "none" => session[w] = NoSession
  /\ \A r \in session[w].ins : r.rr \in GsqlRecords /\ r.dom = tx[w].dom
  /\ \A p \in session[w].set : p[2] \in Nat
  /\ \A r \in rows : r.id \in Touched(session[w]) => r.dom = tx[w].dom
  /\ dialect = "pgsql" => tx[w].dom \in 0 .. lastDom
  /\ tx[w].serial \in {{}} \cup {{n} : n \in 0 .. SerialMod - 1}
  /\ pc[w] \notin {"serial", "commit"} => tx[w].serial = {}
  /\ pc[w] \in {"domain", "apex"} =>
       \E req \in Requests : req.soa # << >> /\ tx[w].soa = req.soa /\ req.soa[1].name = tx[w].zone
  /\ pc[w] # "idle" /\ ~InTransaction(w) => \E req \in Requests : tx[w].calls = req.calls
  /\ InTransaction(w) /\ tx[w].hurt = FALSE => Work(w)

PromiseInv == StoreInv /\ TouchedInv /\ \A w \in Writers : TxPromise(w)

\* Without a serial nothing is renumbered, and a serial goes into SOA records only.
LEMMA WithSerialDoes ==
  /\ \A rrs : Promise!WithSerial(rrs, {}) = rrs
  /\ \A rrs, n : Promise!WithSerial(rrs, {n}) = {IF rr.type = "SOA" THEN [rr EXCEPT !.num = n] ELSE rr : rr \in rrs}
  /\ \A rrs, more, serial :
       Promise!WithSerial(rrs \cup more, serial) = Promise!WithSerial(rrs, serial) \cup Promise!WithSerial(more, serial)
<1>1. \A rrs : Promise!WithSerial(rrs, {}) = rrs
  BY DEF Promise!WithSerial
<1>2. \A n : (CHOOSE s \in {n} : TRUE) = n /\ {n} # {}
  OBVIOUS
<1>3. ASSUME NEW rrs, NEW n
      PROVE  Promise!WithSerial(rrs, {n}) = {IF rr.type = "SOA" THEN [rr EXCEPT !.num = n] ELSE rr : rr \in rrs}
  BY <1>2 DEF Promise!WithSerial
<1>4. ASSUME NEW rrs, NEW more, NEW serial
      PROVE  Promise!WithSerial(rrs \cup more, serial) =
               Promise!WithSerial(rrs, serial) \cup Promise!WithSerial(more, serial)
  BY DEF Promise!WithSerial
<1> QED
  BY <1>1, <1>3, <1>4

\* A new serial leaves rows of records such rows.
LEMMA RenumberTyped ==
  ASSUME NEW rws, NEW set, \A r \in rws : IsFullRow(r) /\ r.rr \in GsqlRecords, \A p \in set : p[2] \in Nat
  PROVE  \A s \in Renumber(rws, set) :
           /\ s.rr \in GsqlRecords
           /\ \E r \in rws : s.id = r.id /\ s.dom = r.dom /\ s.rr.name = r.rr.name /\ s.rr.type = r.rr.type
<1> TAKE s \in Renumber(rws, set)
<1>1. PICK r \in rws : s = Renumbered(r, set)
  BY RenumberRows
<1>2. /\ s.id = r.id /\ s.dom = r.dom /\ s.rr.name = r.rr.name /\ s.rr.type = r.rr.type
  BY <1>1, RenumberedRow
<1>3. s.rr \in GsqlRecords
  <2>1. CASE \E p \in set : p[1] = r.id
    <3> DEFINE num == (CHOOSE p \in set : p[1] = r.id)[2]
    <3>1. num \in Nat
      BY <2>1
    <3>2. s = [r EXCEPT !.rr.num = num]
      BY <1>1, <2>1 DEF Renumbered
    <3> HIDE DEF num
    <3>3. r = [id |-> r.id, dom |-> r.dom, rr |-> r.rr]
      BY DEF IsFullRow, IsRow
    <3>4. s.rr = [r.rr EXCEPT !.num = num]
      BY <3>2, <3>3
    <3> QED
      BY <3>1, <3>4 DEF GsqlRecords, RRs
  <2>2. CASE ~\E p \in set : p[1] = r.id
    BY <1>1, <2>2 DEF Renumbered
  <2> QED
    BY <2>1, <2>2
<1> QED
  BY <1>2, <1>3

\* What a step of writer w makes of the tables' rows: those that were there, under
\* a new serial perhaps, those of its session, and one with the next id.
RowsEvolve(w) ==
  /\ lastRow' \in {lastRow, lastRow + 1}
  /\ \A r \in rows' :
       \/ \E s \in rows : r.id = s.id /\ r.dom = s.dom /\ r.rr.name = s.rr.name /\ r.rr.type = s.rr.type
       \/ r.id = lastRow + 1
       \/ \E s \in session[w].ins : r.id = s.id

\* What it makes of its session's.
SessionEvolves(w) ==
  /\ \A r \in session'[w].ins :
       \/ r.id = lastRow + 1 /\ lastRow' = lastRow + 1
       \/ \E s \in session[w].ins : r.id = s.id
  /\ Touched(session'[w]) \subseteq Touched(session[w]) \cup {r.id : r \in Sees(w)}

\* A step gives no session an id to touch that is not its own or everybody's.
LEMMA TouchedKept ==
  ASSUME RowIds, TouchedInv, NEW w \in Writers, OthersStay(w), RowsEvolve(w), SessionEvolves(w)
  PROVE  TouchedInv'
<1>1. lastRow \in Nat /\ lastRow' \in Nat /\ lastRow <= lastRow'
  BY DEF RowIds, RowsEvolve
<1>2. Sees(w) \subseteq rows \cup session[w].ins /\ \A r \in rows \cup session[w].ins : r.id \in 1 .. lastRow
  BY DEF Sees, RowIds
<1>3. \A v \in Writers \ {w} : session'[v] = session[v] /\ Touched(session'[v]) = Touched(session[v])
  BY DEF OthersStay
<1>4. ASSUME NEW v \in Writers PROVE Touched(session'[v]) \subseteq 1 .. lastRow'
  <2>1. Touched(session[v]) \subseteq 1 .. lastRow /\ 1 .. lastRow \subseteq 1 .. lastRow'
    BY <1>1 DEF TouchedInv
  <2>2. CASE v = w
    BY <1>2, <2>1, <2>2 DEF SessionEvolves
  <2>3. CASE v # w
    BY <1>3, <2>1, <2>3
  <2> QED
    BY <2>2, <2>3
<1>5. ASSUME NEW u \in Writers, NEW v \in Writers \ {u}, NEW r \in session'[v].ins
      PROVE  r.id \notin Touched(session'[u])
  <2>1. CASE u = w
    <3>1. r \in session[v].ins
      BY <1>3, <2>1
    <3>2. r.id \notin Touched(session[u])
      BY <3>1 DEF TouchedInv
    <3>3. \A s \in rows \cup session[w].ins : s.id # r.id
      BY <2>1, <3>1 DEF RowIds
    <3> QED
      BY <1>2, <2>1, <3>2, <3>3 DEF SessionEvolves
  <2>2. CASE u # w /\ v = w
    <3>1. Touched(session[u]) \subseteq 1 .. lastRow
      BY DEF TouchedInv
    <3>2. \A s \in session[v].ins : s.id \notin Touched(session[u])
      BY DEF TouchedInv
    <3>3. r.id = lastRow + 1 \/ \E s \in session[w].ins : r.id = s.id
      BY <2>2 DEF SessionEvolves
    <3> QED
      BY <1>1, <1>3, <2>2, <3>1, <3>2, <3>3
  <2>3. CASE u # w /\ v # w
    BY <1>3, <2>3 DEF TouchedInv
  <2> QED
    BY <2>1, <2>2, <2>3
<1> QED
  BY <1>4, <1>5 DEF TouchedInv

\* What a step of a writer leaves of another's transaction.
LEMMA OthersPromise ==
  ASSUME TablesInv, WrittenInv, PromiseInv, NEW w \in Writers, Receive(w) \/ Run(w), OthersStay(w), RowsEvolve(w),
         UNCHANGED dialect, lastDom' \in Nat, dialect = "pgsql" => lastDom <= lastDom',
         NEW v \in Writers \ {w}
  PROVE  TxPromise(v)'
<1>1. pc'[v] = pc[v] /\ tx'[v] = tx[v] /\ session'[v] = session[v] /\ TxPromise(v) /\ TxWritten(v)
  BY DEF OthersStay, PromiseInv, WrittenInv
<1>2. InTransaction(v)' <=> InTransaction(v)
  BY <1>1 DEF InTransaction
<1>3. lastDom \in Nat /\ (dialect = "pgsql" => tx[v].dom \in 0 .. lastDom')
  BY <1>1 DEF PromiseInv, StoreInv, TxPromise
<1>4. \A r \in rows' : r.id \in Touched(session[v]) =>
        \E x \in rows : r.id = x.id /\ r.dom = x.dom /\ r.rr.name = x.rr.name /\ r.rr.type = x.rr.type
  <2> DEFINE s == session[v]
  <2>1. Touched(s) \subseteq 1 .. lastRow /\ \A x \in session[w].ins : x.id \notin Touched(s)
    BY DEF PromiseInv, TouchedInv
  <2>2. lastRow \in Nat
    BY DEF WrittenInv, RowIds
  <2> HIDE DEF s
  <2>3. \A r \in rows' : r.id \in Touched(s) =>
          \E x \in rows : r.id = x.id /\ r.dom = x.dom /\ r.rr.name = x.rr.name /\ r.rr.type = x.rr.type
    BY <2>1, <2>2 DEF RowsEvolve
  <2> QED
    BY <2>3 DEF s
<1>5. \A r \in rows' : r.id \in Touched(session'[v]) => r.dom = tx'[v].dom
  BY <1>1, <1>4 DEF TxPromise
<1>6. ASSUME InTransaction(v), tx[v].hurt = FALSE PROVE Work(v)'
  <2>1. Work(v) /\ session[v].state = "open"
    BY <1>1, <1>6 DEF TxPromise, TxWritten, SessionWritten
  <2>2. rows' \subseteq rows
    BY <2>1, OthersOnlyDelete
  <2> DEFINE t == tx[v]
             s == session[v]
  <2>3. \A r \in rows' : r.id \in s.del => \E i \in DOMAIN t.done : Deletes(t.done[i], r.rr)
    <3> SUFFICES ASSUME NEW r \in rows', r.id \in s.del PROVE \E i \in DOMAIN t.done : Deletes(t.done[i], r.rr)
      OBVIOUS
    <3>1. PICK x \in rows : r.id = x.id /\ r.dom = x.dom /\ r.rr.name = x.rr.name /\ r.rr.type = x.rr.type
      BY <1>4 DEF Touched
    <3>2. \E i \in DOMAIN t.done : Deletes(t.done[i], x.rr)
      BY <2>1, <3>1 DEF Work
    <3> QED
      BY <3>1, <3>2 DEF Deletes
  <2>4. \A p \in s.set : p[2] \in t.serial /\ \A r \in rows' : r.id = p[1] => r.rr.type = "SOA"
    <3> SUFFICES ASSUME NEW p \in s.set
                 PROVE  p[2] \in t.serial /\ \A r \in rows' : r.id = p[1] => r.rr.type = "SOA"
      OBVIOUS
    <3>1. p[2] \in t.serial /\ \A r \in rows : r.id = p[1] => r.rr.type = "SOA"
      BY <2>1 DEF Work
    <3>2. p[1] \in Touched(s)
      BY DEF Touched
    <3> QED
      BY <1>4, <3>1, <3>2
  <2>5. Applied({}, t.done)' = Applied({}, t.done)
    BY <1>1
  <2>6. \A r \in rows' : r.dom = t.dom /\ r.id \notin s.del =>
          /\ \A i \in DOMAIN t.done : ~Deletes(t.done[i], r.rr)
          /\ pc[v] = "commit" /\ t.serial # {} /\ r.rr.type = "SOA" => \E p \in s.set : p[1] = r.id
    BY <2>1, <2>2 DEF Work
  <2> QED
    BY <1>1, <2>1, <2>3, <2>4, <2>5, <2>6 DEF Work
<1> QED
  BY <1>1, <1>2, <1>3, <1>5, <1>6 DEF TxPromise

\* A step keeps the tables, and what is said of its writer.
StepPromise(w) ==
  /\ UNCHANGED dialect /\ lastDom' \in Nat /\ (dialect = "pgsql" => lastDom <= lastDom')
  /\ StoreInv' /\ RowsEvolve(w) /\ SessionEvolves(w) /\ TxPromise(w)'

\* A step that leaves the domains, and has typed rows, keeps the tables.
LEMMA StoreKept ==
  ASSUME StoreInv, UNCHANGED <<dialect, domains, lastDom>>,
         \A r \in rows' : r.rr \in GsqlRecords /\ (dialect = "pgsql" => r.dom \in 0 .. lastDom)
  PROVE  StoreInv' /\ lastDom' \in Nat /\ (dialect = "pgsql" => lastDom <= lastDom')
BY DEF StoreInv

\* A writer that is in no transaction, before a step or after.
LEMMA NoTransaction ==
  ASSUME ControlInv, NEW w \in Writers, TxPromise(w), ~InTransaction(w)
  PROVE  session[w] = NoSession /\ session[w].ins = {} /\ Touched(session[w]) = {}
<1>1. session[w] = NoSession
  BY DEF ControlInv, TxPromise
<1>2. NoSession.ins = {} /\ NoSession.del = {} /\ NoSession.set = {}
  BY DEF NoSession
<1> QED
  BY <1>1, <1>2 DEF Touched

\* After its step a writer is in no transaction.
LEMMA OutsidePromise ==
  ASSUME NEW w \in Writers, session'[w] = NoSession, ~InTransaction(w)', tx'[w].serial = {},
         dialect' = "pgsql" => tx'[w].dom \in 0 .. lastDom',
         pc'[w] \in {"domain", "apex"} =>
           \E req \in Requests : req.soa # << >> /\ tx'[w].soa = req.soa /\ req.soa[1].name = tx'[w].zone,
         pc'[w] # "idle" => \E req \in Requests : tx'[w].calls = req.calls
  PROVE  TxPromise(w)' /\ SessionEvolves(w)
<1>1. NoSession.ins = {} /\ NoSession.del = {} /\ NoSession.set = {}
  BY DEF NoSession
<1>2. SessionEvolves(w) /\ Touched(session'[w]) = {}
  BY <1>1 DEF SessionEvolves, Touched
<1> QED
  BY <1>1, <1>2 DEF TxPromise

\* It has replied.
LEMMA RestPromise ==
  ASSUME ControlInv, NEW w \in Writers, Reply(w), lastDom' \in Nat
  PROVE  TxPromise(w)' /\ SessionEvolves(w)
<1>1. tx'[w] = NoTx /\ session'[w] = NoSession /\ pc'[w] = "idle"
  BY DEF ControlInv, Reply, Goto
<1>2. ~InTransaction(w)' /\ tx'[w].serial = {} /\ tx'[w].dom = 0
  BY <1>1 DEF InTransaction, NoTx
<1> QED
  BY <1>1, <1>2, OutsidePromise

\* A transaction that goes on with the rows and the statements it has.
LEMMA WorkGoesOn ==
  ASSUME NEW w \in Writers, TxPromise(w), UNCHANGED <<dialect, rows, lastDom>>, session'[w] = session[w],
         InTransaction(w), InTransaction(w)', pc[w] # "commit", pc[w] # "serial",
         tx'[w].done = tx[w].done, tx'[w].dom = tx[w].dom, tx'[w].hurt = tx[w].hurt,
         tx'[w].serial \in {{}} \cup {{n} : n \in 0 .. SerialMod - 1},
         pc'[w] # "serial" => tx'[w].serial = {},
         pc'[w] # "statement" => tx'[w].calls = << >>,
         Work(w) => FlattenSeq(tx'[w].calls) = FlattenSeq(tx[w].calls),
         tx[w].hurt = FALSE => session[w].set = {}
  PROVE  TxPromise(w)' /\ SessionEvolves(w)
<1>1. SessionEvolves(w)
  BY DEF SessionEvolves, Touched
<1>2. session'[w].state = "none" => session'[w] = NoSession
  BY DEF TxPromise
<1>3. pc'[w] \notin {"domain", "apex", "idle"} /\ tx[w].serial = {}
  BY DEF InTransaction, TxPromise
<1>4. ASSUME tx[w].hurt = FALSE PROVE Work(w)'
  <2>1. Work(w) /\ session[w].set = {}
    BY <1>4 DEF TxPromise
  <2>2. \E req \in Requests : FlattenSeq(req.calls) = tx'[w].done \o FlattenSeq(tx'[w].calls)
    BY <2>1 DEF Work
  <2>3. {r.rr : r \in session[w].ins} = Promise!WithSerial(Applied({}, tx[w].done), {})
    BY <2>1 DEF Work
  <2>4. {r.rr : r \in session'[w].ins} =
          Promise!WithSerial(Applied({}, tx'[w].done), IF pc'[w] = "commit" THEN tx'[w].serial ELSE {})
    BY <2>3
  <2> QED
    BY <2>1, <2>2, <2>4 DEF Work
<1> QED
  BY <1>1, <1>2, <1>3, <1>4 DEF TxPromise

\* The steps that find the zone and begin.
LEMMA SearchStepsPromise ==
  ASSUME TablesInv, WrittenInv, PromiseInv, NEW w \in Writers,
         Receive(w) \/ Find(w) \/ Own(w) \/ Begin(w) \/ ReadSoa(w)
  PROVE  StepPromise(w)
<1>0. /\ ControlInv /\ RowIds /\ TxWritten(w) /\ StoreInv /\ TxPromise(w) /\ lastDom \in Nat
      /\ TxFields \subseteq DOMAIN tx[w] /\ DOMAIN tx = Writers /\ DOMAIN pc = Writers /\ DOMAIN session = Writers
      /\ tx[w].then \in {"idle", "begin", "empty", "soa"}
  BY DEF TablesInv, WrittenInv, ControlInv, TxWritten, PromiseInv, StoreInv
<1>1. UNCHANGED <<dialect, tables>>
  BY DEF Receive, Find, Own, Begin, ReadSoa
<1>2. UNCHANGED <<dialect, domains, rows, lastDom, lastRow>>
  BY <1>1 DEF tables
<1>3. /\ StoreInv' /\ lastDom' \in Nat /\ (dialect = "pgsql" => lastDom <= lastDom')
      /\ RowsEvolve(w)
  BY <1>0, <1>2, StoreKept DEF StoreInv, RowsEvolve
<1>4. SUFFICES TxPromise(w)' /\ SessionEvolves(w)
  BY <1>2, <1>3 DEF StepPromise
<1>5. CASE Reply(w)
  BY <1>0, <1>3, <1>5, RestPromise
<1>6. CASE Receive(w)
  <2>1. PICK req \in Requests :
          /\ pc[w] = "idle"
          /\ tx' = [tx EXCEPT ![w] = [NoTx EXCEPT !.kind = req.kind, !.zone = req.zone,
                                     !.at = req.zone, !.calls = req.calls, !.soa = req.soa]]
          /\ pc' = [pc EXCEPT ![w] = IF req.kind = "POST" THEN "domain" ELSE "find"]
          /\ UNCHANGED session
    BY <1>6 DEF Receive, Goto
  <2>2. /\ tx'[w].serial = {} /\ tx'[w].dom = 0 /\ tx'[w].calls = req.calls
        /\ tx'[w].soa = req.soa /\ tx'[w].zone = req.zone
    BY <1>0, <2>1 DEF NoTx
  <2>3. pc'[w] = IF req.kind = "POST" THEN "domain" ELSE "find"
    BY <1>0, <2>1
  <2>4. ~InTransaction(w) /\ ~InTransaction(w)'
    BY <2>1, <2>3 DEF InTransaction
  <2>5. session'[w] = NoSession
    BY <1>0, <2>1, <2>4, NoTransaction
  <2>6. req.kind = "POST" => req.soa # << >> /\ req.soa[1].name = req.zone
    BY RecordsAssumption
  <2> QED
    BY <1>0, <1>3, <2>2, <2>3, <2>4, <2>5, <2>6, OutsidePromise
<1>7. CASE Find(w) /\ ~Reply(w)
  <2>1. pc[w] = "find" /\ ~InTransaction(w) /\ session' = session
    BY <1>7, ZenonT(40) DEF Find, InTransaction
  <2>2. \/ /\ pc'[w] = "own"
           /\ \E zone : \E d \in domains, next \in {"begin", "empty"} :
                tx'[w] = [tx[w] EXCEPT !.zone = zone, !.dom = d.id, !.then = next]
        \/ pc'[w] = "find" /\ \E n : tx'[w] = [tx[w] EXCEPT !.at = n]
    <3> DEFINE t == tx[w]
               hits == {d \in domains : d.name = t.at}
               next == IF t.kind = "DELETE" THEN "empty" ELSE "begin"
    <3>1. CASE \E d \in hits : tx' = [tx EXCEPT ![w].zone = t.at, ![w].dom = d.id, ![w].then = next]
                              /\ Goto(w, "own")
      <4>1. PICK d \in hits : tx' = [tx EXCEPT ![w].zone = t.at, ![w].dom = d.id, ![w].then = next]
                              /\ Goto(w, "own")
        BY <3>1
      <4>2. next \in {"begin", "empty"} /\ d \in domains
        OBVIOUS
      <4> DEFINE Found(z, x, n) == tx'[w] = [tx[w] EXCEPT !.zone = z, !.dom = x.id, !.then = n]
      <4> HIDE DEF next, hits
      <4>3. Found(t.at, d, next) /\ pc'[w] = "own"
        BY <1>0, <4>1 DEF Goto
      <4>4. \E z : \E x \in domains, n \in {"begin", "empty"} : Found(z, x, n)
        <5> HIDE DEF Found
        <5> QED
          BY <4>2, <4>3
      <4> QED
        BY <4>3, <4>4, Zenon
    <3>2. CASE tx' = [tx EXCEPT ![w].at = Parent(@)] /\ UNCHANGED pc
      BY <1>0, <2>1, <3>2
    <3> QED
      BY <1>7, <3>1, <3>2, ZenonT(30) DEF Find
  <2>3. /\ tx'[w].serial = tx[w].serial /\ tx'[w].calls = tx[w].calls /\ pc'[w] \in {"own", "find"}
        /\ pc'[w] = "own" => tx'[w].then \in {"begin", "empty"}
        /\ tx'[w].dom = tx[w].dom \/ \E d \in domains : tx'[w].dom = d.id
    BY <1>0, <2>2 DEF TxFields
  <2>4. ~InTransaction(w)'
    BY <2>3 DEF InTransaction
  <2>5. \A d \in domains : d.id \in 0 .. lastDom
    <3>1. \A d \in domains : d.id \in 1 .. lastDom
      BY <1>0 DEF StoreInv, Ids
    <3> QED
      BY <1>0, <3>1
  <2>6. /\ tx[w].serial = {} /\ \E req \in Requests : tx[w].calls = req.calls
        /\ dialect' = "pgsql" => tx'[w].dom \in 0 .. lastDom'
    BY <1>0, <1>2, <2>1, <2>3, <2>5 DEF TxPromise
  <2>7. session'[w] = NoSession
    BY <1>0, <2>1, NoTransaction
  <2> QED
    BY <2>3, <2>4, <2>6, <2>7, OutsidePromise
<1>8. CASE Own(w) /\ ~Reply(w)
  <2>1. /\ pc[w] = "own" /\ session' = session /\ tx' = tx
        /\ pc'[w] = tx[w].then \/ (tx[w].then = "soa" /\ pc'[w] = "commit")
    BY <1>0, <1>8 DEF Own, Goto
  <2>2. InTransaction(w)' <=> InTransaction(w)
    BY <1>0, <2>1 DEF InTransaction
  <2>3. tx[w].serial = {} /\ (pc'[w] \in {"begin", "empty", "idle", "soa", "commit"})
    BY <1>0, <2>1 DEF TxPromise
  <2>4. CASE InTransaction(w)
    <3>1. tx[w].hurt = FALSE => tx[w].calls = << >> /\ session[w].set = {}
      BY <1>0, <2>1, <2>4 DEF TxPromise, Work, TxWritten, SessionWritten
    <3>2. CASE tx[w].hurt = FALSE
      BY <1>0, <1>2, <2>1, <2>2, <2>3, <2>4, <3>1, <3>2, WorkGoesOn
    <3>3. CASE tx[w].hurt # FALSE
      <4>1. SessionEvolves(w)
        BY <2>1 DEF SessionEvolves
      <4>2. pc'[w] \notin {"domain", "apex"}
        BY <2>3
      <4> QED
        BY <1>0, <1>2, <2>1, <2>2, <2>3, <2>4, <3>3, <4>1, <4>2 DEF TxPromise
    <3> QED
      BY <3>2, <3>3
  <2>5. CASE ~InTransaction(w)
    <3>1. session'[w] = NoSession
      BY <1>0, <2>1, <2>5, NoTransaction
    <3>2. \E req \in Requests : tx[w].calls = req.calls
      BY <1>0, <2>1, <2>5 DEF TxPromise
    <3>3. dialect = "pgsql" => tx[w].dom \in 0 .. lastDom
      BY <1>0 DEF TxPromise
    <3> QED
      BY <1>2, <2>1, <2>2, <2>3, <2>5, <3>1, <3>2, <3>3, OutsidePromise
  <2> QED
    BY <2>4, <2>5

<1>9. CASE ReadSoa(w)
  <2>1. /\ pc[w] = "soa" /\ session' = session
        /\ \/ pc'[w] = "commit" /\ tx'[w] = tx[w]
           \/ /\ pc'[w] = "serial"
              /\ \E r \in rows : tx'[w] = [tx[w] EXCEPT !.serial = {(r.rr.num + 1) % SerialMod}]
    BY <1>0, <1>9 DEF ReadSoa, Goto
  <2>2. /\ tx'[w].done = tx[w].done /\ tx'[w].hurt = tx[w].hurt
        /\ tx'[w].calls = tx[w].calls /\ tx'[w].dom = tx[w].dom
    BY <1>0, <2>1 DEF TxFields
  <2>3. InTransaction(w)' /\ InTransaction(w) /\ tx[w].serial = {}
    BY <1>0, <2>1 DEF InTransaction, TxPromise
  <2>4. /\ tx'[w].serial \in {{}} \cup {{n} : n \in 0 .. SerialMod - 1}
        /\ pc'[w] # "serial" => tx'[w].serial = {}
    <3>1. CASE tx'[w] = tx[w]
      BY <1>0, <2>3, <3>1
    <3>2. CASE pc'[w] = "serial" /\ \E r \in rows : tx'[w] = [tx[w] EXCEPT !.serial = {(r.rr.num + 1) % SerialMod}]
      <4>1. PICK r \in rows : tx'[w] = [tx[w] EXCEPT !.serial = {(r.rr.num + 1) % SerialMod}]
        BY <3>2
      <4>2. r.rr.num \in Nat
        <5>1. r.rr \in GsqlRecords
          BY <1>0 DEF StoreInv
        <5> QED
          BY <5>1 DEF GsqlRecords, RRs
      <4> DEFINE n == (r.rr.num + 1) % SerialMod
      <4>3. n \in 0 .. SerialMod - 1
        BY <4>2, GsqlAssumption
      <4> HIDE DEF n
      <4>4. tx'[w].serial = {n}
        BY <1>0, <4>1 DEF TxFields, n
      <4> QED
        BY <3>2, <4>3, <4>4
    <3> QED
      BY <2>1, <3>1, <3>2
  <2>5. tx[w].hurt = FALSE => session[w].set = {} /\ tx[w].calls = << >>
    BY <1>0, <2>1, <2>3 DEF TxPromise, TxWritten, SessionWritten, Work
  <2>6. CASE tx[w].hurt = FALSE
    BY <1>0, <1>2, <2>1, <2>2, <2>3, <2>4, <2>5, <2>6, WorkGoesOn
  <2>7. CASE tx[w].hurt # FALSE
    <3>1. SessionEvolves(w)
      BY <2>1 DEF SessionEvolves
    <3>2. pc'[w] \notin {"domain", "apex"}
      BY <2>1
    <3>3. pc'[w] \notin {"serial", "commit"} => tx'[w].serial = {}
      BY <2>4
    <3> QED
      BY <1>0, <1>2, <2>1, <2>2, <2>3, <2>4, <2>7, <3>1, <3>2, <3>3 DEF TxPromise
  <2> QED
    BY <2>6, <2>7
<1>10. CASE Begin(w) /\ ~Reply(w)
  <2>1. /\ pc[w] = "begin" /\ pc'[w] = "statement"
        /\ \/ session'[w] = InState("open") /\ tx'[w] = tx[w]
           \/ /\ \E st \in {"auto", "broken"} : session'[w] = InState(st)
              /\ tx'[w] = [tx[w] EXCEPT !.hurt = TRUE]
    BY <1>0, <1>10 DEF Begin, Goto
  <2>2. ~InTransaction(w) /\ InTransaction(w)' /\ tx[w].serial = {}
    BY <1>0, <2>1 DEF InTransaction, TxPromise
  <2>3. /\ tx'[w].done = << >> /\ tx'[w].calls = tx[w].calls /\ tx'[w].dom = tx[w].dom
        /\ tx'[w].serial = {} /\ (tx'[w].hurt = TRUE \/ tx'[w] = tx[w])
    BY <1>0, <2>1, <2>2 DEF TxWritten, TxFields
  <2>4. /\ session'[w].ins = {} /\ session'[w].set = {} /\ session'[w].del = {} /\ session'[w].state # "none"
    BY <2>1 DEF InState, NoSession
  <2>5. SessionEvolves(w) /\ Touched(session'[w]) = {}
    BY <2>4 DEF SessionEvolves, Touched
  <2>6. Work(w)'
    <3>1. PICK req \in Requests : tx[w].calls = req.calls
      BY <1>0, <2>1, <2>2 DEF TxPromise
    <3>2. FlattenSeq(req.calls) = << >> \o FlattenSeq(req.calls)
      <4>1. req.calls \in Seq(Seq(GsqlOps))
        BY RecordsAssumption
      <4>2. FlattenSeq(req.calls) \in Seq(GsqlOps)
        <5> HIDE DEF GsqlOps
        <5> QED
          BY <4>1, FlattenIsSeq
      <4> QED
        BY <4>2, ConcatEmptySeq
    <3>3. {r.rr : r \in {}} = Promise!WithSerial(Applied({}, << >>), {})
      BY AppliedNone, WithSerialDoes
    <3>4. DOMAIN << >> = {}
      OBVIOUS
    <3>5. {r.rr : r \in session'[w].ins} =
            Promise!WithSerial(Applied({}, tx'[w].done), IF pc'[w] = "commit" THEN tx'[w].serial ELSE {})
      BY <2>1, <2>3, <2>4, <3>3
    <3>6. \E rq \in Requests : FlattenSeq(rq.calls) = tx'[w].done \o FlattenSeq(tx'[w].calls)
      BY <2>3, <3>1, <3>2
    <3> QED
      BY <2>1, <2>3, <2>4, <3>4, <3>5, <3>6 DEF Work
  <2> QED
    BY <1>0, <1>2, <2>1, <2>2, <2>3, <2>4, <2>5, <2>6 DEF TxPromise
<1> QED
  BY <1>5, <1>6, <1>7, <1>8, <1>9, <1>10

\* A statement that is done moves from the calls to what is done.
LEMMA NextOperation ==
  ASSUME NEW done \in Seq(GsqlOps), NEW calls \in Seq(Seq(GsqlOps)), calls # << >>, calls[1] # << >>
  PROVE  LET op  == calls[1][1]
             more == [calls EXCEPT ![1] = Tail(calls[1])]
         IN  op \in GsqlOps /\ Append(done, op) \o FlattenSeq(more) = done \o FlattenSeq(calls)
<1> DEFINE op == calls[1][1]
           more == [calls EXCEPT ![1] = Tail(calls[1])]
           first == Tail(calls[1])
           rest == FlattenSeq(Tail(calls))
<1> HIDE DEF GsqlOps
<1>1. /\ Len(calls) \in Nat \ {0} /\ calls[1] \in Seq(GsqlOps) /\ rest \in Seq(GsqlOps)
      /\ FlattenSeq(calls) = calls[1] \o rest
  BY FlattenHead, EmptySeq
<1>2. op \in GsqlOps /\ first \in Seq(GsqlOps) /\ calls[1] = <<op>> \o first
  <2> DEFINE call == calls[1]
  <2>1. call \in Seq(GsqlOps) /\ call # << >>
    BY <1>1
  <2> HIDE DEF call
  <2>2. 1 \in 1 .. Len(call) /\ call[1] \in GsqlOps /\ Tail(call) \in Seq(GsqlOps)
    BY <2>1, LenProperties, ElementOfSeq, HeadTailProperties
  <2>3. call = <<call[1]>> \o Tail(call)
    BY <2>1, <2>2
  <2> QED
    BY <2>2, <2>3 DEF call
<1>3. more \in Seq(Seq(GsqlOps)) /\ more # << >> /\ more[1] = first /\ Tail(more) = Tail(calls)
  <2>1. 1 \in 1 .. Len(calls)
    BY <1>1
  <2> HIDE DEF first
  <2> DEFINE m == [calls EXCEPT ![1] = first]
  <2>2. m \in Seq(Seq(GsqlOps)) /\ Len(m) = Len(calls) /\ m[1] = first /\ \A i \in 2 .. Len(calls) : m[i] = calls[i]
    BY <1>2, <2>1, ExceptSeq
  <2> HIDE DEF m
  <2>3. Tail(m) = Tail(calls)
    <3>1. Len(Tail(m)) = Len(calls) - 1 /\ Len(Tail(calls)) = Len(calls) - 1 /\ m # << >>
      BY <1>1, <2>2
    <3>2. Tail(m) \in Seq(Seq(GsqlOps)) /\ Tail(calls) \in Seq(Seq(GsqlOps))
      BY <2>2, <3>1, HeadTailProperties
    <3>3. \A i \in 1 .. Len(calls) - 1 : Tail(m)[i] = m[i + 1] /\ Tail(calls)[i] = calls[i + 1]
      BY <1>1, <2>2, <3>1, HeadTailProperties
    <3>4. \A i \in 1 .. Len(calls) - 1 : m[i + 1] = calls[i + 1]
      BY <1>1, <2>2
    <3> QED
      BY <3>1, <3>2, <3>3, <3>4, SeqEqual, SMTT(30)
  <2> QED
    BY <1>1, <2>2, <2>3 DEF m, first
<1> HIDE DEF more, rest, first, op
<1>4. FlattenSeq(more) = first \o rest
  BY <1>3, FlattenHead DEF rest
<1>5. Append(done, op) = done \o <<op>> /\ <<op>> \in Seq(GsqlOps)
  BY <1>2
<1> DEFINE one == <<op>>
           both == first \o rest
<1>6. one \in Seq(GsqlOps) /\ both \in Seq(GsqlOps)
  BY <1>1, <1>2, <1>5, ConcatProperties
<1> HIDE DEF one
<1>7. one \o both = (one \o first) \o rest
  <2>1. one \in Seq(GsqlOps) /\ first \in Seq(GsqlOps) /\ rest \in Seq(GsqlOps)
    BY <1>1, <1>2, <1>6
  <2>2. Associates(one, first, rest)
    BY <2>1, Associative, Zenon
  <2> QED
    BY <2>2 DEF Associates
<1> HIDE DEF both
<1>8. (done \o one) \o both = done \o (one \o both)
  <2>1. Associates(done, one, both)
    BY <1>6, Associative, Zenon
  <2> QED
    BY <2>1 DEF Associates
<1>9. /\ Append(done, op) = done \o one /\ FlattenSeq(more) = both
      /\ calls[1] = one \o first /\ FlattenSeq(calls) = calls[1] \o rest
  BY <1>1, <1>2, <1>4, <1>5 DEF one, both
<1>10. op \in GsqlOps /\ Append(done, op) \o FlattenSeq(more) = done \o FlattenSeq(calls)
  BY <1>2, <1>7, <1>8, <1>9, Zenon
<1> QED
  BY <1>10 DEF more, op, first

\* One more addition to what a transaction has done, or one more deletion.
LEMMA WorkDone ==
  ASSUME NEW done \in Seq(GsqlOps), NEW op \in GsqlOps, NEW new, new.rr = op.rr,
         NEW ins, {r.rr : r \in ins} = Applied({}, done), NEW gone,
         \A r \in ins : r \in gone <=> Deletes(op, r.rr)
  PROVE  {r.rr : r \in IF op.op = "add" THEN ins \cup {new} ELSE ins \ gone} = Applied({}, Append(done, op))
<1>1. Applied({}, Append(done, op)) =
        IF op.op = "add" THEN Applied({}, done) \cup {op.rr} ELSE {rr \in Applied({}, done) : ~Deletes(op, rr)}
  BY AppliedAppend, ApplyOpDoes
<1>2. CASE op.op = "add"
  BY <1>1, <1>2
<1>3. CASE op.op # "add"
  <2>1. {r.rr : r \in ins \ gone} = {rr \in {r.rr : r \in ins} : ~Deletes(op, rr)}
    OBVIOUS
  <2> QED
    BY <1>1, <1>3, <2>1
<1> QED
  BY <1>2, <1>3

\* A statement that succeeds, in a transaction or by itself.
LEMMA SucceedPromise ==
  ASSUME TablesInv, WrittenInv, PromiseInv, NEW w \in Writers, pc[w] = "statement", pc' = pc,
         tx[w].calls # << >>, tx[w].calls[1] # << >>,
         Succeed(w, tx[w].calls[1][1]), UNCHANGED <<dialect, domains, lastDom>>
  PROVE  StepPromise(w)
<1> DEFINE calls == tx[w].calls
           op == calls[1][1]
           dom == tx[w].dom
           done == tx[w].done
           new == [id |-> lastRow + 1, dom |-> dom, rr |-> op.rr]
           gone == Gone(w, op)
           s == session[w]
           more == [calls EXCEPT ![1] = Tail(calls[1])]
<1>0. /\ ControlInv /\ RowIds /\ TxWritten(w) /\ StoreInv /\ TxPromise(w) /\ lastRow \in Nat
      /\ TxFields \subseteq DOMAIN tx[w] /\ DOMAIN tx = Writers /\ DOMAIN session = Writers
      /\ s = [state |-> s.state, ins |-> s.ins, del |-> s.del, set |-> s.set]
      /\ done \in Seq(GsqlOps) /\ calls \in Seq(Seq(GsqlOps))
  BY DEF TablesInv, WrittenInv, ControlInv, TxWritten, PromiseInv, RowIds
<1>1. op \in GsqlOps /\ op.rr \in GsqlRecords /\ Append(done, op) \o FlattenSeq(more) = done \o FlattenSeq(calls)
  BY <1>0, NextOperation, RecordFields
<1>2. /\ tx'[w].calls = more /\ tx'[w].done = Append(done, op) /\ tx'[w].dom = dom
      /\ tx'[w].hurt = tx[w].hurt /\ tx'[w].serial = tx[w].serial
  <2>1. tx' = [tx EXCEPT ![w].calls[1] = Tail(@), ![w].done = Append(@, op)]
    BY DEF Succeed
  <2> QED
    BY <1>0, <2>1 DEF TxFields
<1>3. /\ InTransaction(w) /\ InTransaction(w)' /\ tx[w].serial = {} /\ s.state # "none"
      /\ dialect = "pgsql" => dom \in 0 .. lastDom
  BY <1>0 DEF InTransaction, TxPromise, ControlInv
<1>4. gone \subseteq Sees(w) /\ gone = {r \in Sees(w) : r.dom = dom /\ Deletes(op, r.rr)}
  BY DEF Gone
<1>5. Sees(w) = {r \in rows : r.id \notin s.del} \cup s.ins
  BY DEF Sees
<1>6. new.id = lastRow + 1 /\ new.dom = dom /\ new.rr = op.rr
  OBVIOUS
<1>7. CASE s.state = "auto"
  <2>1. /\ session' = session
        /\ \/ rows' = rows \cup {new} /\ lastRow' = lastRow + 1
           \/ rows' \subseteq rows /\ lastRow' = lastRow
    BY <1>7 DEF Succeed
  <2> HIDE DEF new, op, dom
  <2>2. \A r \in rows' : r \in rows \/ r = new
    BY <2>1
  <2>3. \A r \in rows' : r.rr \in GsqlRecords /\ (dialect = "pgsql" => r.dom \in 0 .. lastDom)
    BY <1>0, <1>1, <1>3, <1>6, <2>2 DEF StoreInv
  <2>4. RowsEvolve(w)
    BY <1>6, <2>1, <2>2 DEF RowsEvolve
  <2>5. SessionEvolves(w)
    BY <2>1 DEF SessionEvolves
  <2>6. tx[w].hurt # FALSE
    BY <1>0, <1>3, <1>7 DEF TxWritten, SessionWritten
  <2>7. \A r \in rows' : r.id \in Touched(session'[w]) => r.dom = tx'[w].dom
    <3>1. Touched(s) \subseteq 1 .. lastRow /\ \A r \in rows : r.id \in Touched(s) => r.dom = dom
      BY <1>0 DEF PromiseInv, TouchedInv, TxPromise, dom
    <3>2. new.id \notin Touched(s)
      BY <1>0, <1>6, <3>1
    <3> QED
      BY <1>2, <2>1, <2>2, <3>1, <3>2
  <2>8. TxPromise(w)'
    BY <1>0, <1>2, <1>3, <2>1, <2>6, <2>7 DEF TxPromise, dom
  <2> QED
    BY <1>0, <2>3, <2>4, <2>5, <2>8, StoreKept DEF StepPromise
<1>8. CASE s.state # "auto"
  <2> DEFINE ins2 == IF op.op = "add" THEN s.ins \cup {new} ELSE s.ins \ gone
             del2 == IF op.op = "add" THEN s.del ELSE s.del \cup {r.id : r \in gone}
  <2>1. rows' = rows /\ session' = [session EXCEPT ![w].ins = ins2, ![w].del = del2]
        /\ lastRow' = IF op.op = "add" THEN lastRow + 1 ELSE lastRow
    BY <1>8 DEF Succeed
  <2>2. /\ ins2 = IF op.op = "add" THEN s.ins \cup {new} ELSE s.ins \ gone
        /\ del2 = IF op.op = "add" THEN s.del ELSE s.del \cup {r.id : r \in gone}
    OBVIOUS
  <2> HIDE DEF ins2, del2, new, op, dom, gone
  <2>3. session'[w].ins = ins2 /\ session'[w].del = del2 /\ session'[w].set = s.set /\ session'[w].state = s.state
    BY <1>0, <2>1
  <2>4. RowsEvolve(w)
    BY <2>1 DEF RowsEvolve
  <2>5. SessionEvolves(w)
    <3>1. \A r \in ins2 : r \in s.ins \/ (r.id = lastRow + 1 /\ lastRow' = lastRow + 1)
      BY <1>6, <2>1, <2>2
    <3>2. del2 \subseteq s.del \cup {r.id : r \in Sees(w)}
      BY <1>4, <2>2
    <3> QED
      BY <2>3, <3>1, <3>2 DEF SessionEvolves, Touched
  <2>6. \A r \in ins2 : r.rr \in GsqlRecords /\ r.dom = dom
    <3>1. \A r \in s.ins : r.rr \in GsqlRecords /\ r.dom = dom
      BY <1>0 DEF TxPromise, dom
    <3> QED
      BY <1>1, <1>6, <2>2, <3>1
  <2>7. ASSUME NEW r \in rows, r.id \in del2, r.id \notin s.del
        PROVE  r.dom = dom /\ Deletes(op, r.rr)
    <3>1. PICK x \in gone : x.id = r.id
      BY <2>2, <2>7
    <3>2. x = r
      BY <1>0, <1>4, <1>5, <3>1 DEF RowIds
    <3> QED
      BY <1>4, <3>2
  <2>8. \A r \in rows' : r.id \in Touched(session'[w]) => r.dom = dom
    <3>1. \A r \in rows : r.id \in Touched(s) => r.dom = dom
      BY <1>0 DEF TxPromise, dom
    <3>2. \A i : i \in Touched(session'[w]) => i \in Touched(s) \/ (i \in del2 /\ i \notin s.del)
      BY <2>3, SMTT(30) DEF Touched
    <3> QED
      BY <2>1, <2>7, <3>1, <3>2
  <2>9. ASSUME tx[w].hurt = FALSE PROVE Work(w)'
    <3>1. Work(w) /\ s.set = {}
      BY <1>0, <1>3, <2>9, SMTT(30) DEF TxPromise, TxWritten, SessionWritten
    <3>2. \E req \in Requests : FlattenSeq(req.calls) = tx'[w].done \o FlattenSeq(tx'[w].calls)
      BY <1>1, <1>2, <3>1 DEF Work
    <3>3. {r.rr : r \in ins2} = Applied({}, Append(done, op))
      <4>1. {r.rr : r \in s.ins} = Applied({}, done)
        BY <3>1, WithSerialDoes DEF Work
      <4>2. \A r \in s.ins : r \in gone <=> Deletes(op, r.rr)
        BY <1>0, <1>4, <1>5 DEF TxPromise, dom
      <4> DEFINE ins == s.ins
      <4>3. done \in Seq(GsqlOps) /\ op \in GsqlOps /\ new.rr = op.rr /\ {r.rr : r \in ins} = Applied({}, done)
            /\ \A r \in ins : r \in gone <=> Deletes(op, r.rr)
        BY <1>0, <1>1, <1>6, <4>1, <4>2
      <4>4. ins2 = IF op.op = "add" THEN ins \cup {new} ELSE ins \ gone
        BY <2>2
      <4> HIDE DEF ins, done
      <4>5. {r.rr : r \in IF op.op = "add" THEN ins \cup {new} ELSE ins \ gone} = Applied({}, Append(done, op))
        BY <4>3, WorkDone
      <4> QED
        BY <4>4, <4>5
    <3>4. /\ DOMAIN done = 1 .. Len(done) /\ DOMAIN Append(done, op) = 1 .. Len(done) + 1 /\ Len(done) \in Nat
          /\ \A i \in 1 .. Len(done) : Append(done, op)[i] = done[i]
          /\ Append(done, op)[Len(done) + 1] = op
      BY <1>0, <1>1, AppendedOp
    <3> DEFINE all == Append(done, op)
               n == Len(done)
    <3> HIDE DEF all, n
    <3>5. /\ DOMAIN done = 1 .. n /\ DOMAIN all = 1 .. n + 1 /\ n \in Nat
          /\ \A i \in 1 .. n : all[i] = done[i]
          /\ all[n + 1] = op /\ n + 1 \in 1 .. n + 1 /\ \A i \in 1 .. n : i \in 1 .. n + 1
          /\ \A i \in 1 .. n + 1 : i \in 1 .. n \/ i = n + 1
      BY <3>4 DEF all, n
    <3>6. ASSUME NEW r \in rows, r.id \in del2
          PROVE  \E i \in DOMAIN all : Deletes(all[i], r.rr)
      <4>1. CASE r.id \in s.del
        <5>1. \E i \in DOMAIN done : Deletes(done[i], r.rr)
          BY <3>1, <4>1 DEF Work
        <5> QED
          BY <3>5, <5>1
      <4>2. CASE r.id \notin s.del
        BY <2>7, <3>5, <3>6, <4>2
      <4> QED
        BY <4>1, <4>2
    <3>7. ASSUME NEW r \in rows, r.dom = dom, r.id \notin del2, NEW i \in DOMAIN all
          PROVE  ~Deletes(all[i], r.rr)
      <4>1. r.id \notin s.del
        BY <2>2, <3>7
      <4>2. CASE i \in 1 .. n
        <5>1. ~Deletes(done[i], r.rr)
          BY <3>1, <3>5, <3>7, <4>1, <4>2 DEF Work, dom
        <5> QED
          BY <3>5, <4>2, <5>1
      <4>3. CASE i = n + 1
        <5>1. op.op = "add" => ~Deletes(op, r.rr)
          BY DEF Deletes
        <5>2. op.op # "add" => ~Deletes(op, r.rr)
          BY <1>4, <1>5, <2>2, <3>7, <4>1
        <5> QED
          BY <3>5, <4>3, <5>1, <5>2
      <4> QED
        BY <3>5, <4>2, <4>3
    <3>8. {r.rr : r \in session'[w].ins} =
            Promise!WithSerial(Applied({}, tx'[w].done), IF pc'[w] = "commit" THEN tx'[w].serial ELSE {})
      BY <1>2, <2>3, <3>3, WithSerialDoes
    <3>9. tx'[w].done = all
      BY <1>2 DEF all
    <3> QED
      BY <1>2, <2>1, <2>3, <3>1, <3>2, <3>6, <3>7, <3>8, <3>9, ZenonT(40) DEF Work, dom
  <2>10. \A p \in session'[w].set : p[2] \in Nat
    BY <1>0, <2>3 DEF TxPromise
  <2>11. pc'[w] \notin {"domain", "apex"}
    OBVIOUS
  <2>12. TxPromise(w)'
    <3>1. session'[w].state = "none" => session'[w] = NoSession
      BY <1>3, <2>3
    <3>2. dialect' = "pgsql" => tx'[w].dom \in 0 .. lastDom'
      BY <1>2, <1>3
    <3>3. tx'[w].serial = {}
      BY <1>2, <1>3
    <3> QED
      BY <1>2, <1>3, <2>3, <2>6, <2>8, <2>9, <2>10, <2>11, <3>1, <3>2, <3>3 DEF TxPromise
  <2>13. StoreInv' /\ lastDom' \in Nat /\ (dialect = "pgsql" => lastDom <= lastDom')
    BY <1>0, <2>1, StoreKept DEF StoreInv
  <2> QED
    BY <2>4, <2>5, <2>12, <2>13 DEF StepPromise
<1> QED
  BY <1>7, <1>8

\* The steps through the statements.
LEMMA StatementPromise ==
  ASSUME TablesInv, WrittenInv, PromiseInv, NEW w \in Writers, Statement(w)
  PROVE  StepPromise(w)
<1> DEFINE calls == tx[w].calls
           op == calls[1][1]
<1>0. /\ ControlInv /\ RowIds /\ TxWritten(w) /\ StoreInv /\ TxPromise(w) /\ DOMAIN pc = Writers
      /\ TxFields \subseteq DOMAIN tx[w] /\ DOMAIN tx = Writers /\ DOMAIN session = Writers
      /\ session[w] = [state |-> session[w].state, ins |-> session[w].ins,
                       del |-> session[w].del, set |-> session[w].set]
      /\ calls \in Seq(Seq(GsqlOps))
  BY DEF TablesInv, WrittenInv, ControlInv, TxWritten, PromiseInv
<1>1. /\ pc[w] = "statement" /\ UNCHANGED <<dialect, domains, lastDom>> /\ InTransaction(w)
      /\ tx[w].serial = {} /\ session[w].state # "none"
  BY <1>0 DEF Statement, InTransaction, TxPromise, ControlInv
<1>2. ASSUME UNCHANGED <<rows, lastRow>>, TxPromise(w)', SessionEvolves(w)
      PROVE  StepPromise(w)
  <2>1. RowsEvolve(w)
    BY <1>2 DEF RowsEvolve
  <2> QED
    BY <1>0, <1>1, <1>2, <2>1, StoreKept DEF StepPromise, StoreInv
<1>3. ASSUME UNCHANGED <<rows, lastRow, session>>,
             tx'[w].done = tx[w].done, tx'[w].hurt = tx[w].hurt, tx'[w].dom = tx[w].dom, tx'[w].serial = {},
             InTransaction(w)', pc'[w] # "statement" => tx'[w].calls = << >>,
             FlattenSeq(tx'[w].calls) = FlattenSeq(calls)
      PROVE  StepPromise(w)
  <2>1. tx[w].hurt = FALSE => session[w].set = {}
    BY <1>0, <1>1 DEF TxWritten, SessionWritten
  <2>2. TxPromise(w)' /\ SessionEvolves(w)
    BY <1>0, <1>1, <1>3, <2>1, WorkGoesOn
  <2> QED
    BY <1>2, <1>3, <2>2
<1>4. CASE calls = << >>
  <2>1. UNCHANGED <<rows, lastRow, session>>
    BY <1>4 DEF Statement
  <2>2. \/ pc'[w] = "commit" /\ tx'[w] = tx[w]
        \/ pc'[w] = "own" /\ tx'[w] = [tx[w] EXCEPT !.then = "soa"]
    BY <1>0, <1>4 DEF Statement, Goto
  <2>3. /\ tx'[w].done = tx[w].done /\ tx'[w].hurt = tx[w].hurt /\ tx'[w].calls = calls
        /\ tx'[w].dom = tx[w].dom /\ tx'[w].serial = {} /\ (pc'[w] = "own" => tx'[w].then = "soa")
    BY <1>0, <1>1, <2>2 DEF TxFields
  <2>4. InTransaction(w)'
    BY <2>2, <2>3 DEF InTransaction
  <2> QED
    BY <1>3, <1>4, <2>1, <2>3, <2>4
<1>5. CASE calls # << >> /\ calls[1] = << >>
  <2>1. UNCHANGED <<rows, lastRow, session, pc>> /\ tx'[w] = [tx[w] EXCEPT !.calls = Tail(calls)]
    BY <1>0, <1>5 DEF Statement
  <2>2. /\ tx'[w].done = tx[w].done /\ tx'[w].hurt = tx[w].hurt /\ tx'[w].calls = Tail(calls)
        /\ tx'[w].dom = tx[w].dom /\ tx'[w].serial = {}
    BY <1>0, <1>1, <2>1 DEF TxFields
  <2>3. InTransaction(w)' /\ pc'[w] = "statement"
    BY <1>1, <2>1 DEF InTransaction
  <2>4. FlattenSeq(Tail(calls)) = FlattenSeq(calls)
    <3>1. FlattenSeq(calls) = << >> \o FlattenSeq(Tail(calls)) /\ FlattenSeq(Tail(calls)) \in Seq(GsqlOps)
      <4> HIDE DEF GsqlOps, calls
      <4>1. FlattenSeq(calls) = calls[1] \o FlattenSeq(Tail(calls)) /\ FlattenSeq(Tail(calls)) \in Seq(GsqlOps)
        BY <1>0, <1>5, FlattenHead
      <4> QED
        BY <1>5, <4>1
    <3> QED
      BY <3>1, ConcatEmptySeq
  <2> QED
    BY <1>3, <2>1, <2>2, <2>3, <2>4
<1>6. CASE calls # << >> /\ GiveUpCall(w) /\ UNCHANGED pc
  <2>1. /\ UNCHANGED <<rows, lastRow>> /\ tx'[w] = [tx[w] EXCEPT !.calls = Tail(calls), !.hurt = TRUE]
        /\ session'[w].ins = session[w].ins /\ session'[w].del = session[w].del
        /\ session'[w].set = session[w].set /\ session'[w].state \in {session[w].state, "aborted"}
    BY <1>0, <1>6 DEF GiveUpCall
  <2>2. tx'[w].hurt = TRUE /\ tx'[w].dom = tx[w].dom /\ tx'[w].serial = {}
    BY <1>0, <1>1, <2>1 DEF TxFields
  <2>3. InTransaction(w)' /\ pc'[w] = "statement"
    BY <1>1, <1>6 DEF InTransaction
  <2>4. SessionEvolves(w)
    BY <2>1 DEF SessionEvolves, Touched
  <2>5. TxPromise(w)'
    <3>1. session'[w].state = "none" => session'[w] = NoSession
      BY <1>1, <2>1
    <3>2. dialect' = "pgsql" => tx'[w].dom \in 0 .. lastDom'
      BY <1>0, <1>1, <2>2 DEF TxPromise
    <3>3. /\ \A r \in session'[w].ins : r.rr \in GsqlRecords /\ r.dom = tx'[w].dom
          /\ \A p \in session'[w].set : p[2] \in Nat
          /\ \A r \in rows' : r.id \in Touched(session'[w]) => r.dom = tx'[w].dom
      BY <1>0, <2>1, <2>2 DEF TxPromise, Touched
    <3> QED
      BY <2>2, <2>3, <3>1, <3>2, <3>3 DEF TxPromise
  <2> QED
    BY <1>2, <2>1, <2>4, <2>5
<1>7. CASE calls # << >> /\ calls[1] # << >> /\ Succeed(w, op) /\ UNCHANGED pc
  BY <1>1, <1>7, SucceedPromise
<1> QED
  BY <1>4, <1>5, <1>6, <1>7 DEF Statement

\* A serial, if there is one, is set in the rows of SOA records and in no other.
SoasOnly(rws, set, serial) ==
  /\ serial = {} \/ \E n : serial = {n}
  /\ \A r \in rws : IsFullRow(r)
  /\ \A p \in set : p[2] \in serial
  /\ \A r \in rws : (\E p \in set : p[1] = r.id) <=> serial # {} /\ r.rr.type = "SOA"

\* It goes into the SOA records, then.
LEMMA RenumberSoas ==
  ASSUME NEW rws, NEW set, NEW serial, SoasOnly(rws, set, serial)
  PROVE  {r.rr : r \in Renumber(rws, set)} = Promise!WithSerial({r.rr : r \in rws}, serial)
<1> DEFINE n == CHOOSE s \in serial : TRUE
           New(rr) == IF rr.type = "SOA" /\ serial # {} THEN [rr EXCEPT !.num = n] ELSE rr
<1>1. Renumber(rws, set) = {Renumbered(r, set) : r \in rws}
  BY DEF Renumber, Renumbered
<1>2. \A p \in set : p[2] = n
  BY DEF SoasOnly
<1>3. Promise!WithSerial({r.rr : r \in rws}, serial) = {New(rr) : rr \in {r.rr : r \in rws}}
  <2> DEFINE old == {r.rr : r \in rws}
  <2> HIDE DEF old
  <2>1. Promise!WithSerial(old, serial) = {New(rr) : rr \in old}
    BY DEF Promise!WithSerial
  <2> QED
    BY <2>1 DEF old
<1> HIDE DEF n
<1>4. ASSUME NEW r \in rws PROVE Renumbered(r, set).rr = New(r.rr)
  <2>1. /\ r = [id |-> r.id, dom |-> r.dom, rr |-> r.rr]
        /\ (\E p \in set : p[1] = r.id) <=> serial # {} /\ r.rr.type = "SOA"
    BY DEF SoasOnly, IsFullRow, IsRow
  <2>2. CASE \E p \in set : p[1] = r.id
    <3>1. (CHOOSE p \in set : p[1] = r.id)[2] = n
      BY <1>2, <2>2
    <3>2. Renumbered(r, set) = [r EXCEPT !.rr.num = n]
      BY <2>2, <3>1 DEF Renumbered
    <3>3. Renumbered(r, set).rr = [r.rr EXCEPT !.num = n]
      BY <2>1, <3>2
    <3> QED
      BY <2>1, <2>2, <3>3
  <2>3. CASE ~\E p \in set : p[1] = r.id
    <3>1. Renumbered(r, set) = r
      BY <2>3 DEF Renumbered
    <3> QED
      BY <2>1, <2>3, <3>1
  <2> QED
    BY <2>2, <2>3
<1> HIDE DEF New
<1>5. {r.rr : r \in Renumber(rws, set)} = {New(r.rr) : r \in rws}
  BY <1>1, <1>4
<1>6. {New(rr) : rr \in {r.rr : r \in rws}} = {New(r.rr) : r \in rws}
  OBVIOUS
<1> QED
  BY <1>3, <1>5, <1>6

\* The serials are written into the rows of SOA records.
LEMMA SerialsPromise ==
  ASSUME TablesInv, WrittenInv, PromiseInv, NEW w \in Writers, NEW ids \in SUBSET SoaRows(w), WriteSerials(w, ids),
         pc[w] = "serial", pc' = [pc EXCEPT ![w] = "commit"], UNCHANGED <<dialect, domains, lastDom, lastRow>>,
         (tx'[w] = tx[w] /\ ids = SoaRows(w)) \/ tx'[w] = [tx[w] EXCEPT !.hurt = TRUE]
  PROVE  StepPromise(w)
<1> DEFINE s == session[w]
           t == tx[w]
           set == NewSerials(w, ids)
<1>0. /\ ControlInv /\ RowIds /\ TxWritten(w) /\ StoreInv /\ TxPromise(w) /\ DOMAIN pc = Writers
      /\ TxFields \subseteq DOMAIN tx[w] /\ t.hurt \in BOOLEAN /\ DOMAIN session = Writers
      /\ s = [state |-> s.state, ins |-> s.ins, del |-> s.del, set |-> s.set]
  BY DEF TablesInv, WrittenInv, ControlInv, TxWritten, PromiseInv
<1>1. /\ tx'[w].done = t.done /\ tx'[w].calls = t.calls /\ tx'[w].serial = t.serial
      /\ tx'[w].dom = t.dom /\ tx'[w].hurt \in {t.hurt, TRUE}
      /\ tx'[w].hurt = FALSE => t.hurt = FALSE /\ ids = SoaRows(w)
  BY <1>0 DEF TxFields
<1>2. InTransaction(w) /\ InTransaction(w)' /\ pc'[w] = "commit" /\ s.state # "none"
  BY <1>0 DEF InTransaction, ControlInv
<1>3. Sees(w) = {r \in rows : r.id \notin s.del} \cup s.ins
  BY DEF Sees
<1>4. \A r, x \in rows \cup s.ins : r.id = x.id => r = x
  BY DEF WrittenInv, RowIds
<1>5. \A r \in rows \cup s.ins : IsFullRow(r) /\ r.rr \in GsqlRecords
  BY <1>0 DEF RowIds, StoreInv, TxPromise
<1>6. /\ t.serial \in {{}} \cup {{n} : n \in 0 .. SerialMod - 1} /\ t.serial \subseteq Nat
      /\ set = {<<id, n>> : id \in ids, n \in t.serial}
      /\ \A p \in set : p[1] \in ids /\ p[2] \in t.serial /\ p[2] \in Nat
  <2>1. t.serial \in {{}} \cup {{n} : n \in 0 .. SerialMod - 1}
    BY <1>0 DEF TxPromise
  <2>2. \A n \in 0 .. SerialMod - 1 : n \in Nat
    BY GsqlAssumption
  <2> QED
    BY <2>1, <2>2 DEF NewSerials
<1>7. \A id \in ids : \E r \in Sees(w) : r.id = id /\ r.dom = t.dom /\ r.rr.type = "SOA"
  BY DEF SoaRows
<1>8. dialect = "pgsql" => t.dom \in 0 .. lastDom
  BY <1>0 DEF TxPromise
<1>9. CASE s.state = "auto"
  <2>1. rows' = Renumber(rows, set) /\ session' = session
    BY <1>9 DEF WriteSerials
  <2> HIDE DEF set, t, s
  <2>2. \A r \in Renumber(rows, set) :
          /\ r.rr \in GsqlRecords
          /\ \E x \in rows : r.id = x.id /\ r.dom = x.dom /\ r.rr.name = x.rr.name /\ r.rr.type = x.rr.type
    BY <1>5, <1>6, RenumberTyped
  <2>3. RowsEvolve(w)
    BY <2>1, <2>2 DEF RowsEvolve
  <2>4. \A r \in rows' : r.rr \in GsqlRecords /\ (dialect = "pgsql" => r.dom \in 0 .. lastDom)
    BY <1>0, <2>1, <2>2 DEF StoreInv
  <2>5. SessionEvolves(w)
    BY <2>1 DEF SessionEvolves
  <2>6. tx'[w].hurt # FALSE
    BY <1>0, <1>1, <1>2, <1>9 DEF TxWritten, SessionWritten, s, t
  <2>7. \A r \in rows' : r.id \in Touched(session'[w]) => r.dom = tx'[w].dom
    <3>1. \A r \in rows : r.id \in Touched(session[w]) => r.dom = tx[w].dom
      BY <1>0 DEF TxPromise
    <3> QED
      BY <1>1, <2>1, <2>2, <3>1 DEF t
  <2>8. TxPromise(w)'
    BY <1>0, <1>1, <1>2, <1>8, <2>1, <2>6, <2>7 DEF TxPromise, t
  <2> QED
    BY <1>0, <2>3, <2>4, <2>5, <2>8, StoreKept DEF StepPromise
<1>10. CASE s.state # "auto"
  <2> DEFINE ins2 == Renumber(s.ins, set)
             set2 == {p \in s.set : p[1] \notin ids} \cup set
  <2>1. rows' = rows /\ session' = [session EXCEPT ![w].ins = ins2, ![w].set = set2]
    BY <1>10 DEF WriteSerials
  <2>2. ins2 = Renumber(s.ins, set) /\ set2 = {p \in s.set : p[1] \notin ids} \cup set
    OBVIOUS
  <2> HIDE DEF set, ins2, set2
  <2>3. /\ session'[w].ins = ins2 /\ session'[w].set = set2
        /\ session'[w].state = s.state /\ session'[w].del = s.del
    BY <1>0, <2>1
  <2>4. \A r \in ins2 : r.rr \in GsqlRecords /\ \E x \in s.ins : r.id = x.id /\ r.dom = x.dom
    <3> HIDE DEF s
    <3> QED
      BY <1>5, <1>6, <2>2, RenumberTyped
  <2>5. RowsEvolve(w)
    BY <2>1 DEF RowsEvolve
  <2>6. SessionEvolves(w)
    <3>1. \A p \in set2 : p \in s.set \/ \E r \in Sees(w) : r.id = p[1]
      BY <1>6, <1>7, <2>2
    <3> QED
      BY <2>3, <2>4, <3>1 DEF SessionEvolves, Touched
  <2>7. ASSUME tx'[w].hurt = FALSE PROVE Work(w)'
    <3>1. Work(w) /\ s.set = {} /\ t.hurt = FALSE /\ ids = SoaRows(w)
      BY <1>0, <1>1, <1>2, <2>7 DEF TxPromise, TxWritten, SessionWritten
    <3>2. set2 = set
      BY <2>2, <3>1
    <3>3. \A r \in Sees(w) : r.id \in ids <=> r.dom = t.dom /\ r.rr.type = "SOA"
      <4>1. ids = {r.id : r \in {x \in Sees(w) : x.dom = t.dom /\ x.rr.type = "SOA"}}
        BY <3>1 DEF SoaRows
      <4>2. \A r, x \in Sees(w) : r.id = x.id => r = x
        BY <1>3, <1>4
      <4> QED
        BY <4>1, <4>2
    <3>4. {r.rr : r \in ins2} = Promise!WithSerial(Applied({}, t.done), t.serial)
      <4>1. {r.rr : r \in s.ins} = Applied({}, t.done)
        BY <3>1, WithSerialDoes DEF Work
      <4>2. \A r \in s.ins : r.id \in ids <=> r.rr.type = "SOA"
        <5>1. \A r \in s.ins : r \in Sees(w) /\ r.dom = t.dom
          BY <1>0, <1>3 DEF TxPromise
        <5> QED
          BY <3>3, <5>1
      <4> DEFINE ins == s.ins
                 serial == t.serial
      <4>3. (serial = {} \/ \E n : serial = {n}) /\ \A p \in set : p[2] \in serial
        BY <1>6
      <4>4. \A r \in ins : IsFullRow(r) /\ ((\E p \in set : p[1] = r.id) <=> serial # {} /\ r.rr.type = "SOA")
        <5>1. \A id \in ids, n \in serial : <<id, n>> \in set /\ <<id, n>>[1] = id
          BY <1>6
        <5>2. \A p \in set : p[1] \in ids
          BY <1>6
        <5> HIDE DEF serial
        <5> QED
          BY <1>5, <4>2, <4>3, <5>1, <5>2
      <4>5. {r.rr : r \in ins} = Applied({}, t.done) /\ ins2 = Renumber(ins, set)
        BY <2>2, <4>1
      <4> HIDE DEF ins, serial
      <4>6. {r.rr : r \in Renumber(ins, set)} = Promise!WithSerial({r.rr : r \in ins}, serial)
        <5>1. SoasOnly(ins, set, serial)
          BY <4>3, <4>4 DEF SoasOnly
        <5> QED
          BY <5>1, RenumberSoas
      <4> QED
        BY <4>5, <4>6 DEF serial
    <3>5. ASSUME NEW p \in set2
          PROVE  p[2] \in t.serial /\ \A r \in rows : r.id = p[1] => r.rr.type = "SOA"
      <4>1. p[2] \in t.serial /\ p[1] \in ids
        BY <1>6, <3>2
      <4>2. PICK x \in Sees(w) : x.id = p[1] /\ x.dom = t.dom /\ x.rr.type = "SOA"
        BY <1>7, <4>1
      <4>3. \A r \in rows : r.id = p[1] => r = x
        BY <1>3, <1>4, <4>2
      <4> QED
        BY <4>1, <4>2, <4>3
    <3>6. ASSUME t.serial # {}, NEW r \in rows, r.dom = t.dom, r.id \notin s.del, r.rr.type = "SOA"
          PROVE  \E p \in set2 : p[1] = r.id
      <4>1. r.id \in ids
        BY <1>3, <3>3, <3>6
      <4>2. PICK n : n \in t.serial
        BY <3>6
      <4>3. <<r.id, n>> \in set2
        BY <1>6, <3>2, <4>1, <4>2
      <4> QED
        BY <4>3
    <3>7. {r.rr : r \in session'[w].ins} =
            Promise!WithSerial(Applied({}, tx'[w].done), IF pc'[w] = "commit" THEN tx'[w].serial ELSE {})
      BY <1>1, <1>2, <2>3, <3>4
    <3>8. t.calls = << >> /\ \E req \in Requests : FlattenSeq(req.calls) = tx'[w].done \o FlattenSeq(tx'[w].calls)
      BY <1>1, <3>1 DEF Work
    <3>9. \A r \in rows : r.id \in s.del => \E i \in DOMAIN t.done : Deletes(t.done[i], r.rr)
      BY <3>1 DEF Work
    <3>10. \A r \in rows : r.dom = t.dom /\ r.id \notin s.del =>
             \A i \in DOMAIN t.done : ~Deletes(t.done[i], r.rr)
      BY <3>1 DEF Work
    <3> HIDE DEF s, t
    <3>11. \A r \in rows' : r.id \in session'[w].del =>
             \E i \in DOMAIN tx'[w].done : Deletes(tx'[w].done[i], r.rr)
      BY <1>1, <2>1, <2>3, <3>9
    <3>12. \A p \in session'[w].set :
             p[2] \in tx'[w].serial /\ \A r \in rows' : r.id = p[1] => r.rr.type = "SOA"
      BY <1>1, <2>1, <2>3, <3>5
    <3>13. \A r \in rows' : r.dom = tx'[w].dom /\ r.id \notin session'[w].del =>
             /\ \A i \in DOMAIN tx'[w].done : ~Deletes(tx'[w].done[i], r.rr)
             /\ pc'[w] = "commit" /\ tx'[w].serial # {} /\ r.rr.type = "SOA" =>
                  \E p \in session'[w].set : p[1] = r.id
      BY <1>1, <2>1, <2>3, <3>6, <3>10
    <3>14. tx'[w].calls = << >>
      BY <1>1, <3>8
    <3> QED
      BY <3>7, <3>8, <3>11, <3>12, <3>13, <3>14 DEF Work
  <2>8. \A p \in session'[w].set : p[2] \in Nat
    BY <1>0, <1>6, <2>2, <2>3 DEF TxPromise
  <2>9. \A r \in session'[w].ins : r.rr \in GsqlRecords /\ r.dom = t.dom
    BY <1>0, <2>3, <2>4 DEF TxPromise
  <2>10. \A r \in rows' : r.id \in Touched(session'[w]) => r.dom = t.dom
    <3>1. \A r \in rows : r.id \in Touched(s) => r.dom = t.dom
      BY <1>0 DEF TxPromise
    <3>2. \A i : i \in Touched(session'[w]) => i \in Touched(s) \/ i \in ids
      BY <1>6, <2>2, <2>3 DEF Touched
    <3>3. \A r \in rows : r.id \in ids => r.dom = t.dom
      BY <1>3, <1>4, <1>7
    <3> QED
      BY <2>1, <3>1, <3>2, <3>3
  <2>11. TxPromise(w)'
    <3>1. session'[w].state # "none" /\ pc'[w] \notin {"domain", "apex"} /\ pc'[w] \in {"serial", "commit"}
      BY <1>2, <2>3
    <3>2. tx'[w].serial \in {{}} \cup {{n} : n \in 0 .. SerialMod - 1}
      BY <1>1, <1>6
    <3> HIDE DEF t, s
    <3>3. dialect' = "pgsql" => tx'[w].dom \in 0 .. lastDom'
      BY <1>1, <1>8
    <3> QED
      BY <1>1, <1>2, <2>7, <2>8, <2>9, <2>10, <3>1, <3>2, <3>3 DEF TxPromise
  <2>12. StoreInv' /\ lastDom' \in Nat /\ (dialect = "pgsql" => lastDom <= lastDom')
    BY <1>0, <2>1, StoreKept DEF StoreInv
  <2> QED
    BY <2>5, <2>6, <2>11, <2>12 DEF StepPromise
<1> QED
  BY <1>9, <1>10

\* setSoaSerial, whether its UPDATEs succeed or not.
LEMMA SetSerialPromise ==
  ASSUME TablesInv, WrittenInv, PromiseInv, NEW w \in Writers, SetSerial(w)
  PROVE  StepPromise(w)
<1>0. /\ ControlInv /\ RowIds /\ TxWritten(w) /\ StoreInv /\ TxPromise(w) /\ DOMAIN pc = Writers
      /\ TxFields \subseteq DOMAIN tx[w] /\ DOMAIN tx = Writers /\ DOMAIN session = Writers
      /\ session[w] = [state |-> session[w].state, ins |-> session[w].ins,
                       del |-> session[w].del, set |-> session[w].set]
  BY DEF TablesInv, WrittenInv, ControlInv, TxWritten, PromiseInv
<1>1. /\ pc[w] = "serial" /\ pc' = [pc EXCEPT ![w] = "commit"]
      /\ UNCHANGED <<dialect, domains, lastDom, lastRow>>
  BY DEF SetSerial, Goto
<1>2. ASSUME tx' = [tx EXCEPT ![w].hurt = TRUE], UNCHANGED <<rows, session>>
      PROVE  StepPromise(w)
  <2>1. /\ tx'[w].serial = tx[w].serial /\ tx'[w].dom = tx[w].dom /\ tx'[w].hurt = TRUE
    BY <1>0, <1>2 DEF TxFields
  <2>2. InTransaction(w)' /\ pc'[w] = "commit" /\ session[w].state # "none"
    BY <1>0, <1>1 DEF InTransaction, ControlInv
  <2>3. /\ session'[w].ins = session[w].ins /\ session'[w].set = session[w].set
        /\ session'[w].del = session[w].del /\ session'[w].state # "none"
    BY <1>0, <1>2, <2>2
  <2>4. RowsEvolve(w) /\ SessionEvolves(w)
    BY <1>1, <1>2, <2>3 DEF RowsEvolve, SessionEvolves, Touched
  <2>5. /\ dialect' = "pgsql" => tx'[w].dom \in 0 .. lastDom'
        /\ \A r \in rows' : r.id \in Touched(session'[w]) => r.dom = tx'[w].dom
    BY <1>0, <1>1, <1>2, <2>1, <2>3 DEF TxPromise, Touched
  <2>6. TxPromise(w)'
    BY <1>0, <2>1, <2>2, <2>3, <2>5 DEF TxPromise
  <2>7. StoreInv' /\ lastDom' \in Nat /\ (dialect = "pgsql" => lastDom <= lastDom')
    BY <1>0, <1>1, <1>2, StoreKept DEF StoreInv
  <2> QED
    BY <1>1, <2>4, <2>6, <2>7 DEF StepPromise
<1>3. ASSUME NEW ids \in SUBSET SoaRows(w), WriteSerials(w, ids),
             (tx' = tx /\ ids = SoaRows(w)) \/ tx' = [tx EXCEPT ![w].hurt = TRUE]
      PROVE  StepPromise(w)
  <2>1. (tx'[w] = tx[w] /\ ids = SoaRows(w)) \/ tx'[w] = [tx[w] EXCEPT !.hurt = TRUE]
    BY <1>0, <1>3
  <2> QED
    BY <1>1, <1>3, <2>1, SerialsPromise
<1>4. \/ \E ids \in SUBSET SoaRows(w) :
           /\ WriteSerials(w, ids)
           /\ (tx' = tx /\ ids = SoaRows(w)) \/ tx' = [tx EXCEPT ![w].hurt = TRUE]
      \/ tx' = [tx EXCEPT ![w].hurt = TRUE] /\ UNCHANGED <<rows, session>>
  BY DEF SetSerial
<1> QED
  BY <1>2, <1>3, <1>4

\* A commit makes the rows of the session everybody's.
LEMMA CommitPromise ==
  ASSUME TablesInv, WrittenInv, PromiseInv, NEW w \in Writers, Committed(w) \/ CommitFails(w)
  PROVE  StepPromise(w)
<1>0. ControlInv /\ RowIds /\ StoreInv /\ TxPromise(w) /\ lastDom \in Nat
  BY DEF TablesInv, WrittenInv, PromiseInv, StoreInv
<1>1. Reply(w) /\ UNCHANGED <<dialect, domains, lastDom, lastRow>>
  BY DEF Committed, CommitFails, tables
<1>2. TxPromise(w)' /\ SessionEvolves(w)
  BY <1>0, <1>1, RestPromise
<1>3. CASE rows' = rows
  <2>1. RowsEvolve(w)
    BY <1>1, <1>3 DEF RowsEvolve
  <2> QED
    BY <1>0, <1>1, <1>2, <1>3, <2>1, StoreKept DEF StepPromise, StoreInv
<1>4. CASE rows' = Merged(w)
  <2> DEFINE left == {r \in rows : r.id \notin session[w].del}
             set == session[w].set
             ins == session[w].ins
  <2>1. rows' = Renumber(left, set) \cup ins
    BY <1>4 DEF Merged
  <2>2. \A r \in left : IsFullRow(r) /\ r.rr \in GsqlRecords
    BY <1>0 DEF RowIds, StoreInv
  <2>3. left \subseteq rows /\ \A p \in set : p[2] \in Nat
    BY <1>0 DEF TxPromise
  <2>4. \A r \in ins : r.rr \in GsqlRecords /\ (dialect = "pgsql" => r.dom \in 0 .. lastDom)
    BY <1>0 DEF TxPromise
  <2> HIDE DEF left, set
  <2>5. \A r \in Renumber(left, set) :
          /\ r.rr \in GsqlRecords
          /\ \E x \in left : r.id = x.id /\ r.dom = x.dom /\ r.rr.name = x.rr.name /\ r.rr.type = x.rr.type
    BY <2>2, <2>3, RenumberTyped
  <2>6. RowsEvolve(w)
    BY <1>1, <2>1, <2>3, <2>5 DEF RowsEvolve
  <2>7. \A r \in rows' : r.rr \in GsqlRecords /\ (dialect = "pgsql" => r.dom \in 0 .. lastDom)
    BY <1>0, <2>1, <2>3, <2>4, <2>5 DEF StoreInv
  <2> QED
    BY <1>0, <1>1, <1>2, <2>6, <2>7, StoreKept DEF StepPromise
<1> QED
  BY <1>3, <1>4 DEF Committed, CommitFails, tables

\* A domain with the next id is one that no other has.
LEMMA NextDomainId ==
  ASSUME StoreInv, NEW id, id = IF dialect = "sqlite" THEN Largest(Ids(domains)) + 1 ELSE lastDom + 1
  PROVE  /\ id \in Nat \ {0} /\ \A d \in domains : d.id \in 1 .. id /\ d.id # id
         /\ dialect = "pgsql" => lastDom < id
<1>1. lastDom \in Nat /\ Ids(domains) \in SUBSET (1 .. lastDom) /\ \A d \in domains : d.id \in Ids(domains)
  BY DEF StoreInv, Ids
<1>2. Largest(Ids(domains)) \in Nat /\ \A i \in Ids(domains) : i <= Largest(Ids(domains))
  BY <1>1, LargestId
<1>3. \A d \in domains : d.id \in 1 .. lastDom /\ d.id <= Largest(Ids(domains))
  BY <1>1, <1>2
<1>4. dialect = "pgsql" => id = lastDom + 1
  OBVIOUS
<1> DEFINE largest == Largest(Ids(domains))
<1>5. largest \in Nat /\ \A d \in domains : d.id \in 1 .. lastDom /\ d.id <= largest
  BY <1>2, <1>3
<1>6. id = largest + 1 \/ id = lastDom + 1
  OBVIOUS
<1> HIDE DEF largest
<1> QED
  BY <1>1, <1>4, <1>5, <1>6

\* Zones are made and deleted outside any transaction.
LEMMA ZoneStepsPromise ==
  ASSUME TablesInv, WrittenInv, PromiseInv, NEW w \in Writers,
         InsertDomain(w) \/ InsertSoa(w) \/ DeleteRows(w) \/ DeleteDomain(w)
  PROVE  StepPromise(w)
<1>0. /\ ControlInv /\ RowIds /\ TxWritten(w) /\ StoreInv /\ TxPromise(w) /\ DOMAIN pc = Writers
      /\ DOMAIN session = Writers /\ lastDom \in Nat /\ lastRow \in Nat
      /\ TxFields \subseteq DOMAIN tx[w] /\ DOMAIN tx = Writers
  BY DEF TablesInv, WrittenInv, ControlInv, TxWritten, PromiseInv, StoreInv, RowIds
<1>1. pc[w] \in {"domain", "apex", "empty", "drop"} /\ ~InTransaction(w) /\ UNCHANGED dialect
  <2>1. pc[w] \in {"domain", "apex", "empty", "drop"} /\ UNCHANGED dialect
    BY DEF InsertDomain, InsertSoa, DeleteRows, DeleteDomain
  <2> QED
    BY <2>1 DEF InTransaction
<1>2. /\ session[w] = NoSession /\ tx[w].serial = {}
      /\ dialect = "pgsql" => tx[w].dom \in 0 .. lastDom
      /\ \E req \in Requests : tx[w].calls = req.calls
      /\ pc[w] \in {"domain", "apex"} =>
           /\ tx[w].soa[1] \in GsqlRecords
           /\ \E req \in Requests : req.soa # << >> /\ tx[w].soa = req.soa /\ req.soa[1].name = tx[w].zone
  BY <1>0, <1>1, NoTransaction DEF TxPromise, TxWritten
<1>3. CASE InsertDomain(w) /\ ~Reply(w)
  <2> DEFINE id == IF dialect = "sqlite" THEN Largest(Ids(domains)) + 1 ELSE lastDom + 1
             new == [id |-> id, name |-> tx[w].zone]
  <2>1. /\ domains' = domains \cup {new} /\ lastDom' = id /\ session' = session
        /\ tx' = [tx EXCEPT ![w].dom = id] /\ pc' = [pc EXCEPT ![w] = "apex"]
        /\ UNCHANGED <<rows, lastRow>> /\ pc[w] = "domain"
    BY <1>3 DEF InsertDomain, Goto
  <2>2. /\ id \in Nat \ {0} /\ \A d \in domains : d.id \in 1 .. id /\ d.id # id
        /\ dialect = "pgsql" => lastDom < id
    <3> HIDE DEF id
    <3>1. id = IF dialect = "sqlite" THEN Largest(Ids(domains)) + 1 ELSE lastDom + 1
      BY DEF id
    <3> QED
      BY <1>0, <3>1, NextDomainId
  <2>3. new.id = id /\ new = [id |-> new.id, name |-> new.name]
    OBVIOUS
  <2> HIDE DEF id, new
  <2>4. /\ tx'[w].dom = id /\ tx'[w].serial = {} /\ tx'[w].calls = tx[w].calls
        /\ tx'[w].soa = tx[w].soa /\ tx'[w].zone = tx[w].zone /\ pc'[w] = "apex"
    BY <1>0, <1>2, <2>1 DEF TxFields
  <2>5. ~InTransaction(w)'
    BY <2>4 DEF InTransaction
  <2>6. dialect' = "pgsql" => tx'[w].dom \in 0 .. lastDom'
    BY <2>1, <2>2, <2>4
  <2>7. TxPromise(w)' /\ SessionEvolves(w)
    BY <1>2, <2>1, <2>4, <2>5, <2>6, OutsidePromise
  <2>8. RowsEvolve(w)
    BY <2>1 DEF RowsEvolve
  <2>9. StoreInv'
    <3>1. Ids(domains)' \subseteq 1 .. lastDom'
      BY <2>1, <2>2, <2>3 DEF Ids
    <3>2. dialect = "pgsql" => \A r \in rows : r.dom \in 0 .. id
      BY <1>0, <2>2 DEF StoreInv
    <3>3. \A d \in domains' : d = [id |-> d.id, name |-> d.name]
      BY <1>0, <2>1, <2>3 DEF StoreInv
    <3>4. \A c, d \in domains' : c.id = d.id => c = d
      BY <1>0, <2>1, <2>2, <2>3 DEF StoreInv
    <3> QED
      BY <1>0, <1>1, <2>1, <2>2, <3>1, <3>2, <3>3, <3>4 DEF StoreInv
  <2>10. lastDom' \in Nat /\ (dialect = "pgsql" => lastDom <= lastDom')
    BY <1>0, <2>1, <2>2
  <2> QED
    BY <1>1, <2>7, <2>8, <2>9, <2>10 DEF StepPromise
<1>4. ~InsertDomain(w) \/ Reply(w) =>
        /\ domains' \subseteq domains /\ UNCHANGED lastDom
        /\ \/ rows' \subseteq rows /\ UNCHANGED lastRow
           \/ /\ rows' = rows \cup {[id |-> lastRow + 1, dom |-> tx[w].dom, rr |-> tx[w].soa[1]]}
              /\ lastRow' = lastRow + 1 /\ pc[w] = "apex"
        /\ Reply(w) \/ (UNCHANGED <<session, tx>> /\ pc'[w] \in {"find", "drop"})
  <2>1. CASE InsertDomain(w) /\ Reply(w)
    <3> DEFINE id == IF dialect = "sqlite" THEN Largest(Ids(domains)) + 1 ELSE lastDom + 1
    <3>1. CASE pc' = [pc EXCEPT ![w] = "apex"]
      BY <1>0, <2>1, <3>1 DEF Reply, Goto
    <3>2. CASE pc' # [pc EXCEPT ![w] = "apex"]
      BY <2>1, <3>2 DEF InsertDomain, Goto
    <3> QED
      BY <3>1, <3>2
  <2>2. CASE ~InsertDomain(w)
    BY <1>0, <2>2 DEF InsertSoa, DeleteRows, DeleteDomain, Goto, NewDomain
  <2> QED
    BY <2>1, <2>2
<1>5. CASE ~InsertDomain(w) \/ Reply(w)
  <2> DEFINE new == [id |-> lastRow + 1, dom |-> tx[w].dom, rr |-> tx[w].soa[1]]
  <2>1. new.id = lastRow + 1 /\ new.dom = tx[w].dom /\ new.rr = tx[w].soa[1]
    OBVIOUS
  <2>2. \/ rows' \subseteq rows /\ UNCHANGED lastRow
        \/ rows' = rows \cup {new} /\ lastRow' = lastRow + 1 /\ pc[w] = "apex"
    BY <1>4, <1>5
  <2> HIDE DEF new
  <2>3. RowsEvolve(w)
    BY <2>1, <2>2 DEF RowsEvolve
  <2>4. \A r \in rows' : r.rr \in GsqlRecords /\ (dialect = "pgsql" => r.dom \in 0 .. lastDom)
    BY <1>0, <1>2, <2>1, <2>2 DEF StoreInv
  <2>5. domains' \subseteq domains /\ UNCHANGED lastDom
    BY <1>4, <1>5
  <2>6. StoreInv'
    <3>1. Ids(domains)' \subseteq Ids(domains)
      BY <2>5 DEF Ids
    <3> QED
      BY <1>0, <1>1, <2>4, <2>5, <3>1 DEF StoreInv
  <2>7. TxPromise(w)' /\ SessionEvolves(w)
    <3>1. CASE Reply(w)
      BY <1>0, <2>5, <3>1, RestPromise
    <3>2. CASE UNCHANGED <<session, tx>> /\ pc'[w] \in {"find", "drop"}
      <4>1. ~InTransaction(w)'
        BY <3>2 DEF InTransaction
      <4> QED
        BY <1>1, <1>2, <2>5, <3>2, <4>1, OutsidePromise
    <3> QED
      BY <1>4, <1>5, <3>1, <3>2
  <2> QED
    BY <1>0, <1>1, <2>3, <2>5, <2>6, <2>7 DEF StepPromise
<1> QED
  BY <1>3, <1>5

\* Every step of a writer keeps the tables and what is said of it.
LEMMA StepsPromise ==
  ASSUME TablesInv, WrittenInv, PromiseInv, NEW w \in Writers, Receive(w) \/ Run(w)
  PROVE  StepPromise(w)
BY SearchStepsPromise, StatementPromise, SetSerialPromise, CommitPromise, ZoneStepsPromise DEF Run

\* Every step keeps what is said of every writer.
LEMMA NextPromise == TablesInv /\ WrittenInv /\ PromiseInv /\ [Next]_vars => PromiseInv'
<1> SUFFICES ASSUME TablesInv, WrittenInv, PromiseInv, [Next]_vars PROVE PromiseInv'
  OBVIOUS
<1>1. ASSUME NEW w \in Writers, Receive(w) \/ Run(w) PROVE PromiseInv'
  <2>1. OthersStay(w) /\ StepPromise(w) /\ RowIds /\ TouchedInv
    BY <1>1, StepsKeepControl, StepsPromise DEF TablesInv, WrittenInv, PromiseInv
  <2>2. TouchedInv'
    BY <2>1, TouchedKept DEF StepPromise
  <2>3. ASSUME NEW v \in Writers \ {w} PROVE TxPromise(v)'
    BY <1>1, <2>1, OthersPromise DEF StepPromise
  <2> QED
    BY <2>1, <2>2, <2>3 DEF PromiseInv, StepPromise
<1>2. CASE Restart
  <2>1. UNCHANGED <<dialect, domains, rows, lastDom, lastRow>>
    BY <1>2 DEF Restart, tables
  <2>2. \A w \in Writers : pc'[w] = "idle" /\ tx'[w] = NoTx /\ session'[w] = NoSession
    BY <1>2 DEF Restart
  <2>3. NoSession.ins = {} /\ Touched(NoSession) = {} /\ NoSession.set = {}
    BY DEF NoSession, Touched
  <2>4. TouchedInv'
    BY <2>2, <2>3 DEF TouchedInv
  <2>5. StoreInv' /\ lastDom' \in Nat
    BY <2>1 DEF PromiseInv, StoreInv
  <2>6. ASSUME NEW w \in Writers PROVE TxPromise(w)'
    <3>1. ~InTransaction(w)' /\ tx'[w].serial = {} /\ tx'[w].dom = 0
      BY <2>2 DEF InTransaction, NoTx
    <3>2. pc'[w] = "idle" /\ session'[w] = NoSession
      BY <2>2
    <3>3. dialect' = "pgsql" => tx'[w].dom \in 0 .. lastDom'
      BY <2>5, <3>1
    <3> QED
      BY <3>1, <3>2, <3>3, OutsidePromise
  <2> QED
    BY <2>4, <2>5, <2>6 DEF PromiseInv
<1>3. CASE UNCHANGED vars
  <2>1. UNCHANGED <<dialect, domains, rows, lastDom, lastRow, session, pc, tx>>
    BY <1>3 DEF vars, tables
  <2>2. StoreInv' /\ TouchedInv'
    BY <2>1 DEF PromiseInv, StoreInv, TouchedInv
  <2>3. ASSUME NEW w \in Writers PROVE TxPromise(w)'
    <3>1. TxPromise(w) /\ (InTransaction(w)' <=> InTransaction(w))
      BY <2>1 DEF PromiseInv, InTransaction
    <3>2. Work(w) => Work(w)'
      BY <2>1 DEF Work
    <3> QED
      BY <2>1, <3>1, <3>2 DEF TxPromise
  <2> QED
    BY <2>2, <2>3 DEF PromiseInv
<1> QED
  BY <1>1, <1>2, <1>3 DEF Next

\* It is so in the beginning.
LEMMA InitPromise == Init => PromiseInv
<1> SUFFICES ASSUME Init PROVE PromiseInv
  OBVIOUS
<1> DEFINE m == Cardinality(DOMAIN InitZones)
           pos == SetToSeq(InitRecords)
<1>1. PICK id \in {f \in [DOMAIN InitZones -> 1 .. m] : \A y, z \in DOMAIN InitZones : f[y] = f[z] => y = z} :
        /\ domains = {[id |-> id[z], name |-> z] : z \in DOMAIN InitZones}
        /\ rows = {[id |-> i, dom |-> id[pos[i][1]], rr |-> pos[i][2]] : i \in DOMAIN pos}
  BY DEF Init
<1>2. pos \in [1 .. Cardinality(InitRecords) -> InitRecords] /\ m \in Nat
  BY InitPositions, GsqlAssumption, FS_CardinalityType
<1>3. lastDom = m /\ dialect \in {"sqlite", "pgsql"}
  BY GsqlAssumption DEF Init
<1> HIDE DEF m, pos
<1>4. \A i \in DOMAIN pos : pos[i][1] \in DOMAIN InitZones /\ pos[i][2] \in GsqlRecords
  <2>1. \A p \in InitRecords : \E z \in DOMAIN InitZones : \E rr \in InitZones[z] : p = <<z, rr>>
    BY DEF InitRecords
  <2>2. \A i \in DOMAIN pos : pos[i] \in InitRecords
    BY <1>2
  <2> HIDE DEF GsqlRecords
  <2> QED
    BY <2>1, <2>2, RecordsAssumption
<1>5. /\ \A d \in domains : \E z \in DOMAIN InitZones : d = [id |-> id[z], name |-> z]
      /\ \A z \in DOMAIN InitZones : id[z] \in 1 .. m
  BY <1>1
<1>6. \A r \in rows : r.rr \in GsqlRecords /\ r.dom \in 0 .. lastDom
  <2> TAKE r \in rows
  <2>1. PICK i \in DOMAIN pos : r = [id |-> i, dom |-> id[pos[i][1]], rr |-> pos[i][2]]
    BY <1>1
  <2>2. r.rr = pos[i][2] /\ r.dom = id[pos[i][1]]
    BY <2>1
  <2>3. r.dom \in 1 .. m
    BY <1>4, <1>5, <2>2
  <2> QED
    BY <1>2, <1>3, <1>4, <2>2, <2>3
<1>7. StoreInv
  <2>1. Ids(domains) \subseteq 1 .. lastDom
    BY <1>3, <1>5 DEF Ids
  <2>2. \A c, d \in domains : c.id = d.id => c = d
    BY <1>1, <1>5
  <2>3. \A d \in domains : d = [id |-> d.id, name |-> d.name]
    BY <1>5
  <2> QED
    BY <1>2, <1>3, <1>6, <2>1, <2>2, <2>3 DEF StoreInv
<1>8. \A w \in Writers : pc[w] = "idle" /\ tx[w] = NoTx /\ session[w] = NoSession
  BY DEF Init
<1>9. /\ NoSession.ins = {} /\ Touched(NoSession) = {} /\ NoSession.set = {}
      /\ NoTx.serial = {} /\ NoTx.dom = 0
  BY DEF NoSession, Touched, NoTx
<1>10. TouchedInv
  BY <1>8, <1>9 DEF TouchedInv
<1>11. \A w \in Writers : TxPromise(w)
  BY <1>2, <1>3, <1>8, <1>9 DEF TxPromise, InTransaction
<1> QED
  BY <1>7, <1>10, <1>11 DEF PromiseInv

\* The records of rows, and the rows of a zone, whose name several domains may have.
RecordsOf(rws) == {r.rr : r \in rws}
ZoneRows(doms, rws, z) == {r \in rws : \E d \in doms : d.name = z /\ d.id = r.dom}

\* The store of the promise is what the tables hold of each zone.
StoreOfTables ==
  /\ DOMAIN Store = Names(domains)
  /\ \A z \in Names(domains) : Store[z] = RecordsOf(ZoneRows(domains, rows, z))

\* It is so in every state.
LEMMA StoreHolds == StoreOfTables
<1> DEFINE All(z) == UNION {Contents(d.id) : d \in {x \in domains : x.name = z}}
<1>1. ASSUME NEW z PROVE All(z) = RecordsOf(ZoneRows(domains, rows, z))
  <2>1. ASSUME NEW rr \in All(z) PROVE rr \in RecordsOf(ZoneRows(domains, rows, z))
    <3>1. PICK d \in domains : d.name = z /\ rr \in Contents(d.id)
      BY <2>1
    <3>2. PICK r \in rows : r.dom = d.id /\ r.rr = rr
      BY <3>1 DEF Contents
    <3>3. r \in ZoneRows(domains, rows, z)
      BY <3>1, <3>2 DEF ZoneRows
    <3> QED
      BY <3>2, <3>3 DEF RecordsOf
  <2>2. ASSUME NEW rr \in RecordsOf(ZoneRows(domains, rows, z)) PROVE rr \in All(z)
    <3>1. PICK r \in ZoneRows(domains, rows, z) : r.rr = rr
      BY <2>2 DEF RecordsOf
    <3>2. PICK d \in domains : d.name = z /\ d.id = r.dom /\ r \in rows
      BY <3>1 DEF ZoneRows
    <3>3. rr \in Contents(d.id)
      BY <3>1, <3>2 DEF Contents
    <3> QED
      BY <3>2, <3>3
  <2> HIDE DEF All
  <2> QED
    BY <2>1, <2>2
<1>2. Store = [z \in Names(domains) |-> All(z)]
  BY DEF Store
<1> HIDE DEF All
<1> QED
  BY <1>1, <1>2 DEF StoreOfTables

\* In the next state too.
LEMMA StoreHoldsNext == StoreOfTables'
BY StoreHolds, PTL

\* The zones of the promise before and after a step.
LEMMA ZonesOfPromise ==
  /\ DOMAIN Store = Names(domains) /\ DOMAIN Store' = Names(domains')
  /\ \A z \in Names(domains) : Store[z] = RecordsOf(ZoneRows(domains, rows, z))
  /\ \A z \in Names(domains') : Store'[z] = RecordsOf(ZoneRows(domains', rows', z))
BY StoreHolds, StoreHoldsNext DEF StoreOfTables

\* A step that leaves every zone its rows keeps the promise.
LEMMA SameZones ==
  ASSUME UNCHANGED dialect, torn \subseteq torn', Names(domains') = Names(domains),
         \A z \in Names(domains) : ZoneRows(domains', rows', z) = ZoneRows(domains, rows, z)
  PROVE  Promise!Next
<1>1. Store' = Store
  <2>1. /\ Store' = [z \in Names(domains) |-> Store'[z]]
        /\ Store = [z \in Names(domains) |-> Store[z]]
    BY DEF Store
  <2>2. \A z \in Names(domains) : Store'[z] = Store[z]
    BY ZonesOfPromise
  <2> QED
    BY <2>1, <2>2
<1> QED
  BY <1>1 DEF Promise!Next

\* A step that changes the zone z only, as the promise allows.
LEMMA OneZone ==
  ASSUME UNCHANGED dialect, torn \subseteq torn', NEW z \in Names(domains) \cup Names(domains'),
         Names(domains') \ {z} = Names(domains) \ {z},
         \A y \in Names(domains) \ {z} : ZoneRows(domains', rows', y) = ZoneRows(domains, rows, y),
         \/ Promise!Create(z) \/ Promise!GiveSoa(z) \/ Promise!Transaction(z) \/ Promise!Clear(z)
         \/ Promise!Drop(z) \/ z \in torn'
  PROVE  Promise!Next
<1>1. Promise!Others(z)
  <2>1. \A y \in Names(domains) \ {z} : Store'[y] = Store[y]
    BY ZonesOfPromise
  <2> QED
    BY <2>1, ZonesOfPromise DEF Promise!Others
<1>2. Promise!Change(z)
  BY <1>1 DEF Promise!Change
<1>3. z \in DOMAIN Store \cup DOMAIN Store'
  BY ZonesOfPromise
<1> QED
  BY <1>2, <1>3 DEF Promise!Next

\* The domains stay and the rows of one of them change.
Confined(dom) ==
  /\ UNCHANGED <<dialect, domains>> /\ torn \subseteq torn'
  /\ \A r : r.dom # dom => (r \in rows' <=> r \in rows)

\* It keeps the promise if the zone of that domain is changed as the promise allows.
LEMMA OneDomain ==
  ASSUME StoreInv, NEW dom, Confined(dom),
         \A d \in domains : d.id = dom /\ d.name \notin torn' =>
           Promise!GiveSoa(d.name) \/ Promise!Transaction(d.name) \/ Promise!Clear(d.name)
  PROVE  Promise!Next
<1>1. UNCHANGED <<dialect, domains>> /\ torn \subseteq torn' /\ \A c, d \in domains : c.id = d.id => c = d
  BY DEF Confined, StoreInv
<1>2. ASSUME NEW z, \A d \in domains : d.name = z => d.id # dom
      PROVE  ZoneRows(domains', rows', z) = ZoneRows(domains, rows, z)
  BY <1>1, <1>2 DEF ZoneRows, Confined
<1>3. CASE \A d \in domains : d.id # dom
  BY <1>1, <1>2, <1>3, SameZones
<1>4. ASSUME NEW d \in domains, d.id = dom PROVE Promise!Next
  <2>1. d.name \in Names(domains)
    BY DEF Names
  <2>2. \A y \in Names(domains) \ {d.name} : ZoneRows(domains', rows', y) = ZoneRows(domains, rows, y)
    BY <1>1, <1>2, <1>4
  <2> QED
    BY <1>1, <1>4, <2>1, <2>2, OneZone
<1> QED
  BY <1>3, <1>4

\* What a commit finds: rows of the zone, those left of them, and the session's.
\* What is not left is what the operations delete, the session's rows are what they
\* make of nothing, and a serial is set in all the SOA records left and in no others.
Commits(zone, left, ins, set, serial, ops) ==
  /\ left \subseteq zone /\ ops \in Seq(GsqlOps) /\ (serial = {} \/ \E n : serial = {n})
  /\ \A r \in zone : IsFullRow(r)
  /\ \A r \in zone : r \in left <=> \A i \in DOMAIN ops : ~Deletes(ops[i], r.rr)
  /\ RecordsOf(ins) = Promise!WithSerial(Applied({}, ops), serial)
  /\ \A p \in set : p[2] \in serial
  /\ \A r \in left : (\E p \in set : p[1] = r.id) <=> serial # {} /\ r.rr.type = "SOA"

\* The records of rows from two sets.
LEMMA RecordsOfTwo ==
  ASSUME NEW a, NEW b
  PROVE  RecordsOf(a \cup b) = RecordsOf(a) \cup RecordsOf(b)
BY DEF RecordsOf

\* The records with their new serial.
LEMMA SerialWritten ==
  ASSUME NEW rws, NEW set, NEW serial, SoasOnly(rws, set, serial)
  PROVE  RecordsOf(Renumber(rws, set)) = Promise!WithSerial(RecordsOf(rws), serial)
BY RenumberSoas DEF RecordsOf

\* A serial goes into two sets of records as into one.
LEMMA SerialOfTwo ==
  ASSUME NEW a, NEW b, NEW serial
  PROVE  Promise!WithSerial(a \cup b, serial) = Promise!WithSerial(a, serial) \cup Promise!WithSerial(b, serial)
BY WithSerialDoes

\* It makes of the records what the promise's transaction makes of them.
LEMMA CommitUpdates ==
  ASSUME NEW zone, NEW left, NEW ins, NEW set, NEW serial, NEW ops,
         Commits(zone, left, ins, set, serial, ops)
  PROVE  RecordsOf(Renumber(left, set) \cup ins) = Promise!Updated(RecordsOf(zone), ops, serial)
<1> DEFINE made == Applied({}, ops)
           kept == RecordsOf(left)
<1>1. {rr \in RecordsOf(zone) : \A i \in DOMAIN ops : ~Deletes(ops[i], rr)} = kept
  <2>1. ASSUME NEW rr \in RecordsOf(zone), \A i \in DOMAIN ops : ~Deletes(ops[i], rr) PROVE rr \in kept
    <3>1. PICK r \in zone : r.rr = rr
      BY DEF RecordsOf
    <3>2. r \in left
      BY <2>1, <3>1 DEF Commits
    <3> QED
      BY <3>1, <3>2 DEF RecordsOf
  <2>2. ASSUME NEW rr \in kept
        PROVE  rr \in RecordsOf(zone) /\ \A i \in DOMAIN ops : ~Deletes(ops[i], rr)
    <3>1. PICK r \in left : r.rr = rr
      BY DEF RecordsOf
    <3>2. r \in zone
      BY DEF Commits
    <3> QED
      BY <3>1, <3>2 DEF RecordsOf, Commits
  <2> HIDE DEF kept
  <2> QED
    BY <2>1, <2>2
<1>2. Applied(RecordsOf(zone), ops) = kept \cup made
  BY <1>1, AppliedParts DEF Commits
<1>3. RecordsOf(Renumber(left, set)) = Promise!WithSerial(kept, serial)
  <2>1. SoasOnly(left, set, serial)
    BY DEF Commits, SoasOnly
  <2> QED
    BY <2>1, SerialWritten
<1>4. RecordsOf(Renumber(left, set) \cup ins) = Promise!WithSerial(kept, serial) \cup Promise!WithSerial(made, serial)
  <2> DEFINE new == Renumber(left, set)
  <2> HIDE DEF new
  <2>1. RecordsOf(new \cup ins) = RecordsOf(new) \cup RecordsOf(ins)
    BY RecordsOfTwo
  <2> QED
    BY <1>3, <2>1 DEF new, Commits
<1> HIDE DEF kept, made
<1>5. Promise!Updated(RecordsOf(zone), ops, serial) = Promise!WithSerial(kept \cup made, serial)
  BY <1>2 DEF Promise!Updated, Applied
<1>6. Promise!WithSerial(kept \cup made, serial) = Promise!WithSerial(kept, serial) \cup Promise!WithSerial(made, serial)
  BY SerialOfTwo
<1> QED
  BY <1>4, <1>5, <1>6

\* A commit of an open transaction changes the rows of its domain only.
LEMMA CommitConfined ==
  ASSUME WrittenInv, PromiseInv, NEW w \in Writers, rows' = Merged(w), UNCHANGED <<dialect, domains>>, torn \subseteq torn'
  PROVE  Confined(tx[w].dom)
<1> DEFINE s == session[w]
           left == {r \in rows : r.id \notin s.del}
<1>1. TxPromise(w)
  BY DEF PromiseInv
<1>2. ASSUME NEW r \in rows, r.dom # tx[w].dom
      PROVE  r \in left /\ Renumbered(r, s.set) = r
  <2>1. r.id \notin Touched(s)
    BY <1>1, <1>2 DEF TxPromise
  <2>2. r.id \notin s.del /\ ~\E p \in s.set : p[1] = r.id
    BY <2>1 DEF Touched
  <2> QED
    BY <2>2 DEF Renumbered
<1>3. \A r \in s.ins : r.dom = tx[w].dom
  BY <1>1 DEF TxPromise
<1>4. rows' = Renumber(left, s.set) \cup s.ins /\ \A r \in left : r \in rows
  BY DEF Merged
<1>5. Renumber(left, s.set) = {Renumbered(r, s.set) : r \in left}
  BY DEF Renumber, Renumbered
<1>6. \A r \in left : Renumbered(r, s.set).dom = r.dom
  <2>1. \A r \in left : IsFullRow(r)
    BY DEF WrittenInv, RowIds
  <2> QED
    BY <2>1, RenumberedRow
<1> HIDE DEF left
<1>7. ASSUME NEW r, r.dom # tx[w].dom PROVE r \in rows' <=> r \in rows
  <2>1. ASSUME r \in rows' PROVE r \in rows
    <3>1. PICK x \in left : r = Renumbered(x, s.set)
      BY <1>3, <1>4, <1>5, <1>7, <2>1
    <3>2. x.dom # tx[w].dom /\ x \in rows
      BY <1>4, <1>6, <1>7, <3>1
    <3> QED
      BY <1>2, <3>1, <3>2
  <2>2. ASSUME r \in rows PROVE r \in rows'
    BY <1>2, <1>4, <1>5, <1>7, <2>2
  <2> QED
    BY <2>1, <2>2
<1> QED
  BY <1>7 DEF Confined

\* What it makes of a zone of that domain.
LEMMA CommitInZone ==
  ASSUME WrittenInv, PromiseInv, NEW w \in Writers, rows' = Merged(w), UNCHANGED domains,
         NEW d \in domains, d.id = tx[w].dom,
         NEW left, left = {r \in ZoneRows(domains, rows, d.name) : r.id \notin session[w].del}
  PROVE  ZoneRows(domains', rows', d.name) = Renumber(left, session[w].set) \cup session[w].ins
<1> DEFINE s == session[w]
           all == {r \in rows : r.id \notin s.del}
           In(dom) == \E e \in domains : e.name = d.name /\ e.id = dom
<1>1. rows' = Renumber(all, s.set) \cup s.ins
  BY DEF Merged
<1>2. left = {r \in all : In(r.dom)} /\ ZoneRows(domains', rows', d.name) = {r \in rows' : In(r.dom)}
  BY DEF ZoneRows
<1>3. \A r \in s.ins : In(r.dom)
  BY DEF PromiseInv, TxPromise
<1>4. \A r \in all : Renumbered(r, s.set).dom = r.dom
  <2>1. \A r \in all : IsFullRow(r)
    BY DEF WrittenInv, RowIds
  <2> QED
    BY <2>1, RenumberedRow
<1>5. /\ Renumber(all, s.set) = {Renumbered(r, s.set) : r \in all}
      /\ Renumber(left, s.set) = {Renumbered(r, s.set) : r \in left}
  BY DEF Renumber, Renumbered
<1> HIDE DEF all, In
<1>6. {r \in Renumber(all, s.set) : In(r.dom)} = Renumber(left, s.set)
  BY <1>2, <1>4, <1>5
<1> QED
  BY <1>1, <1>2, <1>3, <1>6

\* No other domain of its name has rows.
HasRowsAlone(d) ==
  \A e \in domains, r \in rows : e.name = d.name /\ r.dom = e.id => e = d

\* What a commit finds, if no statement of it failed.
LEMMA CommitFinds ==
  ASSUME TablesInv, WrittenInv, PromiseInv, NEW w \in Writers, pc[w] = "commit", tx[w].hurt = FALSE,
         NEW d \in domains, d.id = tx[w].dom, HasRowsAlone(d),
         NEW zone, zone = ZoneRows(domains, rows, d.name),
         NEW left, left = {r \in zone : r.id \notin session[w].del}
  PROVE  Commits(zone, left, session[w].ins, session[w].set, tx[w].serial, tx[w].done)
<1> DEFINE s == session[w]
           t == tx[w]
<1>1. InTransaction(w) /\ TxWritten(w) /\ TxPromise(w) /\ RowIds /\ ControlInv
  BY DEF TablesInv, WrittenInv, PromiseInv, InTransaction
<1>2. Work(w) /\ t.done \in Seq(GsqlOps) /\ \A r \in rows : IsFullRow(r)
  BY <1>1 DEF TxPromise, TxWritten, RowIds
<1>3. zone \subseteq rows /\ left \subseteq zone /\ \A r \in zone : r.dom = t.dom
  BY DEF ZoneRows, HasRowsAlone
<1>4. \A r \in rows : r.id \in s.del => \E i \in DOMAIN t.done : Deletes(t.done[i], r.rr)
  BY <1>2 DEF Work
<1>5. \A r \in rows : r.dom = t.dom /\ r.id \notin s.del =>
        /\ \A i \in DOMAIN t.done : ~Deletes(t.done[i], r.rr)
        /\ t.serial # {} /\ r.rr.type = "SOA" => \E p \in s.set : p[1] = r.id
  BY <1>2 DEF Work
<1>6. \A p \in s.set : p[2] \in t.serial /\ \A r \in rows : r.id = p[1] => r.rr.type = "SOA"
  BY <1>2 DEF Work
<1>7. RecordsOf(s.ins) = Promise!WithSerial(Applied({}, t.done), t.serial)
  <2>1. {r.rr : r \in s.ins} = Promise!WithSerial(Applied({}, t.done), t.serial)
    BY <1>2 DEF Work
  <2> QED
    BY <2>1 DEF RecordsOf
<1>8. t.serial = {} \/ \E n : t.serial = {n}
  BY <1>1 DEF TxPromise
<1> HIDE DEF s, t
<1>9. \A r \in zone : r \in left <=> \A i \in DOMAIN t.done : ~Deletes(t.done[i], r.rr)
  BY <1>3, <1>4, <1>5 DEF s
<1>10. \A r \in left : (\E p \in s.set : p[1] = r.id) <=> t.serial # {} /\ r.rr.type = "SOA"
  <2>1. \A r \in left : r \in rows /\ r.dom = t.dom /\ r.id \notin s.del
    BY <1>3 DEF s
  <2> QED
    BY <1>5, <1>6, <2>1
<1>11. Commits(zone, left, s.ins, s.set, t.serial, t.done)
  BY <1>2, <1>3, <1>6, <1>7, <1>8, <1>9, <1>10 DEF Commits
<1> QED
  BY <1>11 DEF s, t

\* So it is a transaction of the promise, on the zone of its domain.
LEMMA CommitIsTransaction ==
  ASSUME TablesInv, WrittenInv, PromiseInv, NEW w \in Writers, pc[w] = "commit", tx[w].hurt = FALSE,
         rows' = Merged(w), UNCHANGED <<dialect, domains>>,
         NEW d \in domains, d.id = tx[w].dom, HasRowsAlone(d)
  PROVE  Promise!Transaction(d.name)
<1> DEFINE z == d.name
           zone == ZoneRows(domains, rows, z)
           left == {r \in zone : r.id \notin session[w].del}
           ins == session[w].ins
           set == session[w].set
           serial == tx[w].serial
           ops == tx[w].done
<1>1. /\ z \in DOMAIN Store /\ z \in DOMAIN Store'
      /\ Store[z] = RecordsOf(zone) /\ Store'[z] = RecordsOf(ZoneRows(domains', rows', z))
  <2>1. z \in Names(domains) /\ z \in Names(domains')
    BY DEF Names
  <2> QED
    BY <2>1, ZonesOfPromise
<1>2. ZoneRows(domains', rows', z) = Renumber(left, set) \cup ins
  BY CommitInZone
<1>3. Commits(zone, left, ins, set, serial, ops)
  BY CommitFinds
<1>4. ops \in {FlattenSeq(req.calls) : req \in Requests}
  <2>1. InTransaction(w) /\ TxWritten(w) /\ TxPromise(w)
    BY DEF WrittenInv, PromiseInv, InTransaction
  <2>2. Work(w) /\ ops \in Seq(GsqlOps)
    BY <2>1 DEF TxPromise, TxWritten
  <2>3. PICK req \in Requests : FlattenSeq(req.calls) = ops \o FlattenSeq(<< >>)
    BY <2>2 DEF Work
  <2>4. FlattenSeq(<< >>) = << >>
    BY EmptySeq, FlattenIsSeq
  <2>5. ops \o << >> = ops
    <3> HIDE DEF ops
    <3> QED
      BY <2>2, ConcatEmptySeq
  <2> QED
    BY <2>3, <2>4, <2>5
<1>5. serial \in {{}} \cup {{s} : s \in 0 .. SerialMod - 1}
  BY DEF PromiseInv, TxPromise
<1>6. Store'[z] = Promise!Updated(Store[z], ops, serial)
  <2> HIDE DEF zone, left, ins, set, serial, ops
  <2> QED
    BY <1>1, <1>2, <1>3, CommitUpdates
<1> HIDE DEF z, ops, serial
<1>7. \E o \in {FlattenSeq(req.calls) : req \in Requests}, s \in {{}} \cup {{n} : n \in 0 .. SerialMod - 1} :
        Store'[z] = Promise!Updated(Store[z], o, s)
  BY <1>4, <1>5, <1>6
<1> QED
  BY <1>1, <1>7, Zenon DEF Promise!Transaction, z

\* A commit to a domain without rows in pgsql, whose name another one may have,
\* does nothing.
LEMMA CommitOfNothing ==
  ASSUME TablesInv, PromiseInv, NEW w \in Writers, dialect = "pgsql", \A r \in rows : r.dom # tx[w].dom
  PROVE  Merged(w) = rows
<1>1. session[w].ins = {} /\ session[w].set = {}
  BY DEF TablesInv, PgsqlInv
<1>2. \A r \in rows : r.id \notin session[w].del
  BY DEF PromiseInv, TxPromise, Touched
<1> QED
  BY <1>1, <1>2 DEF Merged, Renumber

\* Of the domains of one name, which pgsql allows, one has records.
OneDomainHasRows ==
  \A c, d \in domains, q, r \in rows : c.name = d.name /\ q.dom = c.id /\ r.dom = d.id => c = d

\* A domain is made without records, and in pgsql it stays so.
LEMMA NextOneDomain ==
  TablesInv /\ PromiseInv /\ OneDomainHasRows /\ [Next]_vars /\ TablesInv' => OneDomainHasRows'
<1> SUFFICES ASSUME TablesInv, PromiseInv, OneDomainHasRows, [Next]_vars, TablesInv' PROVE OneDomainHasRows'
  OBVIOUS
<1>1. CASE UNCHANGED <<domains, rows>>
  BY <1>1 DEF OneDomainHasRows
<1>2. CASE Restart \/ UNCHANGED vars
  BY <1>1, <1>2 DEF Restart, vars, tables
<1>3. ASSUME NEW w \in Writers, Receive(w) \/ Run(w) PROVE OneDomainHasRows'
  <2>1. CASE dialect' = "sqlite"
    BY <2>1 DEF TablesInv, SqliteInv, OneDomainHasRows
  <2>2. CASE dialect' = "pgsql"
    <3>1. dialect = "pgsql"
      BY <1>3, <2>2, Zenon DEF Receive, Run, Find, Own, Begin, Statement, ReadSoa, SetSerial, Committed,
                  CommitFails, InsertDomain, InsertSoa, DeleteRows, DeleteDomain
    <3>2. rows' \subseteq rows
      BY <1>3, <3>1, StepsOnlyDelete DEF TablesInv
    <3>3. CASE domains' \subseteq domains
      BY <3>2, <3>3 DEF OneDomainHasRows
    <3>4. CASE InsertDomain(w) /\ domains' = domains \cup {[id |-> lastDom + 1, name |-> tx[w].zone]}
      <4> DEFINE new == [id |-> lastDom + 1, name |-> tx[w].zone]
      <4>1. \A r \in rows : r.dom # lastDom + 1
        BY <3>1 DEF PromiseInv, StoreInv
      <4>2. new.id = lastDom + 1 /\ domains' = domains \cup {new}
        BY <3>4
      <4> HIDE DEF new
      <4> QED
        BY <3>2, <4>1, <4>2 DEF OneDomainHasRows
    <3>5. \/ domains' \subseteq domains
          \/ InsertDomain(w) /\ domains' = domains \cup {[id |-> lastDom + 1, name |-> tx[w].zone]}
      <4>1. CASE InsertDomain(w)
        BY <3>1, <4>1 DEF InsertDomain
      <4>2. CASE DeleteDomain(w)
        BY <4>2 DEF DeleteDomain
      <4>3. CASE ~InsertDomain(w) /\ ~DeleteDomain(w)
        BY <1>3, <4>3, Zenon DEF Receive, Run, Find, Own, Begin, Statement, ReadSoa, SetSerial, Committed,
                  CommitFails, InsertSoa, DeleteRows, tables
      <4> QED
        BY <4>1, <4>2, <4>3
    <3> QED
      BY <3>3, <3>4, <3>5
  <2> QED
    BY <2>1, <2>2 DEF TablesInv
<1> QED
  BY <1>2, <1>3 DEF Next

\* Every commit keeps the promise.
LEMMA CommitKeeps ==
  ASSUME TablesInv, WrittenInv, PromiseInv, OneDomainHasRows, NEW w \in Writers, Committed(w)
  PROVE  Promise!Next
<1>1. /\ pc[w] = "commit" /\ UNCHANGED <<dialect, domains>> /\ torn \subseteq torn'
      /\ tx[w].hurt \in BOOLEAN
  BY DEF Committed, WrittenInv, TxWritten
<1>2. CASE session[w].state = "open" /\ (dialect = "sqlite" \/ \E r \in rows : r.dom = tx[w].dom)
  <2>1. rows' = Merged(w)
    BY <1>2 DEF Committed
  <2>2. Confined(tx[w].dom)
    BY <1>1, <2>1, CommitConfined
  <2>3. ASSUME NEW d \in domains, d.id = tx[w].dom, d.name \notin torn' PROVE tx[w].hurt = FALSE
    <3>1. d.name \in NamesOf(tx[w].dom)
      BY <2>3 DEF NamesOf
    <3>2. torn' = torn \cup IF tx[w].hurt THEN NamesOf(tx[w].dom) ELSE NamesOf(tx[w].dom) \ {tx[w].zone}
      BY <1>2 DEF Committed
    <3> QED
      BY <1>1, <2>3, <3>1, <3>2
  <2>4. \A d \in domains : d.id = tx[w].dom => HasRowsAlone(d)
    BY <1>2 DEF OneDomainHasRows, HasRowsAlone, TablesInv, SqliteInv
  <2>5. \A d \in domains : d.id = tx[w].dom /\ d.name \notin torn' => Promise!Transaction(d.name)
    BY <1>1, <2>1, <2>3, <2>4, CommitIsTransaction
  <2> QED
    BY <2>2, <2>5, OneDomain DEF PromiseInv
<1>3. CASE session[w].state = "open" /\ dialect = "pgsql" /\ \A r \in rows : r.dom # tx[w].dom
  <2>1. rows' = rows
    BY <1>3, CommitOfNothing DEF Committed
  <2> QED
    BY <1>1, <2>1, SameZones
<1>4. CASE session[w].state # "open"
  BY <1>1, <1>4, SameZones DEF Committed
<1> QED
  BY <1>2, <1>3, <1>4 DEF TablesInv

\* A statement or a serial that is written without a transaction tears the zones it changes.
LEMMA StatementsKeep ==
  ASSUME WrittenInv, PromiseInv, NEW w \in Writers, Statement(w) \/ SetSerial(w)
  PROVE  Promise!Next
<1> DEFINE dom == tx[w].dom
<1>1. UNCHANGED <<dialect, domains>>
  BY DEF Statement, SetSerial
<1>2. CASE rows' = rows /\ torn \subseteq torn'
  BY <1>1, <1>2, SameZones
<1>3. ASSUME torn' = torn \cup NamesOf(dom), \A r : r.dom # dom => (r \in rows' <=> r \in rows)
      PROVE  Promise!Next
  <2>1. \A d \in domains : d.id = dom => d.name \in torn'
    BY <1>3 DEF NamesOf
  <2>2. Confined(dom)
    BY <1>1, <1>3 DEF Confined
  <2> QED
    BY <2>1, <2>2, OneDomain DEF PromiseInv
<1>4. CASE Statement(w)
  <2>1. CASE rows' = rows /\ torn' = torn
    BY <1>2, <2>1
  <2>2. CASE Succeed(w, tx[w].calls[1][1])
    <3> DEFINE op == tx[w].calls[1][1]
               new == [id |-> lastRow + 1, dom |-> dom, rr |-> op.rr]
    <3>1. new.dom = dom /\ \A r \in Gone(w, op) : r.dom = dom
      BY DEF Gone
    <3> HIDE DEF new, dom
    <3>2. CASE session[w].state = "auto"
      <4>1. torn' = torn \cup NamesOf(dom)
        BY <2>2, <3>2 DEF Succeed, dom
      <4>2. rows' = IF op.op = "add" THEN rows \cup {new} ELSE rows \ Gone(w, op)
        BY <2>2, <3>2 DEF Succeed, new, dom
      <4> HIDE DEF op
      <4> QED
        BY <1>3, <3>1, <4>1, <4>2
    <3>3. CASE session[w].state # "auto"
      BY <1>2, <2>2, <3>3 DEF Succeed
    <3> QED
      BY <3>2, <3>3
  <2> QED
    BY <1>4, <2>1, <2>2 DEF Statement, GiveUpCall
<1>5. CASE SetSerial(w)
  <2>1. torn' = IF session[w].state = "auto" THEN torn \cup NamesOf(dom) ELSE torn
    BY <1>5 DEF SetSerial
  <2>2. CASE rows' = rows
    BY <1>2, <2>1, <2>2
  <2>3. ASSUME NEW ids \in SUBSET SoaRows(w), WriteSerials(w, ids) PROVE Promise!Next
    <3> DEFINE set == NewSerials(w, ids)
    <3>1. CASE session[w].state = "auto"
      <4>1. rows' = Renumber(rows, set)
        BY <2>3, <3>1 DEF WriteSerials
      <4>2. \A p \in set : p[1] \in ids
        BY DEF NewSerials
      <4>3. \A id \in ids : \E x \in rows \cup session[w].ins : x.id = id /\ x.dom = dom
        BY DEF SoaRows, Sees
      <4>4. /\ \A r, x \in rows \cup session[w].ins : r.id = x.id => r = x
            /\ \A r \in rows : IsFullRow(r)
        BY DEF WrittenInv, RowIds
      <4> HIDE DEF set, dom
      <4>5. ASSUME NEW r \in rows, r.dom # dom PROVE Renumbered(r, set) = r
        <5>1. r.id \notin ids
          BY <4>3, <4>4, <4>5
        <5> QED
          BY <4>2, <5>1 DEF Renumbered
      <4>6. rows' = {Renumbered(r, set) : r \in rows}
        BY <4>1 DEF Renumber, Renumbered
      <4>7. \A r \in rows : Renumbered(r, set).dom = r.dom
        BY <4>4, RenumberedRow
      <4>8. ASSUME NEW r, r.dom # dom PROVE r \in rows' <=> r \in rows
        BY <4>5, <4>6, <4>7, <4>8
      <4> QED
        BY <1>3, <2>1, <3>1, <4>8 DEF dom
    <3>2. CASE session[w].state # "auto"
      BY <2>2, <2>3, <3>2 DEF WriteSerials
    <3> QED
      BY <3>1, <3>2
  <2>4. rows' = rows \/ \E ids \in SUBSET SoaRows(w) : WriteSerials(w, ids)
    BY <1>5 DEF SetSerial
  <2> QED
    BY <2>2, <2>3, <2>4
<1> QED
  BY <1>4, <1>5

\* A new domain makes a zone, or is one more of a zone there is.
LEMMA InsertDomainKeeps ==
  ASSUME TablesInv, PromiseInv, NEW w \in Writers, InsertDomain(w)
  PROVE  Promise!Next
<1> DEFINE z == tx[w].zone
           id == IF dialect = "sqlite" THEN Largest(Ids(domains)) + 1 ELSE lastDom + 1
           new == [id |-> id, name |-> z]
<1>1. UNCHANGED <<dialect, rows, torn>>
  BY DEF InsertDomain
<1>2. CASE domains' = domains
  BY <1>1, <1>2, SameZones
<1>3. CASE domains' = domains \cup {new}
  <2>1. \A d \in domains : d.id # id
    <3> HIDE DEF id
    <3>1. id = IF dialect = "sqlite" THEN Largest(Ids(domains)) + 1 ELSE lastDom + 1
      BY DEF id
    <3> QED
      BY <3>1, NextDomainId DEF PromiseInv
  <2>2. \A r \in rows : r.dom # id
    <3>1. CASE dialect = "sqlite"
      <4>1. \A r \in rows : \E d \in domains : d.id = r.dom
        BY <3>1 DEF TablesInv, SqliteInv, Ids
      <4> HIDE DEF id
      <4> QED
        BY <2>1, <4>1
    <3>2. CASE dialect # "sqlite"
      <4>1. id = lastDom + 1 /\ lastDom \in Nat /\ \A r \in rows : r.dom \in 0 .. lastDom
        BY <3>2 DEF PromiseInv, StoreInv
      <4> QED
        BY <4>1
    <3> QED
      BY <3>1, <3>2
  <2>3. new.id = id /\ new.name = z
    OBVIOUS
  <2> HIDE DEF new, id
  <2>4. \A y : ZoneRows(domains', rows', y) = ZoneRows(domains, rows, y)
    BY <1>1, <1>3, <2>2, <2>3 DEF ZoneRows
  <2>5. Names(domains') = Names(domains) \cup {z}
    BY <1>3, <2>3 DEF Names
  <2> HIDE DEF z
  <2>6. CASE z \in Names(domains)
    BY <1>1, <2>4, <2>5, <2>6, SameZones
  <2>7. CASE z \notin Names(domains)
    <3>1. ZoneRows(domains, rows, z) = {}
      BY <2>7 DEF ZoneRows, Names
    <3>2. Store'[z] = {}
      BY <2>4, <2>5, <3>1, ZonesOfPromise DEF RecordsOf
    <3>3. Promise!Create(z)
      BY <2>5, <2>7, <3>2, ZonesOfPromise DEF Promise!Create
    <3> QED
      BY <1>1, <2>4, <2>5, <3>3, OneZone
  <2> QED
    BY <2>6, <2>7
<1> QED
  BY <1>2, <1>3 DEF InsertDomain

\* The SOA goes into the zone.
LEMMA InsertSoaKeeps ==
  ASSUME PromiseInv, NEW w \in Writers, InsertSoa(w)
  PROVE  Promise!Next
<1> DEFINE dom == tx[w].dom
           soa == tx[w].soa[1]
           new == [id |-> lastRow + 1, dom |-> dom, rr |-> soa]
<1>1. UNCHANGED <<dialect, domains>> /\ pc[w] = "apex"
  BY DEF InsertSoa
<1>2. CASE UNCHANGED <<rows, torn>>
  BY <1>1, <1>2, SameZones
<1>3. CASE rows' = rows \cup {new} /\ torn' = torn \cup (NamesOf(dom) \ {tx[w].zone})
  <2>1. new.dom = dom /\ new.rr = soa
    OBVIOUS
  <2>2. PICK req \in Requests : req.soa # << >> /\ soa = req.soa[1] /\ soa.name = tx[w].zone
    BY <1>1 DEF PromiseInv, TxPromise
  <2> HIDE DEF new, soa, dom
  <2>3. Confined(dom)
    BY <1>1, <1>3, <2>1 DEF Confined
  <2>4. ASSUME NEW d \in domains, d.id = dom, d.name \notin torn' PROVE Promise!GiveSoa(d.name)
    <3>1. d.name = tx[w].zone /\ d.name \in Names(domains)
      BY <1>3, <2>4 DEF NamesOf, Names
    <3>2. ZoneRows(domains', rows', d.name) = ZoneRows(domains, rows, d.name) \cup {new}
      BY <1>1, <1>3, <2>1, <2>4 DEF ZoneRows
    <3>3. Store'[d.name] = Store[d.name] \cup {soa}
      <4>1. RecordsOf({new}) = {soa}
        BY <2>1 DEF RecordsOf
      <4>2. RecordsOf(ZoneRows(domains', rows', d.name)) = RecordsOf(ZoneRows(domains, rows, d.name)) \cup {soa}
        BY <3>2, <4>1, RecordsOfTwo
      <4> QED
        BY <1>1, <3>1, <4>2, ZonesOfPromise
    <3>4. soa \in {r.soa[1] : r \in {x \in Requests : x.soa # << >>}}
      BY <2>2
    <3> QED
      BY <1>1, <2>2, <3>1, <3>3, <3>4, ZonesOfPromise DEF Promise!GiveSoa
  <2> QED
    BY <2>3, <2>4, OneDomain DEF PromiseInv
<1> QED
  BY <1>2, <1>3 DEF InsertSoa, NewDomain

\* The deletion of a domain's records clears its zone, or changes nothing if it had none.
LEMMA DeleteRowsKeeps ==
  ASSUME TablesInv, PromiseInv, OneDomainHasRows, NEW w \in Writers, DeleteRows(w)
  PROVE  Promise!Next
<1> DEFINE dom == tx[w].dom
<1>1. UNCHANGED <<dialect, domains>>
  BY DEF DeleteRows
<1>2. CASE UNCHANGED <<rows, torn>>
  BY <1>1, <1>2, SameZones
<1>3. CASE rows' = {r \in rows : r.dom # dom} /\ torn' = torn \cup (NamesOf(dom) \ {tx[w].zone})
  <2> HIDE DEF dom
  <2>1. Confined(dom) /\ torn \subseteq torn'
    BY <1>1, <1>3 DEF Confined
  <2>2. CASE \A r \in rows : r.dom # dom
    <3>1. rows' = rows
      BY <1>3, <2>2
    <3> QED
      BY <1>1, <2>1, <3>1, SameZones
  <2>3. CASE \E r \in rows : r.dom = dom
    <3>1. ASSUME NEW d \in domains, d.id = dom PROVE Promise!Clear(d.name)
      <4>1. d.name \in Names(domains)
        BY DEF Names
      <4>2. \A e \in domains, r \in rows : e.name = d.name /\ r.dom = e.id => r.dom = dom
        BY <2>3, <3>1 DEF OneDomainHasRows
      <4>3. RecordsOf(ZoneRows(domains', rows', d.name)) = {}
        BY <1>1, <1>3, <4>2 DEF ZoneRows, RecordsOf
      <4> QED
        BY <1>1, <4>1, <4>3, ZonesOfPromise DEF Promise!Clear
    <3> QED
      BY <2>1, <3>1, OneDomain DEF PromiseInv
  <2> QED
    BY <2>2, <2>3
<1> QED
  BY <1>2, <1>3 DEF DeleteRows

\* The deletion of a domain drops its zone.  If another domain has its name it
\* clears the zone, or changes nothing if it had no records.
LEMMA DeleteDomainKeeps ==
  ASSUME TablesInv, PromiseInv, OneDomainHasRows, NEW w \in Writers, DeleteDomain(w)
  PROVE  Promise!Next
<1> DEFINE dom == tx[w].dom
<1>1. UNCHANGED dialect
  BY DEF DeleteDomain
<1>2. CASE UNCHANGED <<domains, rows, torn>>
  BY <1>1, <1>2, SameZones
<1>3. CASE /\ domains' = {d \in domains : d.id # dom} /\ torn \subseteq torn'
           /\ rows' = IF dialect = "sqlite" THEN {r \in rows : r.dom # dom} ELSE rows
  <2> HIDE DEF dom
  <2>1. \A y : (\A d \in domains : d.name = y => d.id # dom) =>
          ZoneRows(domains', rows', y) = ZoneRows(domains, rows, y)
    BY <1>3 DEF ZoneRows
  <2>2. CASE \A d \in domains : d.id # dom
    <3>1. domains' = domains
      BY <1>3, <2>2
    <3> QED
      BY <1>1, <1>3, <2>1, <2>2, <3>1, SameZones
  <2>3. ASSUME NEW d \in domains, d.id = dom PROVE Promise!Next
    <3>1. \A c \in domains : c.id = dom => c = d
      BY <2>3 DEF PromiseInv, StoreInv
    <3>2. Names(domains') \ {d.name} = Names(domains) \ {d.name} /\ d.name \in Names(domains)
      BY <1>3, <2>3, <3>1 DEF Names
    <3>3. \A y \in Names(domains) \ {d.name} : ZoneRows(domains', rows', y) = ZoneRows(domains, rows, y)
      BY <2>1, <3>1
    <3>4. CASE d.name \notin Names(domains')
      <4>1. Promise!Drop(d.name)
        BY <3>2, <3>4, ZonesOfPromise DEF Promise!Drop
      <4> QED
        BY <1>1, <1>3, <3>2, <3>3, <4>1, OneZone
    <3>5. CASE d.name \in Names(domains') /\ \E r \in rows : r.dom = dom
      <4>1. \A e \in domains, r \in rows : e.name = d.name /\ r.dom = e.id => r.dom = dom
        BY <2>3, <3>5 DEF OneDomainHasRows
      <4>2. RecordsOf(ZoneRows(domains', rows', d.name)) = {}
        BY <1>3, <4>1 DEF ZoneRows, RecordsOf
      <4>3. Promise!Clear(d.name)
        BY <3>2, <3>5, <4>2, ZonesOfPromise DEF Promise!Clear
      <4> QED
        BY <1>1, <1>3, <3>2, <3>3, <4>3, OneZone
    <3>6. CASE d.name \in Names(domains') /\ \A r \in rows : r.dom # dom
      <4>1. Names(domains') = Names(domains)
        BY <3>2, <3>6
      <4>2. rows' = rows /\ \A y : ZoneRows(domains', rows', y) = ZoneRows(domains, rows, y)
        BY <1>3, <3>6 DEF ZoneRows
      <4> QED
        BY <1>1, <1>3, <4>1, <4>2, SameZones
    <3> QED
      BY <3>4, <3>5, <3>6
  <2> QED
    BY <2>2, <2>3
<1> QED
  BY <1>2, <1>3 DEF DeleteDomain

\* Every step is one of the promise, or changes nothing in it.
LEMMA NextKeeps ==
  TablesInv /\ WrittenInv /\ PromiseInv /\ OneDomainHasRows /\ [Next]_vars => [Promise!Next]_(Promise!vars)
<1> SUFFICES ASSUME TablesInv, WrittenInv, PromiseInv, OneDomainHasRows, [Next]_vars PROVE Promise!Next
  OBVIOUS
<1>1. CASE UNCHANGED <<dialect, domains, rows, torn>>
  BY <1>1, SameZones
<1>2. CASE Restart \/ UNCHANGED vars
  BY <1>1, <1>2 DEF Restart, vars, tables
<1>3. ASSUME NEW w \in Writers, Receive(w) \/ Run(w) PROVE Promise!Next
  <2>1. CASE Receive(w) \/ Find(w) \/ Own(w) \/ Begin(w) \/ ReadSoa(w) \/ CommitFails(w)
    BY <1>1, <2>1 DEF Receive, Find, Own, Begin, ReadSoa, CommitFails, tables
  <2>2. CASE Statement(w) \/ SetSerial(w)
    BY <2>2, StatementsKeep
  <2>3. CASE Committed(w)
    BY <2>3, CommitKeeps
  <2>4. CASE InsertDomain(w) \/ InsertSoa(w) \/ DeleteRows(w) \/ DeleteDomain(w)
    BY <2>4, InsertDomainKeeps, InsertSoaKeeps, DeleteRowsKeeps, DeleteDomainKeeps
  <2> QED
    BY <1>3, <2>1, <2>2, <2>3, <2>4 DEF Run
<1> QED
  BY <1>2, <1>3 DEF Next

\* What a function makes of a finite set is finite.
LEMMA FiniteImage ==
  ASSUME NEW S, IsFiniteSet(S), NEW f, NEW T, \A t \in T : \E x \in S : f[x] = t
  PROVE  IsFiniteSet(T)
<1> DEFINE used == {x \in S : f[x] \in T}
           g == [x \in used |-> f[x]]
<1>1. IsFiniteSet(used)
  BY FS_Subset
<1>2. g \in Surjection(used, T)
  BY DEF Surjection
<1> HIDE DEF g, used
<1> QED
  BY <1>1, <1>2, FS_Surjection

\* The tables of the start are finite, and no zone is torn.
LEMMA InitKeeps == Init => Promise!Init
<1> SUFFICES ASSUME Init PROVE Promise!Init
  OBVIOUS
<1> DEFINE pos == SetToSeq(InitRecords)
           n == Cardinality(InitRecords)
<1>1. PICK id : rows = {[id |-> i, dom |-> id[pos[i][1]], rr |-> pos[i][2]] : i \in DOMAIN pos}
  BY DEF Init
<1>2. DOMAIN pos = 1 .. n /\ n \in Nat
  BY InitPositions, GsqlAssumption, FS_CardinalityType
<1>3. IsFiniteSet(rows)
  <2> DEFINE f == [i \in 1 .. n |-> [id |-> i, dom |-> id[pos[i][1]], rr |-> pos[i][2]]]
  <2>1. IsFiniteSet(1 .. n)
    BY <1>2, FS_Interval
  <2>2. \A r \in rows : \E i \in 1 .. n : f[i] = r
    BY <1>1, <1>2
  <2> HIDE DEF f, n
  <2> QED
    BY <2>1, <2>2, FiniteImage
<1>4. ASSUME NEW z \in Names(domains) PROVE Promise!IsFiniteSet(Store[z])
  <2> DEFINE f == [r \in rows |-> r.rr]
  <2>1. \A rr \in RecordsOf(ZoneRows(domains, rows, z)) : \E r \in rows : f[r] = rr
    BY DEF RecordsOf, ZoneRows
  <2> HIDE DEF f
  <2>2. IsFiniteSet(RecordsOf(ZoneRows(domains, rows, z)))
    BY <1>3, <2>1, FiniteImage
  <2>3. IsFiniteSet(Store[z])
    BY <2>2, ZonesOfPromise
  <2> DEFINE held == Store[z]
  <2> HIDE DEF held
  <2>4. IsFiniteSet(held) => Promise!IsFiniteSet(held)
    BY DEF IsFiniteSet, Promise!IsFiniteSet
  <2> QED
    BY <2>3, <2>4 DEF held
<1>5. torn = {}
  BY DEF Init
<1> QED
  BY <1>4, <1>5, ZonesOfPromise DEF Promise!Init

\* Every domain of the start has a name of its own.
LEMMA InitOneDomain == Init => OneDomainHasRows
<1> SUFFICES ASSUME Init PROVE \A c, d \in domains : c.name = d.name => c = d
  BY DEF OneDomainHasRows
<1>1. PICK id : domains = {[id |-> id[z], name |-> z] : z \in DOMAIN InitZones}
  BY DEF Init
<1> QED
  BY <1>1

\* Every statement of every writer is a step of what a backend promises, or
\* changes nothing in it (gsql.cpp:204-281, 430-512).
THEOREM BackendKeepsPromise == Spec => KeepsPromise
<1>1. Init => TablesInv /\ WrittenInv /\ PromiseInv /\ OneDomainHasRows /\ Promise!Init
  BY InitTables, InitWritten, InitPromise, InitOneDomain, InitKeeps
<1>2. TablesInv /\ WrittenInv /\ PromiseInv /\ OneDomainHasRows /\ [Next]_vars =>
        (TablesInv /\ WrittenInv /\ PromiseInv /\ OneDomainHasRows)' /\ [Promise!Next]_(Promise!vars)
  BY NextTables, NextWritten, NextPromise, NextOneDomain, NextKeeps
<1> QED
  BY <1>1, <1>2, PTL DEF Spec, KeepsPromise, Promise!Spec
==============================================================================
