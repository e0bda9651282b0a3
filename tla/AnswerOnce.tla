----------------------------- MODULE AnswerOnce ------------------------------
(***************************************************************************)
(* One call of answerQuery while nobody writes: the sequential behaviour   *)
(* of the authoritative engine, stated over the contents of the zone and   *)
(* not over the walk that finds the answer, and what becomes of it on the  *)
(* wire.                                                                   *)
(***************************************************************************)
EXTENDS AnswerQuery, Tsig

CONSTANTS Databases,   \* the databases a call may find
          Questions,   \* the questions [qname, qtype, tcp, edns]
          UdpSizes,    \* the sizes of datagrams clients advertise
          ClientKeys   \* the keys clients sign their requests with

ASSUME AnswerAssumption ==
  /\ \A d \in Databases : \A z \in DOMAIN d :
       z \in Seq(STRING) /\ d[z].rrs \in Seq(RRs(Seq(STRING)))
  /\ \A question \in Questions : question.qname \in Seq(STRING)
  /\ UdpSizes \subseteq Nat
  /\ ClientKeys \subseteq [name : Seq(STRING), secret : STRING]

VARIABLES db, frame
vars == <<db, frame>>

Init ==
  /\ db \in Databases
  /\ \E q \in Questions : frame = Start(q)

Call ==
  /\ frame.at # "done"
  /\ frame' = Step(db, frame)
  /\ UNCHANGED db

Next == Call

Spec == Init /\ [][Next]_vars /\ WF_vars(Next)

-----------------------------------------------------------------------------
q        == frame.q
resp     == frame.resp
Returned == frame.at = "done"
Records  == ToSet(ListZone(db, frame.zone))
RecordsAt(n, t) == {rr \in Records : rr.name = n /\ rr.type = t}

\* The owners of NS records inside the zone, qname or names above it.
DelegationsAbove ==
  {rr.name : rr \in {r \in Records : /\ r.type = "NS"
                                     /\ r.name # frame.zone
                                     /\ IsSubdomainOf(r.name, frame.zone)
                                     /\ IsSubdomainOf(q.qname, r.name)}}

\* qname lies in a part of the zone that NS records give away.  An NS or DS
\* question for a delegation point is not: the zone answers it itself, even when
\* another delegation lies above that point (engine.cpp:292-309).
Delegated ==
  /\ DelegationsAbove # {}
  /\ q.qname \in DelegationsAbove => q.qtype \notin {"NS", "DS"}

\* The wildcard owners that could stand for qname.
WildcardOwners ==
  {Wildcard(p) : p \in {n \in {rr.name : rr \in Records} \cup
                              {Parent(rr.name) : rr \in Records} :
                          n # q.qname /\ IsSubdomainOf(q.qname, n)
                                      /\ IsSubdomainOf(n, frame.zone)}}

\* The AA bit and the referral are decided by the zone's delegations alone: an
\* answer without AA is a referral, it carries the NS set of the delegation
\* point, and its glue is only the addresses of those servers
\* (engine.cpp:292-309, addGlue).
ReferralsAreExact ==
  Returned /\ resp.rcode # "REFUSED" =>
    /\ resp.aa <=> ~Delegated
    /\ ~resp.aa =>
         /\ resp.answers = << >>
         /\ resp.authority # << >>
         /\ \A i \in DOMAIN resp.authority :
              /\ resp.authority[i].type = "NS"
              /\ IsSubdomainOf(q.qname, resp.authority[i].name)
              /\ \A rr \in RecordsAt(resp.authority[i].target, "A") :
                   InZone(rr.name, frame.zone) => rr \in ToSet(resp.additional)
         /\ \A i \in DOMAIN resp.additional :
              \E j \in DOMAIN resp.authority :
                resp.additional[i].name = resp.authority[j].target

\* A negative answer denies only what is not there: neither the type nor an
\* alias at qname, nor a wildcard that covers it; NXDOMAIN moreover says that
\* no record is at the name or below it, and NODATA that one is
\* (engine.cpp:355-381, MemoryBackend::nameExists).
DenialsAreTrue ==
  Returned /\ resp.rcode # "REFUSED" /\ resp.aa /\ resp.answers = << >> =>
    /\ RecordsAt(q.qname, q.qtype) = {}
    /\ RecordsAt(q.qname, "CNAME") = {}
    /\ \A w \in WildcardOwners : RecordsAt(w, q.qtype) \cup RecordsAt(w, "CNAME") = {}
    /\ (resp.rcode = "NXDOMAIN") <=> \A rr \in Records : ~IsSubdomainOf(rr.name, q.qname)

\* A record as it answers for a wildcard that covers qname.
Synthesized(rr) == [rr EXCEPT !.name = q.qname]
CoversQname(n) == n = Wildcard(Parent(n)) /\ IsSubdomainOf(q.qname, Parent(n))

\* rr is of a set of records the zone has, and all of the set is in the answer: a
\* set at the owner, or at a wildcard above qname.  Or rr is what ANY gets.
AnswersForItsSet(rr) ==
  LET answered == ToSet(resp.answers)
  IN  \/ rr \in Records /\ RecordsAt(rr.name, rr.type) \subseteq answered
      \/ \E w \in Records :
           /\ CoversQname(w.name) /\ rr = Synthesized(w)
           /\ \A v \in RecordsAt(w.name, w.type) : Synthesized(v) \in answered
      \/ q.qtype = "ANY" /\ rr = Hinfo(q.qname)

\* The answer section is one chain from qname of sets of records of the zone,
\* each of them whole: each record is owned by qname or by the target of an alias
\* before it, is an alias or of the type asked for, and is in the zone or made
\* from a wildcard of it that covers qname; and no answer comes with NXDOMAIN
\* (engine.cpp:322-368).
AnswersFormAChain ==
  Returned =>
    /\ resp.answers # << >> => resp.rcode = "NOERROR"
    /\ \A i \in DOMAIN resp.answers :
         LET rr == resp.answers[i]
         IN  /\ rr.type \in {q.qtype, "CNAME"} \/ q.qtype = "ANY"
             /\ \/ rr.name = q.qname
                \/ \E j \in 1 .. i - 1 : /\ resp.answers[j].type = "CNAME"
                                         /\ resp.answers[j].target = rr.name
             /\ AnswersForItsSet(rr)

\* Every question is answered, CNAME loops and one-label zones included: the
\* chase is cut off after MaxHops and the wildcard walk stops at the apex or
\* the root (engine.cpp:322, 356, 370).
AlwaysReturns == <>Returned

-----------------------------------------------------------------------------
(* The messages.                                                           *)

\* makeResponse, with the OPT record of addEdns and the response.
Opt == [name |-> Root, type |-> "OPT", ttl |-> 0, target |-> Root, num |-> 0]
Message(qname, qtype, edns, r) ==
  [tc |-> FALSE, rcode |-> r.rcode, aa |-> r.aa,
   questions  |-> <<[qname |-> qname, qtype |-> qtype]>>,
   answers    |-> r.answers, authority |-> r.authority,
   additional |-> r.additional \o (IF edns THEN <<Opt>> ELSE << >>),
   tsig       |-> << >>]
Reply == Message(q.qname, q.qtype, q.edns, resp)

\* handleAxfr: the SOA, the other records and the SOA again in one message.  The
\* last SOA is taken if there are several; without one the transfer fails.
Transfer ==
  LET rrs  == ListZone(db, frame.zone)
      soas == {i \in DOMAIN rrs : rrs[i].type = "SOA"}
      last == << rrs[Max(soas)] >>
      rest == ElementsAt(rrs, DOMAIN rrs \ soas)
  IN  Message(frame.zone, "AXFR", FALSE,
              IF soas = {} THEN [EmptyResponse EXCEPT !.aa = TRUE, !.rcode = "SERVFAIL"]
              ELSE [EmptyResponse EXCEPT !.aa = TRUE, !.answers = last \o rest \o last])

Messages == {Reply} \cup (IF resp.rcode = "REFUSED" THEN {} ELSE {Transfer})

\* The names that others of a message share: the deepest name that both of two
\* names are or are below, a name that is used twice among them.
NamesOf(m) ==
  {rr.name : rr \in ToSet(m.answers \o m.authority \o m.additional)}
    \cup {m.questions[1].qname}
CommonAncestor(a, b) ==
  Deepest({n \in {Suffix(a, i) : i \in 1 .. Len(a) + 1} : IsSubdomainOf(b, n)})
Shared(names) == {CommonAncestor(a, b) : a \in names, b \in names} \ {Root}

\* Pointers lead only to shared names, and from one of them only to names above
\* it: more of these may follow each other than decodeName follows pointers.
Nested(names) == \A a, b \in names : IsSubdomainOf(a, b) \/ IsSubdomainOf(b, a)
DeeplyNested(m) == \E names \in kSubset(MaxJumps + 1, Shared(NamesOf(m))) : Nested(names)

\* What the server sends, or puts into its cache, means what it answered: a
\* message decodes to itself or, if its names are deeply nested, perhaps not at
\* all, and never to another one (dns.cpp:333-363, 365-409, 451-600; the cache
\* is read back with decodeMessage, engine.cpp:245; a secondary reads a transfer
\* with it, server.cpp:234).
MessagesDecode ==
  Returned => \A m \in Messages :
    LET d == DecodeMessage(EncodeMessage(m, 0))
    IN  IF d.ok THEN d.msg = m ELSE DeeplyNested(m)

\* A datagram is the whole message or, if that is longer than its limit, the
\* question with TC set and no record: never some of the records, and never a
\* question that points to a name that was cut off.  It keeps to the limit unless
\* that has no room for the question: what is left after the cut is not measured
\* again (dns.cpp:451-513, server.cpp:107-111).  A client that advertises 0 gets
\* everything.
DatagramsAreWhole ==
  Returned => \A size \in UdpSizes :
    LET limit == UdpLimit(q.edns, size)
        wire  == EncodeMessage(Reply, limit)
        d     == DecodeMessage(wire)
        whole == EncodeMessage(Reply, 0)
        cut   == [Reply EXCEPT !.tc = TRUE, !.answers = << >>, !.authority = << >>,
                               !.additional = << >>]
    IN  \/ wire = whole /\ (limit = 0 \/ Len(wire) <= limit)
        \/ /\ limit # 0 /\ Len(whole) > limit /\ d.ok /\ d.msg = cut
           /\ Len(wire) <= limit \/ Len(EncodeMessage(cut, 0)) > limit

\* What a client may sign: a request for a transfer, and an UPDATE that adds
\* every record of the zone.
Requests ==
  {Message(frame.zone, "AXFR", q.edns, EmptyResponse),
   Message(frame.zone, "SOA", q.edns,
           [EmptyResponse EXCEPT !.authority = ListZone(db, frame.zone)])}

\* A signed request that can be decoded is accepted if it was signed with the
\* server's key of that name and its time is not too far from now, and
\* otherwise not: the message that is encoded again for the check is, byte for
\* byte, the one that was signed, though it was compressed, decoded, and its
\* TSIG record sent along (tsig.cpp:99-135, 137-196, dns.cpp:451-596,
\* engine.cpp:461-468).
SignedIsAuthentic ==
  Returned => \A m \in Requests, key \in ClientKeys :
    LET d == DecodeMessage(EncodeMessage(SignMessage(m, key, Fudge + 1, Fudge), 0))
        ours == \E i \in DOMAIN TsigKeys : /\ TsigKeys[i] = key
                                           /\ \A j \in 1 .. i - 1 : TsigKeys[j].name # key.name
    IN  d.ok => \A now \in 0 .. 2 * Fudge + 2 :
          Authentic(d.msg, now) <=> now \in 1 .. 2 * Fudge + 1 /\ ours

=============================================================================
