----------------------------- MODULE AnswerQuery -----------------------------
(***************************************************************************)
(* AuthoritativeEngine::answerQuery (core/engine.cpp) as a sequence of     *)
(* steps, each of which makes exactly one call of the backend, the unit    *)
(* that its mutex makes atomic.  Between two steps any other thread may    *)
(* commit.  A frame holds what the function has on its stack:              *)
(*   at    - the next call; "done" when the response is complete           *)
(*   q     - the question [qname, qtype, tcp, edns]                        *)
(*   zone  - the zone found for qname                                      *)
(*   name  - the delegation point, the name chased or the wildcard parent  *)
(*   found - the records of the first of two paired lookups                *)
(*   hop   - CNAME hops made                                               *)
(*   todo  - glue lookups still to make                                    *)
(*   resp  - the response so far                                           *)
(* EDNS and the counters of ServerStats are left out of the response.      *)
(***************************************************************************)
EXTENDS MemoryBackend

CONSTANT MaxHops   \* CNAME hops answerQuery follows: 8 in the code

ASSUME MaxHopsAssumption == MaxHops \in Nat \ {0}

EmptyResponse == [rcode |-> "NOERROR", aa |-> FALSE,
                  answers |-> << >>, authority |-> << >>, additional |-> << >>]

Start(q) == [at |-> "zone", q |-> q, zone |-> Root, name |-> q.qname,
             found |-> << >>, hop |-> 0, todo |-> << >>, resp |-> EmptyResponse]

InZone(name, zone) == IsSubdomainOf(name, zone)

\* makeHinfo: the answer to a question of type ANY (RFC 8482).
Hinfo(qname) ==
  [name |-> qname, type |-> "HINFO", ttl |-> 3600, target |-> Root, num |-> 0]

\* The name addGlue parses out of a record's content.  An MX content starts
\* with the preference, which DnsName::parse takes as part of the first label.
GlueTarget(rr) ==
  IF rr.type = "MX" THEN <<"preference and host">> \o Parent(rr.target) ELSE rr.target

\* addGlue: the lookups it makes for a set of NS or MX records.
GlueLookups(zone, rrs) ==
  FlattenSeq([i \in DOMAIN rrs |->
    LET target == GlueTarget(rrs[i])
    IN  IF InZone(target, zone) THEN << <<target, "A">>, <<target, "AAAA">> >>
                                ELSE << >>])

AddAnswers(f, rrs) == [f EXCEPT !.resp.answers = @ \o rrs]

Done(f) == [f EXCEPT !.at = "done", !.found = << >>]

\* Look up the glue of rrs, then finish.
WithGlue(f, rrs) ==
  LET todo == GlueLookups(f.zone, rrs)
  IN  IF todo = << >> THEN Done(f) ELSE [f EXCEPT !.at = "glue", !.todo = todo]

\* The condition of the wildcard loop, evaluated for the next parent.
TryWildcard(f, parent) ==
  [f EXCEPT !.name = parent, !.found = << >>,
            !.at = IF InZone(parent, f.zone) \/ parent = Root THEN "wild" ELSE "exists"]

-----------------------------------------------------------------------------
(* One operator per backend call.                                          *)

ZoneStep(db, f) ==
  IF Enclosing(db, f.q.qname) = {}
  THEN Done([f EXCEPT !.resp.rcode = "REFUSED"])
  ELSE [f EXCEPT !.zone = FindZone(db, f.q.qname), !.at = "cut"]

CutStepApexOnly(db, f) ==
  LET isCut == Cuts(db, f.zone, f.q.qname) # {}
      cut  == FindDelegation(db, f.zone, f.q.qname)
  IN  IF isCut /\ cut # f.q.qname
      THEN [f EXCEPT !.name = cut, !.at = "referral"]
      ELSE [f EXCEPT !.resp.aa = TRUE, !.at = "cname"]

CutStep(db, f) ==
  LET q    == f.q
      isCut == Cuts(db, f.zone, q.qname) # {}
      cut  == FindDelegation(db, f.zone, q.qname)
      auth == [f EXCEPT !.resp.aa = TRUE]
  IN  IF isCut /\ (cut # q.qname \/ q.qtype \notin {"NS", "DS"})
      THEN [f EXCEPT !.name = cut, !.at = "referral"]
      ELSE IF q.qtype = "ANY"
           THEN Done(AddAnswers(auth, <<Hinfo(q.qname)>>))
           ELSE [auth EXCEPT !.at = "cname"]

ReferralStep(db, f) ==
  LET ns == Lookup(db, f.zone, f.name, "NS")
  IN  WithGlue([f EXCEPT !.resp.authority = @ \o ns], ns)

GlueStep(db, f) ==
  LET call == Head(f.todo)
      g    == [f EXCEPT !.resp.additional = @ \o Lookup(db, f.zone, call[1], call[2]),
                        !.todo = Tail(@)]
  IN  IF g.todo = << >> THEN Done(g) ELSE g

CnameStep(db, f) ==
  [f EXCEPT !.found = Lookup(db, f.zone, f.name, "CNAME"), !.at = "match"]

MatchStepUnbounded(db, f) ==
  LET match  == Lookup(db, f.zone, f.name, f.q.qtype)
      target == f.found[1].target
  IN  IF f.q.qtype # "CNAME" /\ f.found # << >>
      THEN [f EXCEPT !.name = target, !.found = << >>, !.at = "cname"]
      ELSE IF match # << >> THEN Done(AddAnswers(f, match))
      ELSE TryWildcard(f, Parent(f.q.qname))

MatchStep(db, f) ==
  LET match   == Lookup(db, f.zone, f.name, f.q.qtype)
      isAlias == f.q.qtype # "CNAME" /\ f.found # << >>
      target  == f.found[1].target
      next    == [AddAnswers(f, f.found) EXCEPT !.name = target, !.hop = @ + 1,
                                                !.found = << >>]
  IN  CASE isAlias /\ ~InZone(target, f.zone) -> Done(next)
        [] isAlias /\ InZone(target, f.zone) ->
             IF next.hop < MaxHops THEN [next EXCEPT !.at = "cname"]
                                   ELSE TryWildcard(next, Parent(f.q.qname))
        [] ~isAlias /\ match # << >> ->
             LET g == AddAnswers([f EXCEPT !.found = << >>], match)
             IN  IF f.q.qtype \in {"NS", "MX"} THEN WithGlue(g, match) ELSE Done(g)
        [] OTHER -> TryWildcard(f, Parent(f.q.qname))

WildStep(db, f) ==
  [f EXCEPT !.found = Lookup(db, f.zone, Wildcard(f.name), f.q.qtype),
            !.at = "wildcname"]

WildCnameStepOwnerKept(db, f) ==
  LET cname == Lookup(db, f.zone, Wildcard(f.name), "CNAME")
      wild  == IF f.found = << >> THEN cname ELSE f.found
  IN  IF wild # << >> THEN Done(AddAnswers(f, wild))
      ELSE IF f.name \in {f.zone, Root} THEN [f EXCEPT !.at = "exists"]
      ELSE TryWildcard(f, Parent(f.name))

WildCnameStep(db, f) ==
  LET cname == Lookup(db, f.zone, Wildcard(f.name), "CNAME")
      wild  == IF f.found = << >> THEN cname ELSE f.found
      synth == [i \in DOMAIN wild |-> [wild[i] EXCEPT !.name = f.q.qname]]
  IN  IF wild # << >> THEN Done(AddAnswers(f, synth))
      ELSE IF f.name \in {f.zone, Root} THEN [f EXCEPT !.at = "exists"]
      ELSE TryWildcard(f, Parent(f.name))

ExistsStep(db, f) ==
  [f EXCEPT !.at = "soa",
            !.resp.rcode = IF NameExists(db, f.zone, f.q.qname) THEN @ ELSE "NXDOMAIN"]

\* addSoa.
SoaStep(db, f) ==
  Done([f EXCEPT !.resp.authority = @ \o Lookup(db, f.zone, f.zone, "SOA")])

Step(db, f) ==
  CASE f.at = "zone"      -> ZoneStep(db, f)
    [] f.at = "cut"       -> CutStep(db, f)
    [] f.at = "referral"  -> ReferralStep(db, f)
    [] f.at = "glue"      -> GlueStep(db, f)
    [] f.at = "cname"     -> CnameStep(db, f)
    [] f.at = "match"     -> MatchStep(db, f)
    [] f.at = "wild"      -> WildStep(db, f)
    [] f.at = "wildcname" -> WildCnameStep(db, f)
    [] f.at = "exists"    -> ExistsStep(db, f)
    [] f.at = "soa"       -> SoaStep(db, f)

\* How many backend calls a question takes at most, when nothing is written
\* meanwhile: for the zone, its delegations and the denial, two for every hop
\* and every name of the wildcard walk, and two for the addresses of a server.
MaxCalls(db, q) ==
  IF Enclosing(db, q.qname) = {} THEN 1
  ELSE 6 + 2 * MaxHops + 2 * Len(q.qname) + 2 * Len(ListZone(db, FindZone(db, q.qname)))

\* The frame after n of these calls.
Goes(db, f) == IF f.at = "done" THEN f ELSE Step(db, f)
Run(db, q) ==
  LET run[n \in 0 .. MaxCalls(db, q)] == IF n = 0 THEN Start(q) ELSE Goes(db, run[n - 1])
  IN  run

Answer(db, q) == Run(db, q)[MaxCalls(db, q)].resp

=============================================================================
