----------------------------- MODULE MCBindFile ------------------------------
(* Instances of BindFileBackend: a zone in a file of its own choice, and a    *)
(* child zone that comes and goes.                                           *)
EXTENDS BindFileBackend

e == <<"e">>
c == <<"c", "e">>
Rr(name, type, num) ==
  [name |-> name, type |-> type, ttl |-> 60, target |-> Root, dot |-> TRUE, num |-> num]
Www == Rr(<<"www">> \o e, "A", 1)
Mail == Rr(<<"mail">> \o e, "A", 2)
Www6 == Rr(<<"www">> \o e, "AAAA", 3)
InChild == Rr(<<"www">> \o c, "A", 4)
Soa(z) == [Rr(z, "SOA", 1) EXCEPT !.target = <<"ns">> \o z]

MCZones == [z \in {e} |-> [file |-> <<"db", "e">>, rrs |-> <<Soa(e), Www>>]]
Req(kind, zone, ops) ==
  [kind |-> kind, zone |-> zone, ops |-> ops, soa |-> <<[Soa(zone) EXCEPT !.dot = FALSE]>>]
Add(rr) == Req("update", e, <<AddRecord(rr)>>)
Drop == Req("update", e, <<DeleteRrset(Www), AddRecord(Www6)>>)
AddChild == Req("update", c, <<AddRecord(InChild)>>)
Post == Req("POST", c, <<AddRecord(InChild)>>)
PostEmpty == Req("POST", c, << >>)
RemoveChild == Req("DELETE", c, << >>)
RemoveLast == Req("DELETE", e, << >>)

AllRequests == {Add(Mail), Drop, AddChild, Post, PostEmpty, RemoveChild, RemoveLast}
ASSUME RequestsAssumption == LegibleRequests /\ PlainRequests

MCNumerals == {}
MCLabels == {"e", "c", "www", "mail", "ns", "db", "garbled"}
=============================================================================
