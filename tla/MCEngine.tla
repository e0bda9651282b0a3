------------------------------- MODULE MCEngine ------------------------------
(* Instances of Engine: one zone with an address, or a zone and a child zone *)
(* that the API creates and deletes.                                         *)
EXTENDS EngineProperties

Rec(n, t, i) == [name |-> n, type |-> t, ttl |-> 60, target |-> Root, num |-> i]
e == <<"e">>
a == <<"a", "e">>
c == <<"c", "e">>
ac == <<"a", "c", "e">>
lc == <<"l", "c", "e">>
Loop(n) == [Rec(n, "CNAME", 0) EXCEPT !.target = n]
Ask(n, t) == [qname |-> n, qtype |-> t, tcp |-> FALSE, edns |-> FALSE]
Item(class, rr) == [class |-> class, empty |-> class # "IN", rr |-> rr]
Set(rr) == [change |-> "replace", rr |-> rr, rrs |-> <<rr>>]

\* One zone with one name.
OneZone == [z \in {e} |-> [inc |-> 1, rrs |-> <<Rec(e, "SOA", 1), Rec(a, "A", 1)>>]]
OneQueries == {Ask(a, "A"), Ask(a, "AAAA"), Ask(<<"y">>, "A")}
AddUpdate == [zone |-> e, auth |-> "acl", section |-> <<Item("IN", Rec(a, "A", 2))>>]
DropUpdate == [zone |-> e, auth |-> "key", section |-> <<Item("ANY", Rec(a, "ANY", 0))>>]
Denied == [zone |-> e, auth |-> "badsig", section |-> << >>]
OneUpdates == {AddUpdate, DropUpdate, Denied}
OnePatches == {[kind |-> "PATCH", zone |-> e, rrsets |-> <<Set(Rec(a, "AAAA", 3))>>]}

\* A child zone, with an alias that points to itself, comes and goes.
TwoZones == [z \in {e, c} |->
  IF z = e THEN [inc |-> 1, rrs |-> <<Rec(e, "SOA", 1)>>]
           ELSE [inc |-> 2, rrs |-> <<Rec(c, "SOA", 1), Rec(ac, "A", 3), Loop(lc)>>]]
ChildQueries == {Ask(ac, "A"), Ask(lc, "A")}
ChildUpdates == {[zone |-> ac, auth |-> "acl", section |-> <<Item("IN", Rec(ac, "A", 5))>>]}
ChildPost == [kind |-> "POST", zone |-> c,
  rrsets |-> <<Set(Rec(c, "SOA", 0)), Set(Rec(ac, "A", 4))>>]
ChildDelete == [kind |-> "DELETE", zone |-> c, rrsets |-> << >>]
ChildRequests == {ChildPost, ChildDelete}
NoRequests == {}

Sym == Permutations(Workers)
=============================================================================
