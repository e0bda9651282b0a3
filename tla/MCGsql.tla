-------------------------------- MODULE MCGsql --------------------------------
(* Two zones in an SQL database, and writers that update one of them, delete *)
(* it, make another one, or one that exists.                                 *)
EXTENDS GsqlBackend

Rec(n, t, i) == [name |-> n, type |-> t, ttl |-> 60, target |-> Root, num |-> i]
e == <<"e">>
c == <<"c", "e">>
f == <<"f">>
a == <<"a", "e">>

MCZones == [z \in {e, c} |-> {Rec(z, "SOA", 1)} \cup IF z = e THEN {} ELSE {Rec(c, "A", 1)}]

Request(kind, zone, calls) == [kind |-> kind, zone |-> zone, calls |-> calls, soa |-> << >>]
Post(zone, calls) == [Request("POST", zone, calls) EXCEPT !.soa = <<Rec(zone, "SOA", 0)>>]

\* RFC 2136 update of c: its address is deleted, another one and a name are added.
Move == Request("UPDATE", c, << <<DeleteRrset(Rec(c, "A", 0))>>, <<AddRecord(Rec(c, "A", 2))>> >>)
\* PATCH of the same set: a replacement is one call of two statements.
Replace == Request("PATCH", c, <<ReplaceRrset(Rec(c, "A", 0), <<Rec(c, "A", 3)>>)>>)
\* Update of c that only deletes.
Strip == Request("UPDATE", c, << <<DeleteRrset(Rec(c, "A", 0))>> >>)
Erase == Request("DELETE", c, << >>)
Make == Post(f, << <<AddRecord(Rec(f, "A", 4))>> >>)
Again == Post(c, << >>)

MCRequests == {Move, Strip, Replace, Erase, Make, Again}

\* The records of the instance are within their zones.
ASSUME MCAssumption == HomeRequests

Sym == Permutations(Writers)
=============================================================================
