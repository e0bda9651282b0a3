----------------------------- MODULE MCSecondary ------------------------------
(* Two slave zones: one of two records, which an update may make too large   *)
(* for a message or leave without a SOA, and a small one.                    *)
EXTENDS Secondary

Rec(n, t, i) == [name |-> n, type |-> t, ttl |-> 60, target |-> Root, num |-> i]
e == <<"e">>
f == <<"f">>
a == <<"a", "e">>
b == <<"b", "e">>
l == <<"l", "e">>

Holding(records) == [inc |-> 1, rrs |-> records]
MCPrimary == [z \in {e, f} |->
  IF z = e THEN Holding(<<Rec(e, "SOA", 1), Rec(a, "A", 1)>>)
           ELSE Holding(<<Rec(f, "SOA", 1)>>)]
MCSecondaryZones == [z \in {e, f} |-> Holding(<<Rec(z, "SOA", 0)>>)]

Update(ops, serial) == [zone |-> e, ops |-> ops, serial |-> serial]
MCUpdates == {
  Update(<<DeleteRrset(Rec(a, "A", 0)), AddRecord(Rec(a, "A", 2))>>, {2}),
  Update(<<AddRecord(Rec(b, "A", 3))>>, {3}),
  Update(<<DeleteRrset(Rec(e, "SOA", 0))>>, {}) }
MCLocal == {Rec(l, "A", 9)}
=============================================================================
