---------------------------- MODULE MCZoneReload -----------------------------
(* Every subset of a pool of records, in the order of the pool.              *)
EXTENDS ZoneReload

O == <<"e">>
In(owner) == owner \o O
Rr(name, type, target, dot, num) ==
  [name |-> name, type |-> type, ttl |-> 60, target |-> target, dot |-> dot, num |-> num]
Host(name, type, target, dot) == Rr(name, type, target, dot, 0)
Addr(name, num) == Rr(name, "A", Root, TRUE, num)

Pool ==
  <<Rr(O, "SOA", In(<<"www">>), TRUE, 1),
    Host(O, "NS", In(<<"www">>), TRUE),           \* absolute
    Host(O, "MX", In(<<"mail">>), FALSE),         \* in full, without the dot
    Addr(In(<<"www">>), 1),
    Host(In(<<"*">>), "CNAME", In(<<"www">>), TRUE),
    Addr(In(<<"b", "www">>), 2),
    Addr(<<"x", "f">>, 3),                        \* out of the zone
    Addr(In(<<"ns">>), 4),                        \* the words of the syntax
    Addr(In(<<"10">>), 5),
    Host(In(<<"mx">>), "CNAME", In(<<"www">>), TRUE)>>

Chosen(s) == SelectSeq(Pool, LAMBDA rr : rr \in s)
MCContents == {Chosen(s) : s \in SUBSET ToSet(Pool)}
MCLabels ==
  {"e", "www", "mail", "*", "b", "x", "f", "ns", "10", "mx", "db", "zone", "garbled"}
MCNumerals == {"10"}

Master == [zone |-> O, file |-> DefaultFile(O), kind |-> "master", masters |-> {}]
Slave == [zone |-> O, file |-> <<"db", "e">>, kind |-> "slave", masters |-> {"192.0.2.1"}]
MCEntries ==
  {Master, Slave, [Slave EXCEPT !.masters = {}], [Master EXCEPT !.kind = "native", !.file = Root]}
=============================================================================
