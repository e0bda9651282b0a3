---------------------------- MODULE MCAnswerOnce -----------------------------
(* Small zones for AnswerOnce: every subset of a pool of records that makes *)
(* aliases, alias loops, aliases that leave the zone, wildcards, a          *)
(* delegation with glue inside and records hidden below it.                 *)
EXTENDS AnswerOnce

Rec(n, t, target, i) == [name |-> n, type |-> t, ttl |-> 60, target |-> target, num |-> i]

e == <<"e">>
In(label) == <<label>> \o e
deep == <<"x", "d">> \o e

Fixed == <<Rec(e, "SOA", Root, 1), Rec(e, "MX", In("a"), 5)>>

Pool == << Rec(In("a"), "A", Root, 1),
           Rec(In("a"), "CNAME", In("b"), 0),
           Rec(In("b"), "CNAME", In("a"), 0),
           Rec(In("b"), "CNAME", <<"y">>, 0),
           Rec(In("*"), "A", Root, 2),
           Rec(In("*"), "CNAME", In("b"), 0),
           Rec(In("d"), "NS", deep, 0),
           Rec(deep, "A", Root, 3) >>

\* Aliases below each other: more pointers in a row than are followed.
chain == << Rec(In("a"), "CNAME", <<"b">> \o In("a"), 0),
            Rec(<<"b">> \o In("a"), "CNAME", <<"c", "b">> \o In("a"), 0),
            Rec(<<"c", "b">> \o In("a"), "A", Root, 1),
            Rec(<<"c", "b">> \o In("a"), "A", Root, 2) >>

\* More pointers in a row though no two owners are below each other.
forks == << Rec(<<"a", "b">> \o e, "A", Root, 1),
            Rec(<<"c", "d", "b">> \o e, "A", Root, 2),
            Rec(<<"f", "d", "b">> \o e, "A", Root, 3) >>

\* A delegation below another one, with a wildcard hidden between them.
nested == << Rec(In("d"), "NS", In("a"), 0),
             Rec(deep, "NS", In("a"), 0),
             Rec(<<"*", "d">> \o e, "A", Root, 4),
             Rec(In("a"), "A", Root, 1) >>

\* A wildcard below another one, which does not stand for what the other does.
wilds == << Rec(In("*"), "A", Root, 2), Rec(<<"*", "d">> \o e, "CNAME", In("b"), 0) >>

Zone(rrs) == [z \in {e} |-> [inc |-> 1, rrs |-> rrs]]
MCDatabases ==
  {Zone(rrs) : rrs \in {forks, <<Fixed[1]>> \o forks}} \cup
  {Zone(Fixed \o rrs) :
     rrs \in {chain, nested, wilds} \cup {SelectSeq(Pool, LAMBDA rr : rr \in s) : s \in SUBSET ToSet(Pool)}}

MCQuestions ==
  [qname : {e, In("a"), In("d"), deep, <<"n", "m">> \o e, <<"y">>},
   qtype : {"A", "NS", "CNAME", "MX", "ANY"}, tcp : {FALSE}, edns : {FALSE}]
    \cup [qname : {In("a"), In("d")}, qtype : {"A"}, tcp : {FALSE}, edns : {TRUE}]

\* The server's key, one of the same name that was added later, and the keys of
\* clients: either, and one the server does not have.
Key(name, secret) == [name |-> name, secret |-> secret]
MCTsigKeys == <<Key(In("k"), "s"), Key(In("k"), "later")>>
MCClientKeys == {Key(In("k"), "s"), Key(In("k"), "later"), Key(In("j"), "s")}

=============================================================================
