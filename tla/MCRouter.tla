------------------------------ MODULE MCRouter -------------------------------
(* A zone and one below it, each in one, both or neither of two backends.    *)
EXTENDS Router, TLC

e == <<"e">>
s == <<"s", "e">>
h == <<"h", "s", "e">>

MCLaunches == {<<"bind", "sqlite">>, <<"sqlite", "bind">>, <<"memory", "pgsql">>,
               <<"pgsql", "bind">>}
MCNames == {<<{e, s}, {e, s}>>, <<{e}, {s, e}>>, <<{s}, {e}>>, <<{e}, {}>>}

Job(kind, zone, dest) == [kind |-> kind, zone |-> zone, rrs |-> {h}, dest |-> dest]
MCJobs ==
  {Job(k, s, 1) : k \in {"list", "delete", "patch", "post", "import"}}
    \cup {Job("update", h, 1), Job("delete", e, 1), Job("copy", s, 2)}

Sym == Permutations(Actors)
=============================================================================
