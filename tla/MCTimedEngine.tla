--------------------------- MODULE MCTimedEngine ----------------------------
(* Two hosts and two answers for TimedEngine; one has a record of TTL 0.    *)
EXTENDS TimedEngine

CONSTANTS t1, t2, h1, h2, k1, k2

MCThreads == {t1, t2}
MCHosts == {h1, h2}

MCKeys == {k1, k2}
Sym == Permutations(Threads) \cup Permutations(Hosts)
MCTtls == [k \in MCKeys |-> IF k = k1 THEN <<1, 2>> ELSE <<1, 0>>]

=============================================================================
