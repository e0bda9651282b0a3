------------------------------- MODULE DnsName -------------------------------
(***************************************************************************)
(* Domain names as class DnsName keeps them (protocol/dns.cpp): the        *)
(* sequence of their labels, most specific label first, the root being the *)
(* empty sequence.  The code compares labels without case (toLower), so a  *)
(* label here stands for its lower-case form and equals() is =.            *)
(***************************************************************************)
EXTENDS Integers, Sequences

\* The label of a wildcard owner.
Star == "*"

\* DnsName::root.
Root == << >>

\* DnsName::wildcard: the name *.parent.
Wildcard(parent) == <<Star>> \o parent

\* DnsName::isWildcard.
IsWildcard(n) == n # Root /\ n[1] = Star

\* DnsName::parent: drop the first label; the root is its own parent.
Parent(n) == IF Len(n) > 1 THEN SubSeq(n, 2, Len(n)) ELSE Root

\* DnsName::isSubdomainOf: the last labels of n are those of z (reflexive).
IsSubdomainOf(n, z) ==
  /\ Len(n) >= Len(z)
  /\ \A i \in 1 .. Len(z) : n[Len(n) - Len(z) + i] = z[i]

\* DnsName::makeRelative: cut the origin off a name below it.
MakeRelative(n, origin) ==
  IF IsSubdomainOf(n, origin)
  THEN SubSeq(n, 1, Len(n) - Len(origin))
  ELSE n

\* DnsName::qualify: append the origin to a relative name.
Qualify(n, origin) == n \o origin

\* The name with most labels in a nonempty set of names that are all suffixes
\* of one name, so that no two of them have the same number of labels.
Deepest(names) == CHOOSE n \in names : \A m \in names : Len(m) <= Len(n)

=============================================================================
