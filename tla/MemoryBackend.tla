---------------------------- MODULE MemoryBackend ----------------------------
(***************************************************************************)
(* The in-memory backend (backend/memory.cpp): the value its mutex guards  *)
(* and the result or effect of each of its calls.  A database db maps the  *)
(* apex of every zone to [inc, rrs]: rrs is the record vector, and inc     *)
(* stands for the address of the MemZone, which an open transaction keeps  *)
(* as a raw pointer (a zone deleted and created again is another object).  *)
(*                                                                         *)
(* A record is [name, type, ttl, target, num]: target is the name in the   *)
(* rdata of NS, CNAME and MX, num the serial of a SOA and a stand-in for   *)
(* any other rdata.  The flag "disabled" is never set by this backend.     *)
(***************************************************************************)
EXTENDS DnsName, SequencesExt

Types == {"SOA", "NS", "A", "AAAA", "CNAME", "MX", "DS", "HINFO"}

RRs(names) ==
  [name : names, type : Types, ttl : Nat, target : names, num : Nat]

\* The elements of seq at some of its positions, in their order.
ElementsAt(seq, positions) ==
  FlattenSeq([i \in DOMAIN seq |-> IF i \in positions THEN <<seq[i]>> ELSE << >>])

-----------------------------------------------------------------------------
(* Reads, each one call under the backend's mutex.                         *)

\* The zones that enclose qname.
Enclosing(db, qname) == {z \in DOMAIN db : IsSubdomainOf(qname, z)}

\* MemoryBackend::findZone of a name that some zone encloses.
FindZone(db, qname) == Deepest(Enclosing(db, qname))

\* MemoryBackend::get and listZone: the records of a zone, none if it is gone.
ListZone(db, zone) == IF zone \in DOMAIN db THEN db[zone].rrs ELSE << >>

\* MemoryBackend::lookup.
Lookup(db, zone, qname, qtype) ==
  LET rrs == ListZone(db, zone)
  IN  ElementsAt(rrs, {i \in DOMAIN rrs : rrs[i].name = qname /\ qtype \in {"ANY", rrs[i].type}})

OwnerExists(db, zone, qname) ==
  \E i \in DOMAIN ListZone(db, zone) : ListZone(db, zone)[i].name = qname

\* MemoryBackend::nameExists: some record is at qname or below it.
NameExists(db, zone, qname) ==
  \E i \in DOMAIN ListZone(db, zone) :
    IsSubdomainOf(ListZone(db, zone)[i].name, qname)

\* The names from qname up to, not including, the apex of its zone that own an
\* NS set: where the upward walk of findDelegation may stop.
Cuts(db, zone, qname) ==
  {rr.name : rr \in {r \in ToSet(ListZone(db, zone)) :
                       /\ r.type = "NS"
                       /\ IsSubdomainOf(qname, r.name)
                       /\ Len(r.name) > Len(zone)}}

\* MemoryBackend::findDelegation when there is a cut: the walk starts at
\* qname and goes up, so the deepest one is found.
FindDelegation(db, zone, qname) == Deepest(Cuts(db, zone, qname))

-----------------------------------------------------------------------------
(* Writes.  A transaction collects operations [op, rr]; nothing is changed *)
(* before commit.                                                          *)

AddRecord(rr) == [op |-> "add", rr |-> rr]
DeleteRrset(rr) == [op |-> "rrset", rr |-> rr]
DeleteName(rr) == [op |-> "name", rr |-> rr]

\* MemoryTransaction::replaceRrset.
ReplaceRrset(rr, rrs) ==
  <<DeleteRrset(rr)>> \o [i \in DOMAIN rrs |-> AddRecord(rrs[i])]

Deletes(o, rr) ==
  /\ o.rr.name = rr.name
  /\ \/ o.op = "name"
     \/ o.op = "rrset" /\ o.rr.type = rr.type

\* The serial goes into the SOA at the apex.
SetApexSerial(rrs, apex, serial) ==
  [i \in DOMAIN rrs |-> IF rrs[i].type = "SOA" /\ rrs[i].name = apex
                        THEN [rrs[i] EXCEPT !.num = serial] ELSE rrs[i]]

\* MemoryTransaction::commit: every deletion of the transaction goes before
\* every addition, whatever their order was, and the new serial (a set: the
\* serial, or empty if none was given) is written last.
Commit(rrs, apex, ops, serial) ==
  LET kept == ElementsAt(rrs, {i \in DOMAIN rrs : \A j \in DOMAIN ops : ~Deletes(ops[j], rrs[i])})
      adds == ElementsAt([i \in DOMAIN ops |-> ops[i].rr], {i \in DOMAIN ops : ops[i].op = "add"})
  IN  IF serial = {} THEN kept \o adds
      ELSE SetApexSerial(kept \o adds, apex, CHOOSE s \in serial : TRUE)

\* MemoryBackend::createZone, for a zone that does not exist yet.
CreateZone(db, zone, inc, soa) ==
  [z \in DOMAIN db \cup {zone} |->
     IF z = zone
     THEN [inc |-> inc, rrs |-> <<[soa EXCEPT !.name = zone, !.type = "SOA"]>>]
     ELSE db[z]]

\* MemoryBackend::deleteZone.
DeleteZone(db, zone) == [z \in DOMAIN db \ {zone} |-> db[z]]

=============================================================================
