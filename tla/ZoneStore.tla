------------------------------ MODULE ZoneStore -------------------------------
(***************************************************************************)
(* What a backend promises to the engine and the API, whatever it keeps    *)
(* its zones in: zones as sets of records.  A zone is created empty and    *)
(* then given its SOA, emptied and then dropped; the changes of a          *)
(* transaction appear in one step and in no zone but the one it was begun  *)
(* for.  The promise does not hold for a zone that is torn: there a        *)
(* statement failed, or ran outside its transaction.                       *)
(***************************************************************************)
EXTENDS MemoryBackend, FiniteSets

CONSTANTS
  Changes,    \* the changes transactions make, each a sequence of operations
  Soas,       \* the SOA records zones are created with
  Serials     \* the serials

VARIABLES
  store,      \* zone -> the set of its records
  torn        \* the zones nothing is promised for

vars == <<store, torn>>

ApplyOp(rrs, op) ==
  IF op.op = "add" THEN rrs \cup {op.rr} ELSE {rr \in rrs : ~Deletes(op, rr)}

\* The serial (a set: empty if none is set) goes into every SOA of the zone.
WithSerial(rrs, serial) ==
  {IF rr.type = "SOA" /\ serial # {} THEN [rr EXCEPT !.num = CHOOSE s \in serial : TRUE]
                                     ELSE rr : rr \in rrs}

\* The records after a transaction.
Updated(rrs, ops, serial) == WithSerial(FoldLeft(ApplyOp, rrs, ops), serial)

Init ==
  /\ \A z \in DOMAIN store : IsFiniteSet(store[z])
  /\ torn = {}

\* Every other zone stays as it is.
Others(zone) ==
  /\ DOMAIN store' \ {zone} = DOMAIN store \ {zone}
  /\ \A z \in DOMAIN store \ {zone} : store'[z] = store[z]

Create(zone) == zone \notin DOMAIN store /\ zone \in DOMAIN store' /\ store'[zone] = {}

GiveSoa(zone) ==
  /\ zone \in DOMAIN store \cap DOMAIN store'
  /\ \E soa \in Soas : soa.name = zone /\ store'[zone] = store[zone] \cup {soa}

Transaction(zone) ==
  /\ zone \in DOMAIN store \cap DOMAIN store'
  /\ \E ops \in Changes, serial \in {{}} \cup {{s} : s \in Serials} :
       store'[zone] = Updated(store[zone], ops, serial)

Clear(zone) == zone \in DOMAIN store \cap DOMAIN store' /\ store'[zone] = {}

Drop(zone) == zone \in DOMAIN store /\ zone \notin DOMAIN store'

Change(zone) ==
  /\ Others(zone)
  /\ \/ Create(zone) \/ GiveSoa(zone) \/ Transaction(zone) \/ Clear(zone) \/ Drop(zone)
     \/ zone \in torn'

Next ==
  /\ torn \subseteq torn'
  /\ store' # store => \E zone \in DOMAIN store \cup DOMAIN store' : Change(zone)

Spec == Init /\ [][Next]_vars
=============================================================================
