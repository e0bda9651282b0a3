----------------------------- MODULE RouterProofs -----------------------------
(***************************************************************************)
(* Proofs about Router, for any backends, zones, threads and jobs, and any *)
(* number of zones made and deleted by others.                             *)
(***************************************************************************)
EXTENDS Router, TLAPS, FiniteSetTheorems, WellFoundedInduction

Name == Seq(STRING)

\* The zones of the backends.  In SQL an id is one zone's, and none is larger
\* than the last one given out.
StoreInv ==
  /\ kinds \in Launches
  /\ DOMAIN zones = Backends /\ DOMAIN lastId = Backends
  /\ \A b \in Backends :
       /\ \A z \in zones[b] : z = [id |-> z.id, name |-> z.name, rrs |-> z.rrs] /\ z.name \in Name
       /\ IsSql(b) => /\ lastId[b] \in Nat
                      /\ \A z \in zones[b] : z.id \in Nat /\ 1 <= z.id /\ z.id <= lastId[b]
                      /\ \A y, z \in zones[b] : y.id = z.id => y = z

\* The part of a search that is over: of the zones in the backends bs that
\* enclose the name, and that nobody has touched, what was found is the deepest,
\* and in the first backend that has it.
Covered(a, bs) ==
  \A b \in bs : \A z \in zones[b] :
    IsSubdomainOf(job[a].zone, z.name) /\ z.name \notin moved[a] =>
      /\ best[a].from # 0
      /\ Len(z.name) < Len(best[a].name) \/ (z.name = best[a].name /\ best[a].from <= b)

\* What was found is where it was found, unless it was touched; in pgsql its id
\* is never another's.
Found(a) ==
  LET z == best[a]
  IN  /\ z.from \in Backends /\ z.name \in Name /\ IsSubdomainOf(job[a].zone, z.name)
      /\ z.name \notin moved[a] =>
           \E y \in zones[z.from] : y.name = z.name /\ (z.id # 0 /\ IsSql(z.from) => y.id = z.id)
      /\ kinds[z.from] = "pgsql" /\ z.id # 0 =>
           /\ z.id \in Nat /\ 1 <= z.id /\ z.id <= lastId[z.from]
           /\ \A y \in zones[z.from] : y.id = z.id => y.name = z.name

\* The search is over, or the ZoneInfo was made up for a zone made in the first.
Searched(a) ==
  \/ Covered(a, Backends)
  \/ best[a].id = 0 /\ best[a].from = 1 /\ best[a].name = job[a].zone

\* Whether backend b has a zone of the name that was found.
Has(a, b) == best[a].name \in Names(zones[b])

ActorInv(a) ==
  /\ pc[a] \in {"idle", "find", "own", "call", "make", "refind", "fill"}
  /\ at[a] \in Backends
  /\ pc[a] # "idle" => job[a].zone \in Name /\ job[a].dest \in Backends
  /\ best[a].from \in Backends \cup {0}
  /\ pc[a] \in {"find", "idle"} => best[a] = NoZone \/ (pc[a] = "find" /\ Found(a))
  /\ pc[a] = "make" => /\ job[a].kind \in {"copy", "post", "import"}
                       /\ job[a].kind # "copy" => best[a] = NoZone /\ at[a] = 1
  /\ pc[a] = "find" => Covered(a, 1 .. at[a] - 1) /\ best[a].from < at[a]
  /\ pc[a] \in {"own", "call"} =>
       /\ Found(a) /\ Searched(a)
       /\ best[a].name \notin moved[a] => \A b \in 1 .. at[a] - 1 : ~Has(a, b)
  /\ pc[a] = "call" /\ best[a].name \notin moved[a] => Has(a, at[a])
  /\ pc[a] = "fill" => best[a].from \in Backends

DomainsInv ==
  /\ DOMAIN pc = Actors /\ DOMAIN job = Actors /\ DOMAIN at = Actors
  /\ DOMAIN best = Actors /\ DOMAIN got = Actors /\ DOMAIN moved = Actors

RouterInv == StoreInv /\ DomainsInv /\ \A a \in Actors : ActorInv(a)

-----------------------------------------------------------------------------
(* Numbers and names.                                                      *)

LEMMA FirstBackend ==
  ASSUME kinds \in Launches
  PROVE  /\ Backends = 1 .. Len(kinds) /\ Len(kinds) \in Nat /\ 1 \in Backends
         /\ \A b \in Backends : kinds[b] \in Kinds
BY RouterAssumption DEF Backends

\* A finite set of numbers that is not empty has a largest one, and MaxId is it.
LEMMA MaxIdIsLargest ==
  ASSUME NEW ids \in SUBSET Nat, IsFiniteSet(ids)
  PROVE  /\ MaxId(ids) \in Nat /\ \A i \in ids : i <= MaxId(ids)
         /\ ids # {} => MaxId(ids) \in ids
<1>1. CASE ids = {}
  BY <1>1 DEF MaxId
<1>2. CASE ids # {}
  <2> DEFINE Above(x) == {y \in ids : x <= y}
             aboves == {Above(x) : x \in ids}
  <2>1. aboves \subseteq FiniteSubsetsOf(ids)
    <3>1. \A x \in ids : Above(x) \in SUBSET ids /\ IsFiniteSet(Above(x))
      BY FS_Subset
    <3> QED
      BY <3>1 DEF FiniteSubsetsOf
  <2>2. aboves # {}
    BY <1>2
  <2>3. PICK m \in aboves : \A n \in aboves : ~(<<n, m>> \in StrictSubsetOrdering(ids))
    <3> HIDE DEF aboves
    <3> QED
      BY <2>1, <2>2, FS_StrictSubsetOrderingWellFounded, WFMin
  <2>4. PICK x \in ids : m = Above(x)
    BY <2>3
  <2>5. \A y \in ids : y <= x
    <3> SUFFICES ASSUME NEW y \in ids, ~(y <= x) PROVE FALSE
      OBVIOUS
    <3>0. x \in Nat /\ y \in Nat /\ x < y /\ \A i \in ids : i \in Nat
      OBVIOUS
    <3>1. Above(y) \subseteq Above(x) /\ x \in Above(x) /\ x \notin Above(y)
      <4>1. \A w \in ids : y <= w => x <= w
        BY <3>0
      <4>2. x <= x /\ ~(y <= x)
        BY <3>0
      <4> QED
        BY <4>1, <4>2
    <3>2. Above(y) \in SUBSET ids /\ Above(x) \in SUBSET ids /\ Above(y) \in aboves
      OBVIOUS
    <3> HIDE DEF Above, aboves
    <3>3. <<Above(y), m>> \in StrictSubsetOrdering(ids)
      BY <2>4, <3>1, <3>2 DEF StrictSubsetOrdering
    <3> QED
      BY <2>3, <3>2, <3>3
  <2> HIDE DEF Above, aboves
  <2> QED
    BY <1>2, <2>5 DEF MaxId
<1> QED
  BY <1>1, <1>2

LEMMA EnclosesItself ==
  ASSUME NEW n \in Name
  PROVE  IsSubdomainOf(n, n)
BY DEF Name, IsSubdomainOf

\* Of the names that enclose one there is one of each length.
LEMMA OneOfEachLength ==
  ASSUME NEW n \in Name, NEW y \in Name, NEW z \in Name,
         IsSubdomainOf(n, y), IsSubdomainOf(n, z), Len(y) = Len(z)
  PROVE  y = z
<1>1. \A i \in 1 .. Len(y) : y[i] = z[i]
  BY DEF IsSubdomainOf, Name
<1> QED
  BY <1>1 DEF Name

-----------------------------------------------------------------------------
(* What the backends do.                                                   *)

\* No zone comes or goes but those of the given names, and an id of pgsql that
\* was given out stays with its name.
Evolves(names) ==
  \A b \in Backends :
    /\ \A z \in zones'[b] : z.name \notin names => \E y \in zones[b] : y.name = z.name /\ y.id = z.id
    /\ \A y \in zones[b] : y.name \notin names => \E z \in zones'[b] : y.name = z.name /\ y.id = z.id
    /\ kinds[b] = "pgsql" =>
         /\ lastId[b] \in Nat /\ lastId'[b] \in Nat /\ lastId[b] <= lastId'[b]
         /\ \A z \in zones'[b] : z.id <= lastId[b] => \E y \in zones[b] : y.name = z.name /\ y.id = z.id

LEMMA NothingEvolves ==
  ASSUME StoreInv, UNCHANGED <<kinds, zones, lastId>>
  PROVE  StoreInv' /\ Evolves({})
BY DEF StoreInv, Evolves, Backends, IsSql

LEMMA RemoveEvolves ==
  ASSUME StoreInv, NEW b \in Backends, NEW gone,
         zones' = [zones EXCEPT ![b] = @ \ gone], UNCHANGED <<kinds, lastId>>
  PROVE  StoreInv' /\ Evolves(Names(gone))
BY DEF StoreInv, Evolves, Backends, IsSql, Names

LEMMA AddEvolves ==
  ASSUME StoreInv, NEW b \in Backends, NEW info, NEW rrs, Add(b, info, rrs),
         UNCHANGED <<kinds, lastId>>
  PROVE  StoreInv' /\ Evolves({})
<1> DEFINE New(z) == IF TakesRecords(b) /\ z \in Reached(b, info) THEN [z EXCEPT !.rrs = @ \cup rrs] ELSE z
<1>1. \A z \in zones[b] : /\ New(z) = [id |-> z.id, name |-> z.name, rrs |-> New(z).rrs]
                          /\ New(z).id = z.id /\ New(z).name = z.name
  <2> TAKE z \in zones[b]
  <2>1. z = [id |-> z.id, name |-> z.name, rrs |-> z.rrs]
    BY DEF StoreInv
  <2>2. [z EXCEPT !.rrs = @ \cup rrs] = [id |-> z.id, name |-> z.name, rrs |-> z.rrs \cup rrs]
    BY <2>1
  <2> QED
    BY <2>1, <2>2
<1>2. zones' = [zones EXCEPT ![b] = {New(z) : z \in zones[b]}]
  BY DEF Add
<1> HIDE DEF New
<1>3. zones'[b] = {New(z) : z \in zones[b]} /\ \A c \in Backends \ {b} : zones'[c] = zones[c]
  BY <1>2 DEF StoreInv
<1>4. DOMAIN zones' = DOMAIN zones
  BY <1>2
<1>5. StoreInv'
  BY <1>1, <1>3, <1>4 DEF StoreInv, Backends, IsSql
<1>6. Evolves({})
  BY <1>1, <1>3 DEF StoreInv, Evolves, Backends, IsSql
<1> QED
  BY <1>5, <1>6

LEMMA NewIdIsNew ==
  ASSUME StoreInv, NEW b \in Backends, IsSql(b)
  PROVE  /\ NewId(b) \in Nat /\ 1 <= NewId(b)
         /\ \A z \in zones[b] : z.id < NewId(b)
         /\ kinds[b] = "pgsql" => NewId(b) = lastId[b] + 1
<1>1. /\ lastId[b] \in Nat
      /\ \A z \in zones[b] : z.id \in Nat /\ 1 <= z.id /\ z.id <= lastId[b]
  BY DEF StoreInv
<1>2. Ids(zones[b]) \in SUBSET Nat /\ \A i \in Ids(zones[b]) : i <= lastId[b]
  BY <1>1 DEF Ids
<1>3. IsFiniteSet(Ids(zones[b]))
  BY <1>1, <1>2, FS_BoundedSetOfNaturals
<1>4. MaxId(Ids(zones[b])) \in Nat /\ \A z \in zones[b] : z.id <= MaxId(Ids(zones[b]))
  BY <1>2, <1>3, MaxIdIsLargest DEF Ids
<1> QED
  BY <1>1, <1>4 DEF NewId, IsSql

LEMMA CreateEvolves ==
  ASSUME StoreInv, NEW b \in Backends, NEW name \in Name, ~Refuses(b, name), Create(b, name),
         UNCHANGED kinds
  PROVE  /\ StoreInv' /\ Evolves({name})
         /\ \E z \in zones'[b] : z.name = name
<1> DEFINE new == [id |-> NewId(b), name |-> name, rrs |-> {}]
           kept == IF kinds[b] = "bind" THEN {z \in zones[b] : z.name # name} ELSE zones[b]
<1>1. /\ DOMAIN zones' = Backends /\ DOMAIN lastId' = Backends
      /\ zones'[b] = kept \cup {new}
      /\ lastId'[b] = IF NewId(b) > lastId[b] THEN NewId(b) ELSE lastId[b]
      /\ \A c \in Backends \ {b} : zones'[c] = zones[c] /\ lastId'[c] = lastId[c]
  BY DEF Create, StoreInv
<1>2. kept \subseteq zones[b] /\ \A z \in zones[b] : z.name # name => z \in kept
  OBVIOUS
<1>3. IsSql(b) => kept = zones[b]
  BY DEF IsSql
<1>4. new.id = NewId(b) /\ new.name = name /\ new = [id |-> new.id, name |-> new.name, rrs |-> new.rrs]
  OBVIOUS
<1> HIDE DEF new, kept
<1>5. IsSql(b) => /\ lastId[b] \in Nat /\ lastId'[b] \in Nat
                  /\ lastId[b] <= lastId'[b] /\ NewId(b) <= lastId'[b]
  BY <1>1, NewIdIsNew DEF StoreInv
<1>6. StoreInv'
  <2>1. /\ kinds' \in Launches /\ Backends' = Backends
    BY DEF StoreInv, Backends
  <2>2. \A z \in zones'[b] : z = [id |-> z.id, name |-> z.name, rrs |-> z.rrs] /\ z.name \in Name
    BY <1>1, <1>2, <1>4 DEF StoreInv
  <2>3. IsSql(b) => \A z \in zones'[b] : z.id \in Nat /\ 1 <= z.id /\ z.id <= lastId'[b]
    BY <1>1, <1>3, <1>4, <1>5, NewIdIsNew DEF StoreInv
  <2>4. IsSql(b) => \A y, z \in zones'[b] : y.id = z.id => y = z
    BY <1>1, <1>3, <1>4, NewIdIsNew DEF StoreInv
  <2> QED
    BY <1>1, <1>5, <2>1, <2>2, <2>3, <2>4 DEF StoreInv, IsSql
<1>7. Evolves({name})
  <2>1. kinds[b] = "pgsql" => IsSql(b)
    BY DEF IsSql
  <2>2. kinds[b] = "pgsql" => \A z \in zones'[b] : z.id <= lastId[b] => z \in zones[b]
    BY <1>1, <1>3, <1>4, <1>5, <2>1, NewIdIsNew
  <2>3. \A c \in Backends \ {b} : kinds[c] = "pgsql" => lastId[c] \in Nat
    BY DEF StoreInv, IsSql
  <2> QED
    BY <1>1, <1>2, <1>4, <1>5, <2>1, <2>2, <2>3 DEF Evolves
<1> QED
  BY <1>1, <1>4, <1>6, <1>7

-----------------------------------------------------------------------------
\* What a step of others does to the search of a writer that stands still.
LEMMA ActorKept ==
  ASSUME StoreInv, StoreInv', NEW a \in Actors, ActorInv(a), NEW names, Evolves(names),
         UNCHANGED kinds, pc'[a] = pc[a], job'[a] = job[a], at'[a] = at[a], best'[a] = best[a],
         moved'[a] = moved[a] \cup names
  PROVE  ActorInv(a)'
<1>1. \A bs \in SUBSET Backends : Covered(a, bs) => Covered(a, bs)'
  BY DEF Covered, Evolves
<1>2. Found(a) => Found(a)'
  <2> SUFFICES ASSUME Found(a) PROVE Found(a)'
    OBVIOUS
  <2> DEFINE z == best[a]
  <2>1. /\ z.from \in Backends /\ z.name \in Name /\ IsSubdomainOf(job[a].zone, z.name)
        /\ z.name \notin moved[a] =>
             \E y \in zones[z.from] : y.name = z.name /\ (z.id # 0 /\ IsSql(z.from) => y.id = z.id)
        /\ kinds[z.from] = "pgsql" /\ z.id # 0 =>
             /\ z.id \in Nat /\ 1 <= z.id /\ z.id <= lastId[z.from]
             /\ \A y \in zones[z.from] : y.id = z.id => y.name = z.name
    BY DEF Found
  <2> HIDE DEF z
  <2>2. z.name \notin moved'[a] =>
          \E y \in zones'[z.from] : y.name = z.name /\ (z.id # 0 /\ IsSql(z.from) => y.id = z.id)
    BY <2>1 DEF Evolves
  <2>3. kinds[z.from] = "pgsql" /\ z.id # 0 =>
             /\ z.id \in Nat /\ 1 <= z.id /\ z.id <= lastId'[z.from]
             /\ \A y \in zones'[z.from] : y.id = z.id => y.name = z.name
    BY <2>1 DEF Evolves
  <2> QED
    BY <2>1, <2>2, <2>3 DEF Found, z, Backends, IsSql
<1>3. Searched(a) => Searched(a)'
  BY <1>1 DEF Searched, Backends
<1>4. \A b \in Backends : best[a].name \notin moved'[a] => (Has(a, b)' <=> Has(a, b))
  BY DEF Has, Evolves, Names
<1>5. 1 .. at[a] - 1 \subseteq Backends
  BY FirstBackend DEF StoreInv, ActorInv
<1> QED
  BY <1>1, <1>2, <1>3, <1>4, <1>5 DEF ActorInv, Backends

\* The other actors stand still, but for the names that were touched.
OthersStay(a, names) ==
  \A o \in Actors \ {a} :
    /\ pc'[o] = pc[o] /\ job'[o] = job[o] /\ at'[o] = at[o] /\ best'[o] = best[o]
    /\ moved'[o] = moved[o] \cup names

\* What a step of actor a must do.
Keeps(a, names) ==
  /\ UNCHANGED kinds /\ StoreInv' /\ Evolves(names)
  /\ DomainsInv' /\ OthersStay(a, names) /\ ActorInv(a)'

\* What every step of actor a does.
Kept(a) == RouterInv' /\ \E names : Keeps(a, names)

LEMMA KeepsInv ==
  ASSUME RouterInv, NEW a \in Actors, NEW names, Keeps(a, names)
  PROVE  Kept(a)
<1>1. ASSUME NEW o \in Actors \ {a} PROVE ActorInv(o)'
  BY <1>1, ActorKept DEF RouterInv, Keeps, OthersStay
<1>2. RouterInv'
  BY <1>1 DEF RouterInv, Keeps
<1> QED
  BY <1>2 DEF Kept

\* An actor whose job is over.
LEMMA DoneRests ==
  ASSUME RouterInv, NEW a \in Actors, Done(a), UNCHANGED kinds
  PROVE  /\ ActorInv(a)'
         /\ UNCHANGED moved => DomainsInv' /\ OthersStay(a, {})
         /\ \A names : moved' = Moves(names) => DomainsInv' /\ OthersStay(a, names)
<1>1. /\ pc'[a] = "idle" /\ at'[a] = 1 /\ best'[a] = NoZone
      /\ \A o \in Actors \ {a} : pc'[o] = pc[o] /\ job'[o] = job[o] /\ at'[o] = at[o] /\ best'[o] = best[o]
      /\ DOMAIN pc' = Actors /\ DOMAIN job' = Actors /\ DOMAIN at' = Actors
      /\ DOMAIN best' = Actors /\ DOMAIN got' = Actors
  BY DEF RouterInv, DomainsInv, Done
<1>2. 1 \in Backends /\ Backends' = Backends
  BY FirstBackend DEF RouterInv, StoreInv, Backends
<1>3. ActorInv(a)'
  BY <1>1, <1>2 DEF ActorInv, NoZone
<1>4. UNCHANGED moved => DomainsInv' /\ OthersStay(a, {})
  BY <1>1 DEF DomainsInv, OthersStay, RouterInv
<1>5. \A names : moved' = Moves(names) => DomainsInv' /\ OthersStay(a, names)
  BY <1>1 DEF DomainsInv, OthersStay, Moves
<1> QED
  BY <1>3, <1>4, <1>5

\* Steps that only read.
LEMMA ReadingKeeps ==
  ASSUME RouterInv, NEW a \in Actors, UNCHANGED <<kinds, zones, lastId, moved>>,
         DomainsInv', ActorInv(a)',
         \A o \in Actors \ {a} : pc'[o] = pc[o] /\ job'[o] = job[o] /\ at'[o] = at[o] /\ best'[o] = best[o]
  PROVE  Kept(a)
<1>1. OthersStay(a, {})
  BY DEF OthersStay
<1> QED
  BY <1>1, KeepsInv, NothingEvolves DEF Keeps, RouterInv

-----------------------------------------------------------------------------
(* The search.                                                             *)

\* Where a name has enclosing zones, the nearest are the deepest of them.
LEMMA NearestIsDeepest ==
  ASSUME StoreInv, NEW b \in Backends, NEW name \in Name,
         NEW z \in zones[b], IsSubdomainOf(name, z.name)
  PROVE  /\ Nearest(b, name) # {}
         /\ \A h \in Nearest(b, name) :
              h \in zones[b] /\ IsSubdomainOf(name, h.name) /\ Len(z.name) <= Len(h.name)
<1> DEFINE enclosing == {y \in zones[b] : IsSubdomainOf(name, y.name)}
           lens == {Len(y.name) : y \in enclosing}
<1>1. \A y \in enclosing : y.name \in Name /\ Len(y.name) \in Nat /\ Len(y.name) <= Len(name)
  BY DEF StoreInv, Name, IsSubdomainOf
<1>2. lens \in SUBSET Nat /\ lens # {} /\ \A l \in lens : l <= Len(name)
  BY <1>1
<1>3. IsFiniteSet(lens)
  <2> Len(name) \in Nat
    BY DEF Name
  <2> HIDE DEF lens
  <2> QED
    BY <1>2, FS_BoundedSetOfNaturals
<1>4. MaxId(lens) \in lens /\ \A l \in lens : l <= MaxId(lens)
  <2> HIDE DEF lens
  <2> QED
    BY <1>2, <1>3, MaxIdIsLargest
<1>5. PICK y \in enclosing : Len(y.name) = MaxId(lens)
  BY <1>4
<1>6. y \in Nearest(b, name)
  BY <1>4, <1>5 DEF Nearest
<1> QED
  BY <1>6 DEF Nearest

LEMMA FindKeeps ==
  ASSUME RouterInv, NEW a \in Actors, Find(a)
  PROVE  Kept(a)
<1> DEFINE hits == Nearest(at[a], job[a].zone)
<1>1. /\ StoreInv /\ DomainsInv /\ ActorInv(a) /\ pc[a] = "find"
      /\ job[a].zone \in Name /\ job[a].dest \in Backends /\ at[a] \in Backends
      /\ Covered(a, 1 .. at[a] - 1) /\ best[a].from < at[a]
      /\ best[a] = NoZone \/ Found(a)
      /\ UNCHANGED <<kinds, zones, lastId, moved>>
  BY DEF RouterInv, ActorInv, Find
<1>2. PICK next \in (IF hits = {} THEN {best[a]} ELSE {Better(a, z) : z \in hits}) :
        IF at[a] < Len(kinds)
        THEN best' = [best EXCEPT ![a] = next] /\ Goto(a, "find", at[a] + 1) /\ UNCHANGED <<job, got>>
        ELSE IF next = NoZone \/ (WantsExact(job[a].kind) /\ next.name # job[a].zone)
        THEN Done(a)
        ELSE best' = [best EXCEPT ![a] = next] /\ Goto(a, "own", 1) /\ UNCHANGED <<job, got>>
  BY DEF Find
<1>3. CASE Done(a)
  BY <1>1, <1>3, DoneRests, ReadingKeeps DEF OthersStay
<1>4. PICK m \in Backends : m = at[a]
  BY <1>1
<1>5. Backends = 1 .. Len(kinds) /\ Len(kinds) \in Nat /\ Backends' = Backends /\ m \in Nat
  BY <1>1, <1>4, FirstBackend DEF Backends
<1>6. ASSUME best' = [best EXCEPT ![a] = next], UNCHANGED job
      PROVE  /\ Covered(a, 1 .. m)'
             /\ next = NoZone \/ Found(a)'
             /\ next.from \in Backends \cup {0} /\ next.from <= m
  <2>1. best'[a] = next
    BY <1>1, <1>6 DEF DomainsInv
  <2> DEFINE Over(z) == IsSubdomainOf(job[a].zone, z.name) /\ z.name \notin moved[a]
  <2>2. /\ \A b \in 1 .. m - 1 : \A z \in zones[b] : Over(z) =>
             /\ best[a].from # 0
             /\ Len(z.name) < Len(best[a].name) \/ (z.name = best[a].name /\ best[a].from <= b)
        /\ best[a].from \in Backends \cup {0} /\ best[a].from < m
        /\ Found(a) => best[a].name \in Name /\ IsSubdomainOf(job[a].zone, best[a].name)
        /\ best[a].from # 0 => best[a] # NoZone
    BY <1>1, <1>4, <1>5 DEF Covered, Found, NoZone, ActorInv
  <2>3. \A z \in zones[m] : Over(z) =>
          hits # {} /\ \A h \in hits : Len(z.name) <= Len(h.name)
    BY <1>1, <1>4, NearestIsDeepest
  <2>4. \A h \in hits : h \in zones[m] /\ h.name \in Name /\ IsSubdomainOf(job[a].zone, h.name)
    BY <1>1, <1>4 DEF Nearest, StoreInv
  <2>5. \A z \in zones[m] : z.name \in Name
    BY <1>1 DEF StoreInv
  <2>6. \A b \in 1 .. m : b \in 1 .. m - 1 \/ b = m
    BY <1>5
  <2>7. \A n \in Name : Len(n) \in Nat
    BY DEF Name
  <2>8. CASE next = best[a] /\ (hits = {} \/ \E h \in hits : ~Deeper(h, best[a]))
    <3>1. Found(a) => Found(a)'
      BY <1>1, <1>6, <2>1, <2>8 DEF Found, Backends, IsSql
    <3>2. \A z \in zones[m] : Over(z) =>
            /\ best[a].from # 0
            /\ Len(z.name) < Len(best[a].name) \/ (z.name = best[a].name /\ best[a].from <= m)
      <4> SUFFICES ASSUME NEW z \in zones[m], Over(z)
                   PROVE  /\ best[a].from # 0
                          /\ Len(z.name) < Len(best[a].name) \/ (z.name = best[a].name /\ best[a].from <= m)
        OBVIOUS
      <4>1. PICK h \in hits : ~Deeper(h, best[a]) /\ Len(z.name) <= Len(h.name)
        BY <2>3, <2>8
      <4>2. best[a] # NoZone /\ ~(Len(h.name) > Len(best[a].name))
        BY <4>1 DEF Deeper
      <4>3. Found(a) /\ best[a].from \in Backends /\ best[a].name \in Name
        BY <1>1, <4>2 DEF Found
      <4>4. Len(z.name) <= Len(best[a].name)
        BY <2>4, <2>5, <2>7, <4>1, <4>2, <4>3
      <4>5. Len(z.name) = Len(best[a].name) => z.name = best[a].name
        BY <1>1, <2>2, <2>5, <4>3, OneOfEachLength
      <4> QED
        BY <1>5, <2>2, <2>5, <2>7, <4>3, <4>4, <4>5
    <3>3. Covered(a, 1 .. m)'
      BY <1>1, <1>6, <2>1, <2>2, <2>6, <2>8, <3>2 DEF Covered
    <3> QED
      BY <1>1, <1>5, <2>2, <2>8, <3>1, <3>3
  <2>9. ASSUME NEW h \in hits, Deeper(h, best[a]),
               next = [id |-> h.id, name |-> h.name, from |-> m]
        PROVE  /\ Covered(a, 1 .. m)' /\ Found(a)'
               /\ next.from \in Backends \cup {0} /\ next.from <= m
    <3>1. next.id = h.id /\ next.name = h.name /\ next.from = m /\ next.from # 0
      BY <1>5, <2>9
    <3>2. Found(a)'
      <4>1. IsSql(m) => /\ lastId[m] \in Nat /\ h.id \in Nat /\ 1 <= h.id /\ h.id <= lastId[m]
                        /\ \A y \in zones[m] : y.id = h.id => y = h
        BY <1>1, <2>4 DEF StoreInv
      <4>2. kinds[m] = "pgsql" => IsSql(m)
        BY DEF IsSql
      <4> QED
        BY <1>1, <1>5, <1>6, <2>1, <2>4, <3>1, <4>1, <4>2 DEF Found, Backends, IsSql
    <3>3. \A b \in 1 .. m - 1 : \A z \in zones[b] : Over(z) => Len(z.name) < Len(h.name)
      <4> SUFFICES ASSUME NEW b \in 1 .. m - 1, NEW z \in zones[b], Over(z)
                   PROVE  Len(z.name) < Len(h.name)
        OBVIOUS
      <4>1. best[a] # NoZone /\ (Len(z.name) < Len(best[a].name) \/ z.name = best[a].name)
        BY <2>2
      <4>2. Len(h.name) > Len(best[a].name) /\ best[a].name \in Name
        BY <1>1, <2>2, <2>9, <4>1 DEF Deeper
      <4>3. z.name \in Name
        BY <1>1, <1>5 DEF StoreInv
      <4> QED
        BY <2>4, <2>7, <4>1, <4>2, <4>3
    <3>4. \A z \in zones[m] : Over(z) => Len(z.name) < Len(h.name) \/ z.name = h.name
      <4> SUFFICES ASSUME NEW z \in zones[m], Over(z)
                   PROVE  Len(z.name) < Len(h.name) \/ z.name = h.name
        OBVIOUS
      <4>1. Len(z.name) <= Len(h.name)
        BY <2>3
      <4>2. Len(z.name) = Len(h.name) => z.name = h.name
        BY <1>1, <2>4, <2>5, OneOfEachLength
      <4> QED
        BY <2>4, <2>5, <2>7, <4>1, <4>2
    <3>5. Covered(a, 1 .. m)'
      BY <1>1, <1>5, <1>6, <2>1, <2>6, <3>1, <3>3, <3>4 DEF Covered
    <3> QED
      BY <1>5, <3>1, <3>2, <3>5
  <2> QED
    BY <1>2, <1>4, <2>8, <2>9 DEF Better
<1>7. CASE best' = [best EXCEPT ![a] = next] /\ Goto(a, "find", m + 1) /\ UNCHANGED <<job, got>> /\ m < Len(kinds)
  <2>1. /\ pc'[a] = "find" /\ at'[a] = m + 1 /\ best'[a] = next
        /\ \A o \in Actors \ {a} : pc'[o] = pc[o] /\ job'[o] = job[o] /\ at'[o] = at[o] /\ best'[o] = best[o]
        /\ DomainsInv'
    BY <1>1, <1>7 DEF DomainsInv, Goto
  <2>2. Covered(a, 1 .. at[a] - 1)' /\ best'[a].from < at'[a]
    <3>1. at'[a] - 1 = m
      BY <1>5, <2>1
    <3> QED
      BY <1>5, <1>6, <1>7, <2>1, <3>1 DEF Covered
  <2>3. ActorInv(a)'
    BY <1>1, <1>5, <1>6, <1>7, <2>1, <2>2 DEF ActorInv
  <2> QED
    BY <1>1, <2>1, <2>3, ReadingKeeps
<1>8. CASE /\ best' = [best EXCEPT ![a] = next] /\ Goto(a, "own", 1) /\ UNCHANGED <<job, got>>
           /\ next # NoZone /\ ~(m < Len(kinds))
  <2>1. /\ pc'[a] = "own" /\ at'[a] = 1 /\ best'[a] = next
        /\ \A o \in Actors \ {a} : pc'[o] = pc[o] /\ job'[o] = job[o] /\ at'[o] = at[o] /\ best'[o] = best[o]
        /\ DomainsInv'
    BY <1>1, <1>8 DEF DomainsInv, Goto
  <2>2. 1 .. m = Backends
    BY <1>5, <1>8
  <2>3. Searched(a)'
    BY <1>5, <1>6, <1>8, <2>2 DEF Searched
  <2>4. ActorInv(a)'
    BY <1>1, <1>5, <1>6, <1>8, <2>1, <2>3, FirstBackend DEF ActorInv, StoreInv
  <2> QED
    BY <1>1, <2>1, <2>4, ReadingKeeps
<1> QED
  BY <1>2, <1>3, <1>4, <1>7, <1>8

LEMMA OwnKeeps ==
  ASSUME RouterInv, NEW a \in Actors, Own(a)
  PROVE  Kept(a)
<1>1. /\ StoreInv /\ DomainsInv /\ ActorInv(a) /\ pc[a] = "own" /\ at[a] \in Backends
      /\ job[a].zone \in Name /\ job[a].dest \in Backends
      /\ Found(a) /\ Searched(a) /\ best[a].from \in Backends
      /\ best[a].name \notin moved[a] => \A b \in 1 .. at[a] - 1 : ~Has(a, b)
      /\ UNCHANGED <<kinds, zones, lastId, moved>>
  BY DEF RouterInv, ActorInv, Own, Found
<1>2. Backends = 1 .. Len(kinds) /\ Len(kinds) \in Nat /\ Backends' = Backends
  BY <1>1, FirstBackend DEF Backends, StoreInv
<1>3. CASE Done(a)
  BY <1>1, <1>3, DoneRests, ReadingKeeps DEF OthersStay
<1>4. ASSUME NEW label \in {"call", "own"}, NEW b \in Backends, Goto(a, label, b),
             UNCHANGED <<job, best, got>>,
             label = "call" => b = at[a] /\ Has(a, b),
             label = "own" => b = at[a] + 1 /\ ~Has(a, at[a])
      PROVE  Kept(a)
  <2>1. /\ pc'[a] = label /\ at'[a] = b /\ best'[a] = best[a] /\ job'[a] = job[a]
        /\ \A o \in Actors \ {a} : pc'[o] = pc[o] /\ job'[o] = job[o] /\ at'[o] = at[o] /\ best'[o] = best[o]
        /\ DomainsInv'
    BY <1>1, <1>4 DEF DomainsInv, Goto
  <2>2. Found(a)' /\ Searched(a)' /\ \A c \in Backends : Has(a, c)' <=> Has(a, c)
    BY <1>1, <1>2, <2>1 DEF Found, Searched, Covered, Has, IsSql
  <2>3. \A c \in 1 .. b - 1 : c \in Backends /\ (c \in 1 .. at[a] - 1 \/ (label = "own" /\ c = at[a]))
    BY <1>1, <1>2, <1>4
  <2>4. best[a].name \notin moved[a] => \A c \in 1 .. b - 1 : ~Has(a, c)'
    BY <1>1, <1>4, <2>2, <2>3
  <2>5. best[a].name \notin moved[a] => \A c \in 1 .. at'[a] - 1 : ~Has(a, c)'
    BY <2>1, <2>4
  <2>6. label = "call" => Has(a, at[a])'
    BY <1>1, <1>4, <2>1, <2>2 DEF Has
  <2>7. ActorInv(a)'
    BY <1>1, <1>2, <1>4, <2>1, <2>2, <2>5, <2>6 DEF ActorInv, Has
  <2> QED
    BY <1>1, <2>1, <2>7, ReadingKeeps
<1>5. CASE best[a].name \in Names(zones[at[a]]) /\ Goto(a, "call", at[a]) /\ UNCHANGED <<job, best, got>>
  BY <1>1, <1>4, <1>5 DEF Has
<1>6. CASE /\ best[a].name \notin Names(zones[at[a]]) /\ at[a] < Len(kinds)
           /\ Goto(a, "own", at[a] + 1) /\ UNCHANGED <<job, best, got>>
  <2>1. at[a] + 1 \in Backends
    BY <1>1, <1>2, <1>6
  <2> QED
    BY <1>1, <1>4, <1>6, <2>1 DEF Has
<1> QED
  BY <1>3, <1>5, <1>6 DEF Own

-----------------------------------------------------------------------------
(* The calls of the owner.                                                 *)

LEMMA ListKeeps ==
  ASSUME RouterInv, NEW a \in Actors, List(a)
  PROVE  Kept(a)
<1>1. /\ StoreInv /\ DomainsInv /\ ActorInv(a) /\ pc[a] = "call"
      /\ job[a].zone \in Name /\ job[a].dest \in Backends /\ best[a].from \in Backends
      /\ UNCHANGED <<kinds, zones, lastId, moved>>
  BY DEF RouterInv, ActorInv, List, Found
<1>2. CASE Done(a)
  BY <1>1, <1>2, DoneRests, ReadingKeeps DEF OthersStay
<1>3. CASE /\ job[a].kind = "copy" /\ Goto(a, "make", job[a].dest) /\ UNCHANGED <<job, best>>
           /\ got' = [got EXCEPT ![a] = UNION {z.rrs : z \in Reached(at[a], best[a])}]
  <2>1. /\ pc'[a] = "make" /\ at'[a] = job[a].dest /\ best'[a] = best[a] /\ job'[a] = job[a]
        /\ \A o \in Actors \ {a} : pc'[o] = pc[o] /\ job'[o] = job[o] /\ at'[o] = at[o] /\ best'[o] = best[o]
        /\ DomainsInv'
    BY <1>1, <1>3 DEF DomainsInv, Goto
  <2>2. ActorInv(a)'
    BY <1>1, <1>3, <2>1 DEF ActorInv, Backends
  <2> QED
    BY <1>1, <2>1, <2>2, ReadingKeeps
<1> QED
  BY <1>2, <1>3 DEF List

LEMMA DeleteKeeps ==
  ASSUME RouterInv, NEW a \in Actors, Delete(a)
  PROVE  Kept(a)
<1> DEFINE gone == Reached(at[a], best[a])
<1>1. /\ StoreInv /\ at[a] \in Backends
      /\ zones' = [zones EXCEPT ![at[a]] = @ \ gone] /\ moved' = Moves(Names(gone))
      /\ Done(a) /\ UNCHANGED <<kinds, lastId>>
  BY DEF RouterInv, ActorInv, Delete
<1> HIDE DEF gone
<1>2. StoreInv' /\ Evolves(Names(gone))
  BY <1>1, RemoveEvolves
<1>3. ActorInv(a)' /\ DomainsInv' /\ OthersStay(a, Names(gone))
  BY <1>1, DoneRests
<1> QED
  BY <1>1, <1>2, <1>3, KeepsInv DEF Keeps

LEMMA WriteKeeps ==
  ASSUME RouterInv, NEW a \in Actors, Write(a) \/ Fill(a)
  PROVE  Kept(a)
<1>1. /\ StoreInv /\ at[a] \in Backends /\ Done(a) /\ UNCHANGED <<kinds, lastId, moved>>
      /\ Add(at[a], best[a], job[a].rrs) \/ Add(at[a], best[a], got[a])
  BY DEF RouterInv, ActorInv, Write, Fill
<1>2. StoreInv' /\ Evolves({})
  BY <1>1, AddEvolves
<1>3. ActorInv(a)' /\ DomainsInv' /\ OthersStay(a, {})
  BY <1>1, DoneRests
<1> QED
  BY <1>1, <1>2, <1>3, KeepsInv DEF Keeps

LEMMA MakeKeeps ==
  ASSUME RouterInv, NEW a \in Actors, Make(a)
  PROVE  Kept(a)
<1> DEFINE name == job[a].zone
<1>1. /\ StoreInv /\ DomainsInv /\ ActorInv(a) /\ pc[a] = "make"
      /\ name \in Name /\ job[a].dest \in Backends /\ at[a] \in Backends
      /\ best[a].from \in Backends \cup {0}
      /\ job[a].kind \in {"copy", "post", "import"}
      /\ job[a].kind # "copy" => best[a] = NoZone /\ at[a] = 1
      /\ UNCHANGED kinds
  BY DEF RouterInv, ActorInv, Make
<1>2. Backends = 1 .. Len(kinds) /\ Len(kinds) \in Nat /\ Backends' = Backends /\ 1 \in Backends
  BY <1>1, FirstBackend DEF Backends, StoreInv
<1>3. CASE Refuses(at[a], name)
  <2>1. UNCHANGED <<kinds, zones, lastId, moved>>
    BY <1>1, <1>3 DEF Make
  <2>2. CASE Done(a)
    BY <2>1, <2>2, DoneRests, ReadingKeeps DEF OthersStay
  <2>3. CASE job[a].kind = "import" /\ Goto(a, "find", 1) /\ UNCHANGED <<job, best, got>>
    <3>1. /\ pc'[a] = "find" /\ at'[a] = 1 /\ best'[a] = NoZone /\ job'[a] = job[a]
          /\ \A o \in Actors \ {a} : pc'[o] = pc[o] /\ job'[o] = job[o] /\ at'[o] = at[o] /\ best'[o] = best[o]
          /\ DomainsInv'
      BY <1>1, <2>1, <2>3 DEF DomainsInv, Goto
    <3>2. ActorInv(a)'
      BY <1>1, <1>2, <3>1 DEF ActorInv, Covered, NoZone
    <3> QED
      BY <2>1, <3>1, <3>2, ReadingKeeps
  <2> QED
    BY <1>3, <2>2, <2>3 DEF Make
<1>4. ASSUME ~Refuses(at[a], name)
      PROVE  /\ moved' = [Moves({name}) EXCEPT ![a] = {}]
             /\ StoreInv' /\ Evolves({name}) /\ \E z \in zones'[at[a]] : z.name = name
  <2>1. Create(at[a], name) /\ moved' = [Moves({name}) EXCEPT ![a] = {}]
    BY <1>4 DEF Make
  <2> QED
    BY <1>1, <1>4, <2>1, CreateEvolves
<1>5. CASE ~Refuses(at[a], name) /\ ~TakesRecords(at[a])
  <2>1. moved'[a] = {}
    BY <1>1, <1>4, <1>5 DEF DomainsInv, Moves
  <2>2. CASE Done(a)
    <3>1. DomainsInv' /\ OthersStay(a, {name})
      BY <1>1, <1>4, <1>5, <2>2 DEF DomainsInv, Done, Moves, OthersStay
    <3> QED
      BY <1>1, <1>4, <1>5, <2>2, <3>1, DoneRests, KeepsInv DEF Keeps
  <2>3. CASE job[a].kind = "import" /\ Goto(a, "find", 1) /\ UNCHANGED <<job, best, got>>
    <3>1. /\ pc'[a] = "find" /\ at'[a] = 1 /\ best'[a] = NoZone /\ job'[a] = job[a]
          /\ DomainsInv' /\ OthersStay(a, {name})
      BY <1>1, <1>4, <1>5, <2>3 DEF DomainsInv, Goto, Moves, OthersStay
    <3>2. ActorInv(a)'
      BY <1>1, <1>2, <3>1 DEF ActorInv, Covered, NoZone
    <3> QED
      BY <1>1, <1>4, <1>5, <3>1, <3>2, KeepsInv DEF Keeps
  <2> QED
    BY <1>5, <2>2, <2>3 DEF Make
<1>6. CASE ~Refuses(at[a], name) /\ TakesRecords(at[a])
  <2>1. /\ UNCHANGED <<job, got>>
        /\ moved' = [Moves({name}) EXCEPT ![a] = {}]
        /\ job[a].kind = "copy" => Goto(a, "refind", at[a]) /\ UNCHANGED best
        /\ job[a].kind = "post" => Goto(a, "find", 1) /\ UNCHANGED best
        /\ job[a].kind = "import" => Goto(a, "own", 1) /\ best' = [best EXCEPT ![a] = MadeUp(a)]
    BY <1>1, <1>4, <1>6 DEF Make
  <2>2. StoreInv' /\ Evolves({name}) /\ \E z \in zones'[at[a]] : z.name = name
    BY <1>4, <1>6
  <2>3. /\ pc'[a] = IF job[a].kind = "copy" THEN "refind" ELSE IF job[a].kind = "post" THEN "find" ELSE "own"
        /\ at'[a] \in Backends
        /\ job[a].kind # "copy" => at'[a] = 1
        /\ best'[a] = IF job[a].kind = "import" THEN MadeUp(a) ELSE best[a]
        /\ job'[a] = job[a] /\ moved'[a] = {}
    BY <1>1, <1>2, <2>1 DEF DomainsInv, Goto, Moves
  <2>4. DomainsInv' /\ OthersStay(a, {name})
    BY <1>1, <2>1 DEF DomainsInv, Goto, Moves, OthersStay
  <2>5. CASE job[a].kind = "copy"
    <3>1. ActorInv(a)'
      BY <1>1, <1>2, <2>3, <2>5 DEF ActorInv
    <3> QED
      BY <1>1, <2>2, <2>4, <3>1, KeepsInv DEF Keeps
  <2>6. CASE job[a].kind = "post"
    <3>1. ActorInv(a)'
      BY <1>1, <1>2, <2>3, <2>6 DEF ActorInv, Covered, NoZone
    <3> QED
      BY <1>1, <2>2, <2>4, <3>1, KeepsInv DEF Keeps
  <2>7. CASE job[a].kind = "import"
    <3>1. best'[a] = [id |-> 0, name |-> name, from |-> 1] /\ pc'[a] = "own"
      BY <1>1, <2>3, <2>7 DEF MadeUp
    <3>2. best'[a].id = 0 /\ best'[a].name = name /\ best'[a].from = 1
      BY <3>1
    <3>3. IsSubdomainOf(name, name)
      BY <1>1, EnclosesItself
    <3>4. \E z \in zones'[1] : z.name = name
      BY <1>1, <2>2, <2>7
    <3>5. Found(a)'
      BY <1>1, <1>2, <2>3, <3>2, <3>3, <3>4 DEF Found
    <3>6. ActorInv(a)'
      BY <1>1, <1>2, <2>3, <2>7, <3>1, <3>2, <3>5 DEF ActorInv, Searched
    <3> QED
      BY <1>1, <2>2, <2>4, <3>6, KeepsInv DEF Keeps
  <2> QED
    BY <1>1, <2>5, <2>6, <2>7
<1> QED
  BY <1>3, <1>5, <1>6

LEMMA RefindKeeps ==
  ASSUME RouterInv, NEW a \in Actors, Refind(a)
  PROVE  Kept(a)
<1>1. /\ StoreInv /\ DomainsInv /\ ActorInv(a) /\ pc[a] = "refind" /\ at[a] \in Backends
      /\ job[a].zone \in Name /\ job[a].dest \in Backends
      /\ UNCHANGED <<kinds, zones, lastId, moved>>
  BY DEF RouterInv, ActorInv, Refind
<1>2. CASE Done(a)
  BY <1>1, <1>2, DoneRests, ReadingKeeps DEF OthersStay
<1>3. ASSUME NEW z, best' = [best EXCEPT ![a] = [id |-> z.id, name |-> z.name, from |-> at[a]]],
             Goto(a, "fill", at[a]), UNCHANGED <<job, got>>
      PROVE  Kept(a)
  <2>1. /\ pc'[a] = "fill" /\ at'[a] = at[a] /\ best'[a].from = at[a] /\ job'[a] = job[a]
        /\ \A o \in Actors \ {a} : pc'[o] = pc[o] /\ job'[o] = job[o] /\ at'[o] = at[o] /\ best'[o] = best[o]
        /\ DomainsInv'
    BY <1>1, <1>3 DEF DomainsInv, Goto
  <2>2. ActorInv(a)'
    BY <1>1, <2>1 DEF ActorInv, Backends
  <2> QED
    BY <1>1, <2>1, <2>2, ReadingKeeps
<1> QED
  BY <1>2, <1>3 DEF Refind

LEMMA StartKeeps ==
  ASSUME RouterInv, NEW a \in Actors, Start(a)
  PROVE  Kept(a)
<1>1. PICK j \in Jobs :
        /\ job' = [job EXCEPT ![a] = j]
        /\ Goto(a, IF j.kind \in {"post", "import"} THEN "make" ELSE "find", 1)
        /\ moved' = [moved EXCEPT ![a] = {}]
        /\ pc[a] = "idle" /\ UNCHANGED <<kinds, zones, lastId, best, got>>
  BY DEF Start
<1>2. StoreInv /\ DomainsInv /\ best[a] = NoZone
  BY <1>1 DEF RouterInv, ActorInv
<1>3. 1 \in Backends /\ Backends' = Backends /\ j.zone \in Name /\ j.dest \in Backends
  BY <1>1, <1>2, FirstBackend, RouterAssumption DEF StoreInv, Backends, Name
<1>4. /\ pc'[a] = IF j.kind \in {"post", "import"} THEN "make" ELSE "find"
      /\ at'[a] = 1 /\ best'[a] = NoZone /\ job'[a] = j /\ moved'[a] = {}
  BY <1>1, <1>2 DEF DomainsInv, Goto
<1>5. DomainsInv' /\ OthersStay(a, {})
  BY <1>1, <1>2 DEF DomainsInv, Goto, OthersStay
<1>6. ActorInv(a)'
  BY <1>3, <1>4 DEF ActorInv, Covered, NoZone
<1> QED
  BY <1>1, <1>2, <1>5, <1>6, NothingEvolves, KeepsInv DEF Keeps

\* A zone that comes or goes by others.
LEMMA OthersEvolve ==
  ASSUME RouterInv, NEW b \in Backends, Others(b)
  PROVE  /\ StoreInv' /\ UNCHANGED <<kinds, pc, job, at, best, got>>
         /\ \E name \in Name : Evolves({name}) /\ moved' = Moves({name})
<1>1. PICK name \in {j.zone : j \in Jobs} :
        /\ \/ ~Refuses(b, name) /\ Create(b, name)
           \/ \E z \in zones[b] : z.name = name /\ zones' = [zones EXCEPT ![b] = @ \ {z}] /\ UNCHANGED lastId
        /\ moved' = Moves({name})
  BY DEF Others
<1>2. StoreInv /\ name \in Name /\ UNCHANGED <<kinds, pc, job, at, best, got>>
  BY RouterAssumption DEF RouterInv, Others, actor, Name
<1>3. CASE ~Refuses(b, name) /\ Create(b, name)
  BY <1>1, <1>2, <1>3, CreateEvolves
<1>4. ASSUME NEW z \in zones[b], z.name = name, zones' = [zones EXCEPT ![b] = @ \ {z}], UNCHANGED lastId
      PROVE  StoreInv' /\ Evolves({name})
  <2>1. Names({z}) = {name}
    BY <1>4 DEF Names
  <2>2. StoreInv' /\ Evolves(Names({z}))
    BY <1>2, <1>4, RemoveEvolves
  <2> QED
    BY <2>1, <2>2
<1> QED
  BY <1>1, <1>2, <1>3, <1>4

LEMMA OthersKeep ==
  ASSUME RouterInv, NEW b \in Backends, Others(b)
  PROVE  RouterInv'
<1>1. PICK name \in Name : Evolves({name}) /\ moved' = Moves({name})
  BY OthersEvolve
<1>2. StoreInv /\ DomainsInv /\ StoreInv' /\ UNCHANGED <<kinds, pc, job, at, best, got>>
  BY OthersEvolve DEF RouterInv
<1>3. ASSUME NEW a \in Actors PROVE ActorInv(a)'
  <2>1. moved'[a] = moved[a] \cup {name}
    BY <1>1 DEF Moves
  <2> QED
    BY <1>1, <1>2, <2>1, ActorKept DEF RouterInv
<1>4. DomainsInv'
  BY <1>1, <1>2 DEF DomainsInv, Moves
<1> QED
  BY <1>2, <1>3, <1>4 DEF RouterInv

-----------------------------------------------------------------------------
(* The whole router.                                                       *)

\* As many ids were given out as a backend has zones.
LEMMA FilledIsSound ==
  ASSUME NEW names, IsFiniteSet(names), NEW zs \in Filled(names)
  PROVE  /\ Names(zs) = names /\ Cardinality(zs) \in Nat
         /\ \A z \in zs : /\ z = [id |-> z.id, name |-> z.name, rrs |-> z.rrs]
                          /\ z.id \in Nat /\ 1 <= z.id /\ z.id <= Cardinality(zs)
         /\ \A y, z \in zs : y.id = z.id => y = z
<1>1. PICK id \in [names -> 1 .. Cardinality(names)] :
        /\ \A m, n \in names : id[m] = id[n] => m = n
        /\ zs = {[id |-> id[n], name |-> n, rrs |-> {Qualify(<<"www">>, n)}] : n \in names}
  BY DEF Filled
<1> DEFINE Zone(n) == [id |-> id[n], name |-> n, rrs |-> {Qualify(<<"www">>, n)}]
           f == [n \in names |-> Zone(n)]
<1>2. zs = {Zone(n) : n \in names}
  BY <1>1
<1>3. \A n \in names : Zone(n).id = id[n] /\ Zone(n).name = n
                       /\ Zone(n) = [id |-> Zone(n).id, name |-> Zone(n).name, rrs |-> Zone(n).rrs]
  OBVIOUS
<1> HIDE DEF Zone
<1>4. f \in Bijection(names, zs)
  BY <1>2, <1>3 DEF Bijection, Injection, Surjection, IsInjective
<1>5. Cardinality(zs) = Cardinality(names) /\ Cardinality(names) \in Nat
  BY <1>4, FS_Bijection, FS_CardinalityType DEF ExistsBijection
<1>6. Names(zs) = names
  BY <1>2, <1>3 DEF Names
<1>7. \A n \in names : id[n] \in Nat /\ 1 <= id[n] /\ id[n] <= Cardinality(names)
  BY <1>1, <1>5
<1>8. \A m, n \in names : Zone(m).id = Zone(n).id => Zone(m) = Zone(n)
  BY <1>1, <1>3
<1>9. ASSUME NEW z \in zs
      PROVE  /\ z = [id |-> z.id, name |-> z.name, rrs |-> z.rrs]
             /\ z.id \in Nat /\ 1 <= z.id /\ z.id <= Cardinality(zs)
  <2>1. PICK n \in names : z = Zone(n)
    BY <1>2
  <2>2. z = [id |-> z.id, name |-> z.name, rrs |-> z.rrs] /\ z.id = id[n]
    BY <1>3, <2>1
  <2>3. z.id \in Nat /\ 1 <= z.id /\ z.id <= Cardinality(zs)
    BY <1>5, <1>7, <2>2
  <2> QED
    BY <2>2, <2>3
<1>10. \A y, z \in zs : y.id = z.id => y = z
  <2> HIDE DEF f
  <2> QED
    BY <1>2, <1>8
<1> HIDE DEF f
<1> QED
  BY <1>5, <1>6, <1>9, <1>10

LEMMA InitRouter == Init => RouterInv
<1> SUFFICES ASSUME Init PROVE RouterInv
  OBVIOUS
<1>1. kinds \in Launches /\ 1 \in Backends
  BY FirstBackend DEF Init
<1>2. PICK names \in InitNames :
        /\ zones \in [Backends -> UNION {Filled(names[b]) : b \in Backends}]
        /\ \A b \in Backends : Names(zones[b]) = names[b]
  BY DEF Init
<1>3. \A b \in Backends : IsFiniteSet(names[b]) /\ names[b] \subseteq Name
  BY <1>1, <1>2, RouterAssumption DEF Backends, Name
<1>4. lastId = [b \in Backends |-> Cardinality(zones[b])]
  BY DEF Init
<1>5. ASSUME NEW b \in Backends
      PROVE  /\ \A z \in zones[b] : z = [id |-> z.id, name |-> z.name, rrs |-> z.rrs] /\ z.name \in Name
             /\ lastId[b] \in Nat
             /\ \A z \in zones[b] : z.id \in Nat /\ 1 <= z.id /\ z.id <= lastId[b]
             /\ \A y, z \in zones[b] : y.id = z.id => y = z
  <2>1. PICK c \in Backends : zones[b] \in Filled(names[c])
    BY <1>2
  <2>2. /\ Names(zones[b]) = names[c] /\ Cardinality(zones[b]) \in Nat
        /\ \A z \in zones[b] : /\ z = [id |-> z.id, name |-> z.name, rrs |-> z.rrs]
                               /\ z.id \in Nat /\ 1 <= z.id /\ z.id <= Cardinality(zones[b])
        /\ \A y, z \in zones[b] : y.id = z.id => y = z
    BY <1>3, <2>1, FilledIsSound
  <2>3. \A z \in zones[b] : z.name \in Name
    BY <1>3, <2>2 DEF Names
  <2> QED
    BY <1>4, <2>2, <2>3
<1>6. StoreInv
  BY <1>1, <1>2, <1>4, <1>5 DEF StoreInv
<1>7. DomainsInv
  BY DEF Init, DomainsInv
<1>8. ASSUME NEW a \in Actors PROVE ActorInv(a)
  BY <1>1 DEF Init, ActorInv, NoZone
<1> QED
  BY <1>6, <1>7, <1>8 DEF RouterInv

LEMMA NextRouter == RouterInv /\ [Next]_vars => RouterInv'
<1> SUFFICES ASSUME RouterInv, [Next]_vars PROVE RouterInv'
  OBVIOUS
<1>1. ASSUME NEW a \in Actors, Step(a) PROVE RouterInv'
  BY <1>1, StartKeeps, FindKeeps, OwnKeeps, ListKeeps, DeleteKeeps, WriteKeeps, MakeKeeps,
     RefindKeeps DEF Step, Kept
<1>2. CASE \E b \in Backends : Others(b)
  BY <1>2, OthersKeep
<1>3. CASE UNCHANGED vars
  <2>1. UNCHANGED <<kinds, zones, lastId, pc, job, at, best, got, moved>>
    BY <1>3 DEF vars, actor
  <2>2. ASSUME NEW a \in Actors PROVE ActorInv(a)'
    <3>1. ActorInv(a)
      BY DEF RouterInv
    <3> QED
      BY <2>1, <3>1 DEF ActorInv, Covered, Found, Searched, Has, Backends, IsSql
  <2>3. StoreInv' /\ DomainsInv'
    BY <2>1, NothingEvolves DEF RouterInv, DomainsInv
  <2> QED
    BY <2>2, <2>3 DEF RouterInv
<1> QED
  BY <1>1, <1>2, <1>3 DEF Next

LEMMA RouterAlways == Spec => []RouterInv
BY InitRouter, NextRouter, PTL DEF Spec

LEMMA CallsAreSound == RouterInv => CallsReachTheirZone
<1> SUFFICES ASSUME RouterInv, NEW a \in Actors, pc[a] = "call"
             PROVE  /\ best[a].from = at[a] /\ kinds[at[a]] # "sqlite" =>
                         \A z \in Reached(at[a], best[a]) : z.name = best[a].name
                    /\ best[a].name \notin moved[a] =>
                         /\ best[a].from = at[a]
                         /\ best[a].id # 0 \/ ~IsSql(at[a]) => Reached(at[a], best[a]) # {}
                         /\ \A z \in Reached(at[a], best[a]) : z.name = best[a].name
  BY DEF CallsReachTheirZone
<1> DEFINE n == best[a].name
<1>1. /\ StoreInv /\ at[a] \in Backends /\ Found(a) /\ Searched(a)
      /\ n \notin moved[a] => \A b \in 1 .. at[a] - 1 : ~Has(a, b)
      /\ n \notin moved[a] => Has(a, at[a])
      /\ best[a].from \in Backends /\ n \in Name
  BY DEF RouterInv, ActorInv, Found
<1>2. Backends = 1 .. Len(kinds) /\ Len(kinds) \in Nat /\ \A b \in Backends : kinds[b] \in Kinds
  BY <1>1, FirstBackend DEF StoreInv
<1>3. IsSql(at[a]) => /\ \A z \in zones[at[a]] : 1 <= z.id /\ z.id \in Nat
                      /\ \A y, z \in zones[at[a]] : y.id = z.id => y = z
  BY <1>1 DEF StoreInv
<1>4. best[a].from = at[a] /\ kinds[at[a]] # "sqlite" =>
        \A z \in Reached(at[a], best[a]) : z.name = n
  BY <1>1, <1>2, <1>3 DEF Reached, Found, IsSql
<1>5. ASSUME n \notin moved[a]
      PROVE  /\ best[a].from = at[a]
             /\ best[a].id # 0 \/ ~IsSql(at[a]) => Reached(at[a], best[a]) # {}
             /\ \A z \in Reached(at[a], best[a]) : z.name = n
  <2>1. PICK y \in zones[best[a].from] :
          y.name = n /\ (best[a].id # 0 /\ IsSql(best[a].from) => y.id = best[a].id)
    BY <1>1, <1>5 DEF Found
  <2>2. Has(a, best[a].from)
    BY <2>1 DEF Has, Names
  <2>3. at[a] <= best[a].from
    BY <1>1, <1>2, <1>5, <2>2
  <2>4. PICK w \in zones[at[a]] : w.name = n
    BY <1>1, <1>5 DEF Has, Names
  <2>5. best[a].from <= at[a]
    <3>1. CASE Covered(a, Backends)
      <4>1. IsSubdomainOf(job[a].zone, w.name)
        BY <1>1, <2>4 DEF Found
      <4>2. Len(w.name) < Len(n) \/ best[a].from <= at[a]
        BY <1>1, <1>5, <2>4, <3>1, <4>1 DEF Covered
      <4>3. Len(n) \in Nat
        BY <1>1 DEF Name
      <4> QED
        BY <2>4, <4>2, <4>3
    <3>2. CASE best[a].from = 1
      BY <1>1, <1>2, <3>2
    <3> QED
      BY <1>1, <3>1, <3>2 DEF Searched
  <2>6. best[a].from = at[a]
    BY <1>1, <1>2, <2>3, <2>5
  <2> QED
    BY <1>3, <2>1, <2>6 DEF Reached
<1> QED
  BY <1>4, <1>5

\* A call of a backend acts on the zone that was found and on no other, for any
\* backends, threads and jobs (router.cpp:74-84, 142-153): in the backend it was
\* found in, unless that is sqlite, whatever the others do meanwhile, and in all
\* of them when no zone of that name is made or deleted.  What an id of one
\* backend reaches in another, after the first has lost the zone, is left open.
THEOREM CallsReachZone == Spec => []CallsReachTheirZone
BY RouterAlways, CallsAreSound, PTL

\* A search during which nothing is made or deleted gives the deepest zone of
\* all backends, and the first backend that has it (router.cpp:60-72).
THEOREM SearchesDeepest == Spec => []SearchIsDeepest
<1>1. RouterInv => SearchIsDeepest
  BY DEF RouterInv, ActorInv, Searched, Covered, SearchIsDeepest
<1> QED
  BY <1>1, RouterAlways, PTL

-----------------------------------------------------------------------------
(* What is confirmed.                                                      *)

\* Until somebody else makes or deletes a zone of the name, the zone an actor has
\* made stays where it made it: in the first backend for a POST or an import, in
\* the destination for a copy, which knows its id there.
ConfirmInv(a) ==
  LET zone == job[a].zone
  IN  /\ pc[a] # "idle" /\ job[a].kind = "copy" => IsSql(job[a].dest)
      /\ pc[a] \in {"refind", "fill"} => TakesRecords(at[a])
      /\ pc[a] = "make" /\ job[a].kind = "copy" => at[a] = job[a].dest
      /\ pc[a] \in {"refind", "fill"} => job[a].kind = "copy" /\ at[a] = job[a].dest
      /\ pc[a] \in {"find", "own", "call"} /\ job[a].kind \in {"post", "import"} /\ zone \notin moved[a] =>
           \E z \in zones[1] : z.name = zone
      /\ pc[a] = "refind" /\ zone \notin moved[a] => \E z \in zones[at[a]] : z.name = zone
      /\ pc[a] = "fill" /\ zone \notin moved[a] =>
           \E z \in zones[at[a]] : z.name = zone /\ z.id = best[a].id

\* A zone that nobody touched is still there.
LEMMA ConfirmKept ==
  ASSUME RouterInv, NEW a \in Actors, ConfirmInv(a), NEW names, Evolves(names), UNCHANGED kinds,
         pc'[a] = pc[a], job'[a] = job[a], at'[a] = at[a], best'[a] = best[a],
         moved'[a] = moved[a] \cup names
  PROVE  ConfirmInv(a)'
<1>1. 1 \in Backends /\ at[a] \in Backends /\ \A b \in Backends : IsSql(b)' <=> IsSql(b)
  BY FirstBackend DEF RouterInv, StoreInv, ActorInv, IsSql
<1>2. pc[a] # "idle" => job[a].dest \in Backends
  BY DEF RouterInv, ActorInv
<1> QED
  BY <1>1, <1>2 DEF ConfirmInv, Evolves, TakesRecords

\* The actor itself.
LEMMA ConfirmStep ==
  ASSUME RouterInv, RouterInv', NEW a \in Actors, ConfirmInv(a), Step(a)
  PROVE  ConfirmInv(a)'
<1> DEFINE zone == job[a].zone
<1>1. /\ StoreInv /\ DomainsInv /\ ActorInv(a) /\ 1 \in Backends /\ at[a] \in Backends
      /\ pc[a] # "idle" => zone \in Name /\ job[a].dest \in Backends
  BY FirstBackend DEF RouterInv, StoreInv, ActorInv
<1>2. ASSUME Done(a) PROVE ConfirmInv(a)'
  BY <1>1, <1>2 DEF DomainsInv, Done, ConfirmInv
<1>3. CASE Start(a)
  <2>1. PICK j \in Jobs :
          /\ j.kind = "copy" => IsSql(j.dest)
          /\ job' = [job EXCEPT ![a] = j]
          /\ Goto(a, IF j.kind \in {"post", "import"} THEN "make" ELSE "find", 1)
          /\ UNCHANGED kinds
    BY <1>3 DEF Start
  <2>2. /\ pc'[a] = IF j.kind \in {"post", "import"} THEN "make" ELSE "find"
        /\ job'[a] = j
    BY <1>1, <2>1 DEF DomainsInv, Goto
  <2> QED
    BY <2>1, <2>2 DEF ConfirmInv, IsSql, TakesRecords
<1>4. CASE Find(a) \/ Own(a)
  <2>1. /\ pc[a] \in {"find", "own"} /\ UNCHANGED <<kinds, zones, moved>>
        /\ Done(a) \/ (UNCHANGED job /\ \E label \in {"find", "own", "call"}, b \in Nat : Goto(a, label, b))
    BY <1>1, <1>4, FirstBackend DEF Find, Own, StoreInv
  <2>2. CASE UNCHANGED job /\ \E label \in {"find", "own", "call"}, b \in Nat : Goto(a, label, b)
    <3>1. pc'[a] \in {"find", "own", "call"} /\ job'[a] = job[a]
      BY <1>1, <2>2 DEF DomainsInv, Goto
    <3> QED
      BY <2>1, <3>1 DEF ConfirmInv, IsSql, TakesRecords
  <2> QED
    BY <1>2, <2>1, <2>2
<1>5. CASE List(a)
  <2>1. CASE /\ job[a].kind = "copy" /\ pc[a] = "call"
             /\ Goto(a, "make", job[a].dest) /\ UNCHANGED <<job, kinds>>
    <3>1. pc'[a] = "make" /\ at'[a] = job[a].dest /\ job'[a] = job[a]
      BY <1>1, <2>1 DEF DomainsInv, Goto
    <3> QED
      BY <2>1, <3>1 DEF ConfirmInv, IsSql, TakesRecords
  <2> QED
    BY <1>2, <1>5, <2>1 DEF List
<1>6. CASE Delete(a) \/ Write(a) \/ Fill(a)
  BY <1>2, <1>6 DEF Delete, Write, Fill
<1>7. CASE Make(a)
  <2>1. /\ pc[a] = "make" /\ UNCHANGED kinds /\ job[a].kind \in {"copy", "post", "import"}
        /\ job[a].kind # "copy" => at[a] = 1
    BY <1>1, <1>7 DEF ActorInv, Make
  <2>2. CASE Refuses(at[a], zone)
    <3>1. CASE /\ job[a].kind = "import" /\ Goto(a, "find", 1)
               /\ UNCHANGED <<job, zones, moved>>
      <4>1. pc'[a] = "find" /\ job'[a] = job[a]
        BY <1>1, <3>1 DEF DomainsInv, Goto
      <4>2. \E z \in zones[1] : z.name = zone
        BY <2>1, <2>2, <3>1 DEF Refuses, Names
      <4> QED
        BY <2>1, <3>1, <4>1, <4>2 DEF ConfirmInv, IsSql, TakesRecords
    <3> QED
      BY <1>2, <1>7, <2>2, <3>1 DEF Make
  <2>3. CASE ~Refuses(at[a], zone) /\ ~TakesRecords(at[a])
    <3>1. CASE job[a].kind = "import" /\ Goto(a, "find", 1) /\ UNCHANGED job
      <4>1. pc'[a] = "find" /\ job'[a] = job[a]
        BY <1>1, <3>1 DEF DomainsInv, Goto
      <4>2. \E z \in zones'[1] : z.name = zone
        <5>1. Create(at[a], zone)
          BY <1>7, <2>3 DEF Make
        <5> QED
          BY <1>1, <2>1, <2>3, <3>1, <5>1, CreateEvolves
      <4> QED
        BY <2>1, <3>1, <4>1, <4>2 DEF ConfirmInv, IsSql, TakesRecords
    <3> QED
      BY <1>2, <1>7, <2>3, <3>1 DEF Make
  <2>4. CASE ~Refuses(at[a], zone) /\ TakesRecords(at[a])
    <3>1. /\ Create(at[a], zone) /\ UNCHANGED <<job, kinds>>
          /\ job[a].kind = "copy" => Goto(a, "refind", at[a])
          /\ job[a].kind = "post" => Goto(a, "find", 1)
          /\ job[a].kind = "import" => Goto(a, "own", 1)
      BY <1>7, <2>1, <2>4 DEF Make
    <3>2. \E z \in zones'[at[a]] : z.name = zone
      BY <1>1, <2>1, <2>4, <3>1, CreateEvolves
    <3>3. /\ job'[a] = job[a]
          /\ pc'[a] = IF job[a].kind = "copy" THEN "refind" ELSE IF job[a].kind = "post" THEN "find" ELSE "own"
          /\ job[a].kind = "copy" => at'[a] = at[a]
      BY <1>1, <2>1, <3>1 DEF DomainsInv, Goto
    <3> QED
      BY <2>1, <2>4, <3>2, <3>3 DEF ConfirmInv, IsSql, TakesRecords
  <2> QED
    BY <2>2, <2>3, <2>4
<1>8. CASE Refind(a)
  <2>1. pc[a] = "refind" /\ UNCHANGED <<kinds, zones, moved>>
    BY <1>8 DEF Refind
  <2>2. ASSUME NEW z \in Nearest(at[a], zone),
               best' = [best EXCEPT ![a] = [id |-> z.id, name |-> z.name, from |-> at[a]]],
               Goto(a, "fill", at[a]), UNCHANGED job
        PROVE  ConfirmInv(a)'
    <3>1. /\ pc'[a] = "fill" /\ at'[a] = at[a] /\ job'[a] = job[a] /\ best'[a].id = z.id
          /\ z \in zones[at[a]] /\ z.name \in Name /\ IsSubdomainOf(zone, z.name)
      BY <1>1, <2>2 DEF DomainsInv, Goto, Nearest, StoreInv
    <3>2. ASSUME zone \notin moved[a] PROVE z.name = zone
      <4>1. PICK y \in zones[at[a]] : y.name = zone
        BY <2>1, <3>2 DEF ConfirmInv
      <4>2. Len(zone) <= Len(z.name)
        BY <1>1, <2>1, <2>2, <4>1, EnclosesItself, NearestIsDeepest
      <4>3. Len(z.name) <= Len(zone) /\ Len(zone) \in Nat /\ Len(z.name) \in Nat
        BY <1>1, <2>1, <3>1 DEF IsSubdomainOf, Name
      <4> QED
        BY <1>1, <2>1, <3>1, <4>2, <4>3, EnclosesItself, OneOfEachLength
    <3> QED
      BY <2>1, <3>1, <3>2 DEF ConfirmInv, IsSql, TakesRecords
  <2> QED
    BY <1>2, <1>8, <2>2 DEF Refind
<1> QED
  BY <1>3, <1>4, <1>5, <1>6, <1>7, <1>8 DEF Step

AllConfirm == \A a \in Actors : ConfirmInv(a)

LEMMA NextConfirm == RouterInv /\ AllConfirm /\ [Next]_vars => (RouterInv /\ AllConfirm)'
<1> SUFFICES ASSUME RouterInv, AllConfirm, [Next]_vars PROVE RouterInv' /\ AllConfirm'
  OBVIOUS
<1>1. RouterInv'
  BY NextRouter
<1>2. ASSUME NEW a \in Actors, Step(a), NEW o \in Actors PROVE ConfirmInv(o)'
  <2>1. Kept(a)
    BY <1>2, StartKeeps, FindKeeps, OwnKeeps, ListKeeps, DeleteKeeps, WriteKeeps, MakeKeeps,
       RefindKeeps DEF Step
  <2>2. CASE o = a
    BY <1>1, <1>2, <2>2, ConfirmStep DEF AllConfirm
  <2>3. CASE o # a
    <3>1. PICK names : Keeps(a, names)
      BY <2>1 DEF Kept
    <3> QED
      BY <2>3, <3>1, ConfirmKept DEF AllConfirm, Keeps, OthersStay
  <2> QED
    BY <2>2, <2>3
<1>3. ASSUME NEW b \in Backends, Others(b), NEW o \in Actors PROVE ConfirmInv(o)'
  <2>1. PICK name : Evolves({name}) /\ moved' = Moves({name}) /\ UNCHANGED <<kinds, pc, job, at, best>>
    BY <1>3, OthersEvolve
  <2>2. moved'[o] = moved[o] \cup {name}
    BY <2>1 DEF Moves
  <2> QED
    BY <2>1, <2>2, ConfirmKept DEF AllConfirm
<1>4. ASSUME UNCHANGED vars, NEW o \in Actors PROVE ConfirmInv(o)'
  <2>1. UNCHANGED <<kinds, zones, pc, job, at, best, moved>> /\ ConfirmInv(o)
    BY <1>4 DEF vars, actor, AllConfirm
  <2> QED
    BY <2>1 DEF ConfirmInv, IsSql, TakesRecords
<1> QED
  BY <1>1, <1>2, <1>3, <1>4 DEF Next, AllConfirm

\* Adding to a zone that is reached puts the records there.
LEMMA AddAdds ==
  ASSUME StoreInv, NEW b \in Backends, NEW info, NEW rrs, Add(b, info, rrs), TakesRecords(b),
         NEW z \in zones[b], z \in Reached(b, info)
  PROVE  \E y \in zones'[b] : y.name = z.name /\ rrs \subseteq y.rrs
<1> DEFINE new == [z EXCEPT !.rrs = @ \cup rrs]
<1>1. z = [id |-> z.id, name |-> z.name, rrs |-> z.rrs]
  BY DEF StoreInv
<1>2. new.name = z.name /\ rrs \subseteq new.rrs
  BY <1>1
<1>3. zones'[b] = {IF TakesRecords(b) /\ y \in Reached(b, info) THEN [y EXCEPT !.rrs = @ \cup rrs] ELSE y :
                      y \in zones[b]}
  BY DEF Add, StoreInv
<1>4. new \in zones'[b]
  BY <1>3
<1> QED
  BY <1>2, <1>4

\* What a step that confirms a job has done.
LEMMA ConfirmedNow ==
  ASSUME RouterInv, NEW a \in Actors, ConfirmInv(a), job[a].zone \notin moved[a]
  PROVE  /\ Fill(a) => \E z \in zones'[job[a].dest] : z.name = job[a].zone /\ got[a] \subseteq z.rrs
         /\ /\ Write(a) /\ job[a].kind \in {"post", "import"}
            /\ best[a].id # 0 \/ ~IsSql(1)
            /\ TakesRecords(1)
            => \E z \in zones'[1] : z.name = job[a].zone /\ job[a].rrs \subseteq z.rrs
<1> DEFINE zone == job[a].zone
<1>1. StoreInv /\ ActorInv(a) /\ 1 \in Backends /\ at[a] \in Backends
  BY FirstBackend DEF RouterInv, StoreInv, ActorInv
<1>2. CASE Fill(a)
  <2>1. Add(at[a], best[a], got[a]) /\ pc[a] = "fill" /\ at[a] = job[a].dest /\ IsSql(at[a])
        /\ TakesRecords(at[a])
    BY <1>2 DEF Fill, ConfirmInv
  <2>2. PICK z \in zones[at[a]] : z.name = zone /\ z.id = best[a].id
    BY <2>1 DEF ConfirmInv
  <2>3. z \in Reached(at[a], best[a])
    BY <2>1, <2>2 DEF Reached
  <2>4. ~Write(a)
    BY <2>1 DEF Write
  <2> QED
    BY <1>1, <2>1, <2>2, <2>3, <2>4, AddAdds
<1>3. CASE Write(a) /\ job[a].kind \in {"post", "import"} /\ (best[a].id # 0 \/ ~IsSql(1))
             /\ TakesRecords(1)
  <2>1. Add(at[a], best[a], job[a].rrs) /\ pc[a] = "call" /\ ~Fill(a)
    BY <1>3 DEF Write, Fill
  <2>2. /\ Found(a) /\ Searched(a) /\ zone \in Name /\ best[a].name \in Name
        /\ best[a].from \in Backends /\ IsSubdomainOf(zone, best[a].name)
        /\ best[a].name \notin moved[a] => \A b \in 1 .. at[a] - 1 : ~Has(a, b)
    BY <1>1, <2>1 DEF ActorInv, Found
  <2>3. PICK y \in zones[1] : y.name = zone
    BY <1>3, <2>1 DEF ConfirmInv
  <2>4. Backends = 1 .. Len(kinds) /\ Len(kinds) \in Nat
    BY <1>1, FirstBackend DEF StoreInv
  <2>5. best[a].name = zone /\ best[a].from = 1
    <3>1. CASE Covered(a, Backends)
      <4>1. Len(y.name) < Len(best[a].name) \/ (y.name = best[a].name /\ best[a].from <= 1)
        BY <1>1, <2>2, <2>3, <3>1, EnclosesItself DEF Covered
      <4>2. Len(best[a].name) <= Len(zone) /\ Len(zone) \in Nat /\ Len(best[a].name) \in Nat
        BY <2>2 DEF IsSubdomainOf, Name
      <4> QED
        BY <2>2, <2>3, <2>4, <4>1, <4>2
    <3> QED
      BY <2>2, <3>1 DEF Searched
  <2>6. at[a] = 1
    <3>1. Has(a, 1)
      BY <2>3, <2>5 DEF Has, Names
    <3> QED
      BY <1>1, <2>2, <2>4, <2>5, <3>1
  <2>7. \E z \in zones[1] : z.name = zone /\ z \in Reached(1, best[a])
    <3>1. PICK z \in zones[1] : z.name = zone /\ (best[a].id # 0 /\ IsSql(1) => z.id = best[a].id)
      BY <2>2, <2>5 DEF Found
    <3> QED
      BY <1>3, <2>5, <3>1 DEF Reached
  <2> QED
    BY <1>1, <1>3, <2>1, <2>6, <2>7, AddAdds
<1> QED
  BY <1>2, <1>3

\* A copy that ends, a POST or an import that is confirmed has put its records
\* into the zone it made, for any backends, threads and jobs, unless somebody
\* else made or deleted a zone of that name (router.cpp:155-184,
\* rest.cpp:203-231, zone.cpp:519-535).  Left out, as they lose their records:
\* the import of a zone file that made its zone in SQL, whose ZoneInfo has no id
\* (zone.cpp:526), and what is written into pgsql.
THEOREM ConfirmsWhatIsThere == Spec => ConfirmedIsThere
<1>1. Init => RouterInv /\ AllConfirm
  BY InitRouter DEF Init, AllConfirm, ConfirmInv
<1>2. RouterInv /\ AllConfirm =>
        \A a \in Actors :
          LET zone == job[a].zone
              Holds(b, rrs) == \E z \in zones'[b] : z.name = zone /\ rrs \subseteq z.rrs
          IN  zone \notin moved[a] =>
                /\ Fill(a) => Holds(job[a].dest, got[a])
                /\ /\ Write(a)
                   /\ job[a].kind \in {"post", "import"}
                   /\ best[a].id # 0 \/ ~IsSql(1)
                   /\ TakesRecords(1)
                   => Holds(1, job[a].rrs)
  BY ConfirmedNow DEF AllConfirm
<1> QED
  BY <1>1, <1>2, NextConfirm, PTL DEF Spec, ConfirmedIsThere

=============================================================================
