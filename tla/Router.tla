-------------------------------- MODULE Router --------------------------------
(***************************************************************************)
(* BackendRouter (backend/router.cpp) over several backends, and those who *)
(* use it at the same time: the threads of the daemon, and simple-dnsutil  *)
(* (cli/util.cpp), another process on the same databases and files.  A job *)
(* looks a zone up with findZone, which asks one backend after the other,  *)
(* and then passes the ZoneInfo it got, an id and a name, to a call that   *)
(* looks up the owner again, by name.  What the owner does with it depends *)
(* on its kind: memory and bind go by the name, SQL by the id.             *)
(*                                                                         *)
(* What util changes in memory or bind is its own and not modelled; it     *)
(* reads the files of bind when it starts, here when it asks for the zone. *)
(*                                                                         *)
(* One call of one backend is one step; its own steps, and transactions    *)
(* that meet in one backend, are in GsqlBackend, BindFileBackend, Engine.  *)
(***************************************************************************)
EXTENDS DnsName, FiniteSets

CONSTANTS
  Actors,      \* the threads and processes that use the router
  Launches,    \* the values of "launch": sequences of kinds of backend
  InitNames,   \* how the backends may be filled: sequences of sets of names
  Jobs,        \* the jobs [kind, zone, rrs, dest]: rrs are owners to add, dest
               \* the backend to copy to
  MaxJobs,     \* bound: jobs in one run
  MaxChanges   \* bound: zones made or dropped in a database by others

Kinds == {"memory", "bind", "sqlite", "pgsql"}

ASSUME RouterAssumption ==
  /\ \A l \in Launches : l \in Seq(Kinds) /\ Len(l) >= 1
  /\ \A f \in InitNames, l \in Launches :
       DOMAIN f = DOMAIN l /\ \A b \in DOMAIN f : IsFiniteSet(f[b]) /\ f[b] \subseteq Seq(STRING)
  /\ \A j \in Jobs : j.zone \in Seq(STRING) /\ \A l \in Launches : j.dest \in DOMAIN l
  /\ MaxJobs \in Nat /\ MaxChanges \in Nat

VARIABLES
  kinds,     \* the backends, in the order of "launch"
  zones,     \* per backend: its zones, a set of [id, name, rrs]; rrs, the owners
             \* of its records but the SOA
  lastId,    \* per backend: the largest id it has given out
  pc,        \* per actor: its next step
  job,       \* per actor: its job
  at,        \* per actor: the backend it asks next
  best,      \* per actor: the ZoneInfo it has found, or NoZone
  got,       \* per actor: the records it has read
  jobs, changes,
  moved      \* history, per actor: the names of the zones made or deleted
             \* anywhere since its job began or it made its own

actor == <<pc, job, at, best, got>>
vars == <<kinds, zones, lastId, actor, jobs, changes, moved>>

Backends == DOMAIN kinds
IsSql(b) == kinds[b] \in {"sqlite", "pgsql"}

\* from is history: the backend the ZoneInfo came from.  A ZoneInfo that no
\* backend has filled in has the id -1, here 0, which no zone has.
NoZone == [id |-> 0, name |-> Root, from |-> 0]
NoJob == [kind |-> "none", zone |-> Root, rrs |-> {}, dest |-> 0]

Ids(zs) == {z.id : z \in zs}
Names(zs) == {z.name : z \in zs}
MaxId(ids) == IF ids = {} THEN 0 ELSE CHOOSE i \in ids : \A j \in ids : j <= i

\* A backend filled before, in some order: ids from 1, a host in each zone.
Filled(names) ==
  {{[id |-> id[n], name |-> n, rrs |-> {Qualify(<<"www">>, n)}] : n \in names} :
     id \in {f \in [names -> 1 .. Cardinality(names)] : \A m, n \in names : f[m] = f[n] => m = n}}

Init ==
  /\ kinds \in Launches
  /\ \E names \in InitNames :
       /\ zones \in [Backends -> UNION {Filled(names[b]) : b \in Backends}]
       /\ \A b \in Backends : Names(zones[b]) = names[b]
  /\ lastId = [b \in Backends |-> Cardinality(zones[b])]
  /\ pc = [a \in Actors |-> "idle"]
  /\ job = [a \in Actors |-> NoJob]
  /\ at = [a \in Actors |-> 1]
  /\ best = [a \in Actors |-> NoZone]
  /\ got = [a \in Actors |-> {}]
  /\ jobs = 0 /\ changes = 0
  /\ moved = [a \in Actors |-> {}]

Done(a) ==
  /\ pc' = [pc EXCEPT ![a] = "idle"] /\ job' = [job EXCEPT ![a] = NoJob]
  /\ at' = [at EXCEPT ![a] = 1] /\ best' = [best EXCEPT ![a] = NoZone]
  /\ got' = [got EXCEPT ![a] = {}]

Goto(a, label, b) == pc' = [pc EXCEPT ![a] = label] /\ at' = [at EXCEPT ![a] = b]

Moves(names) == [a \in Actors |-> moved[a] \cup names]

-----------------------------------------------------------------------------
(* What the backends do.                                                   *)

\* findZone of backend b: its deepest zones that enclose the name.  PostgreSQL
\* may hold a name twice.
Nearest(b, name) ==
  LET enclosing == {z \in zones[b] : IsSubdomainOf(name, z.name)}
  IN  {z \in enclosing : \A y \in enclosing : Len(y.name) <= Len(z.name)}

ReachedById(b, info) == {z \in zones[b] : z.id = info.id}

\* The zones a call of backend b acts on, given a ZoneInfo.
Reached(b, info) ==
  IF IsSql(b) THEN {z \in zones[b] : z.id = info.id} ELSE {z \in zones[b] : z.name = info.name}

\* createZone is refused: "zone exists".
Refuses(b, name) == kinds[b] \in {"memory", "sqlite"} /\ name \in Names(zones[b])

\* The id of a new zone: memory and bind count their zones, sqlite uses the id
\* of the last one again.
NewId(b) ==
  CASE kinds[b] = "pgsql" -> lastId[b] + 1
    [] kinds[b] = "sqlite" -> MaxId(Ids(zones[b])) + 1
    [] OTHER -> Cardinality(zones[b]) + 1

\* createZone; bind puts the new zone in the place of one that exists.
Create(b, name) ==
  LET kept == IF kinds[b] = "bind" THEN {z \in zones[b] : z.name # name} ELSE zones[b]
  IN  /\ zones' = [zones EXCEPT ![b] = kept \cup {[id |-> NewId(b), name |-> name, rrs |-> {}]}]
      /\ lastId' = [lastId EXCEPT ![b] = IF NewId(b) > @ THEN NewId(b) ELSE @]

\* PostgreSQL refuses every record the SQL backend would insert, as it gives
\* numbers for columns that are booleans.
TakesRecords(b) == kinds[b] # "pgsql"

\* A transaction that adds records, from begin to commit.
Add(b, info, rrs) ==
  zones' = [zones EXCEPT ![b] =
    {IF TakesRecords(b) /\ z \in Reached(b, info) THEN [z EXCEPT !.rrs = @ \cup rrs] ELSE z :
       z \in zones[b]}]

-----------------------------------------------------------------------------
(* The router.                                                             *)

DeeperOrLast(z, b) == b = NoZone \/ Len(z.name) >= Len(b.name)

\* A later backend's zone is taken only if it is deeper.
Deeper(z, b) == b = NoZone \/ Len(z.name) > Len(b.name)

\* util's requireZone, the REST handlers and handleAxfr want the very zone.
\* An update, a POST and an import take what findZone gives them.
WantsExact(kind) == kind \in {"list", "delete", "patch", "copy"}

\* The ZoneInfo after backend b was asked.
Better(a, z) ==
  IF Deeper(z, best[a]) THEN [id |-> z.id, name |-> z.name, from |-> at[a]] ELSE best[a]

\* findZone, one backend.
Find(a) ==
  LET hits == Nearest(at[a], job[a].zone)
  IN  /\ pc[a] = "find"
      /\ \E next \in (IF hits = {} THEN {best[a]} ELSE {Better(a, z) : z \in hits}) :
           IF at[a] < Len(kinds)
           THEN best' = [best EXCEPT ![a] = next] /\ Goto(a, "find", at[a] + 1) /\ UNCHANGED <<job, got>>
           ELSE IF next = NoZone \/ (WantsExact(job[a].kind) /\ next.name # job[a].zone)
           THEN Done(a)
           ELSE best' = [best EXCEPT ![a] = next] /\ Goto(a, "own", 1) /\ UNCHANGED <<job, got>>
      /\ UNCHANGED <<kinds, zones, lastId, jobs, changes, moved>>

\* ownerOf, one backend.  Without an owner nothing is done.
Own(a) ==
  /\ pc[a] = "own"
  /\ IF best[a].name \in Names(zones[at[a]])
     THEN Goto(a, "call", at[a]) /\ UNCHANGED <<job, best, got>>
     ELSE IF at[a] < Len(kinds)
     THEN Goto(a, "own", at[a] + 1) /\ UNCHANGED <<job, best, got>>
     ELSE Done(a)
  /\ UNCHANGED <<kinds, zones, lastId, jobs, changes, moved>>

-----------------------------------------------------------------------------
(* The call of the owner.                                                  *)

\* listZone: of a transfer, a GET, an export; or the first half of copyZone.
List(a) ==
  /\ pc[a] = "call" /\ job[a].kind \in {"list", "copy"}
  /\ IF job[a].kind = "copy"
     THEN /\ got' = [got EXCEPT ![a] = UNION {z.rrs : z \in Reached(at[a], best[a])}]
          /\ Goto(a, "make", job[a].dest) /\ UNCHANGED <<job, best>>
     ELSE Done(a)
  /\ UNCHANGED <<kinds, zones, lastId, jobs, changes, moved>>

\* deleteZone.
Delete(a) ==
  LET gone == Reached(at[a], best[a])
  IN  /\ pc[a] = "call" /\ job[a].kind = "delete"
      /\ zones' = [zones EXCEPT ![at[a]] = @ \ gone]
      /\ moved' = Moves(Names(gone))
      /\ Done(a)
      /\ UNCHANGED <<kinds, lastId, jobs, changes>>

\* begin, addRecord and commit: of an UPDATE, a PATCH, util's add-record, and
\* of a POST or an import once the zone is there.  What is added for an id that
\* no zone has is refused by sqlite; the commit succeeds, there and in pgsql,
\* which adds nothing.
Write(a) ==
  /\ pc[a] = "call" /\ job[a].kind \in {"update", "patch", "post", "import"}
  /\ Add(at[a], best[a], job[a].rrs)
  /\ Done(a)
  /\ UNCHANGED <<kinds, lastId, jobs, changes, moved>>

\* The ZoneInfo an import of a zone file begins with.
MadeUp(a) == [id |-> 0, name |-> job[a].zone, from |-> at[a]]

\* createZone: the router's goes to the first writable backend, which is the
\* first, as all are; copyZone's to the backend to copy to.  It is told to have
\* failed if the zone exists, and by pgsql always: that makes the zone and is then
\* refused the SOA.  A POST and a copy that fail end here; the import of a zone
\* file then looks for a zone to add to, and otherwise goes on with the ZoneInfo
\* it made up itself.  Each zone of a named.conf is imported as a POST is.
Make(a) ==
  LET name == job[a].zone
      kind == job[a].kind
  IN  /\ pc[a] = "make"
      /\ \/ /\ Refuses(at[a], name)
            /\ UNCHANGED <<zones, lastId, moved>>
         \/ /\ ~Refuses(at[a], name)
            /\ Create(at[a], name)
            /\ moved' = [Moves({name}) EXCEPT ![a] = {}]
      /\ IF Refuses(at[a], name) \/ ~TakesRecords(at[a])
         THEN IF kind = "import" THEN Goto(a, "find", 1) /\ UNCHANGED <<job, best, got>> ELSE Done(a)
         ELSE /\ CASE kind = "copy"   -> Goto(a, "refind", at[a]) /\ UNCHANGED best
                   [] kind = "post"   -> Goto(a, "find", 1) /\ UNCHANGED best
                   [] kind = "import" -> Goto(a, "own", 1) /\ best' = [best EXCEPT ![a] = MadeUp(a)]
              /\ UNCHANGED <<job, got>>
      /\ UNCHANGED <<kinds, jobs, changes>>

RefindByRouter(a) ==
  /\ pc[a] = "refind"
  /\ Goto(a, "fill", at[a])
  /\ UNCHANGED <<kinds, zones, lastId, job, best, got, jobs, changes, moved>>

\* copyZone asks the destination for the ZoneInfo of what it made there.
Refind(a) ==
  LET hits == Nearest(at[a], job[a].zone)
  IN  /\ pc[a] = "refind"
      /\ IF hits = {} THEN Done(a)
         ELSE \E z \in hits :
                /\ best' = [best EXCEPT ![a] = [id |-> z.id, name |-> z.name, from |-> at[a]]]
                /\ Goto(a, "fill", at[a]) /\ UNCHANGED <<job, got>>
      /\ UNCHANGED <<kinds, zones, lastId, jobs, changes, moved>>

\* The second half of copyZone: a transaction of the destination.
Fill(a) ==
  /\ pc[a] = "fill"
  /\ Add(at[a], best[a], got[a])
  /\ Done(a)
  /\ UNCHANGED <<kinds, lastId, jobs, changes, moved>>

-----------------------------------------------------------------------------
\* A job begins: with createZone, or with a search.  A copy goes to a database.
Start(a) == \E j \in Jobs :
  /\ j.kind = "copy" => IsSql(j.dest)
  /\ pc[a] = "idle" /\ jobs < MaxJobs /\ jobs' = jobs + 1
  /\ job' = [job EXCEPT ![a] = j]
  /\ Goto(a, IF j.kind \in {"post", "import"} THEN "make" ELSE "find", 1)
  /\ moved' = [moved EXCEPT ![a] = {}]
  /\ UNCHANGED <<kinds, zones, lastId, best, got, changes>>

\* Another daemon, or simple-dnsutil with another "launch", makes or deletes a
\* zone in a database.
Others(b) ==
  /\ IsSql(b) /\ changes < MaxChanges /\ changes' = changes + 1
  /\ \E name \in {j.zone : j \in Jobs} :
       /\ \/ ~Refuses(b, name) /\ Create(b, name)
          \/ \E z \in zones[b] : z.name = name /\ zones' = [zones EXCEPT ![b] = @ \ {z}] /\ UNCHANGED lastId
       /\ moved' = Moves({name})
  /\ UNCHANGED <<kinds, actor, jobs>>

Step(a) ==
  \/ Start(a) \/ Find(a) \/ Own(a) \/ List(a) \/ Delete(a) \/ Write(a) \/ Make(a)
  \/ Refind(a) \/ Fill(a)

Next == (\E a \in Actors : Step(a)) \/ \E b \in Backends : Others(b)

Spec == Init /\ [][Next]_vars

-----------------------------------------------------------------------------
\* A ZoneInfo names a zone its backend has given that id (router.cpp:60-85).
TypeOK ==
  /\ kinds \in Launches
  /\ \A a \in Actors :
       /\ pc[a] \in {"idle", "find", "own", "call", "make", "refind", "fill"}
       /\ at[a] \in Backends
       /\ best[a].from \in Backends \cup {0}
       /\ pc[a] \in {"own", "call", "fill"} => best[a].from \in Backends
  /\ \A b \in Backends : IsSql(b) => \A y, z \in zones[b] : y.id = z.id => y = z

\* A call reaches the zone that was found and no other, though the owner is
\* looked up by name and then given an id that may be another backend's:
\* always in the backend it was found in, unless that is sqlite, which may have
\* given the id to another zone since; and anywhere if no zone of that name was
\* made or deleted meanwhile (router.cpp:74-84, 142-153).  An id of one backend
\* that is given to another, once the first has lost the zone, may reach any zone
\* there.  But for an import of
\* a zone file into SQL, whose ZoneInfo has no id and reaches nothing
\* (zone.cpp:505-526).
CallsReachTheirZone ==
  \A a \in Actors :
    pc[a] = "call" =>
      /\ best[a].from = at[a] /\ kinds[at[a]] # "sqlite" =>
           \A z \in Reached(at[a], best[a]) : z.name = best[a].name
      /\ best[a].name \notin moved[a] =>
           /\ best[a].from = at[a]
           /\ best[a].id # 0 \/ ~IsSql(at[a]) => Reached(at[a], best[a]) # {}
           /\ \A z \in Reached(at[a], best[a]) : z.name = best[a].name

\* A search during which no zone was made or deleted has found the deepest zone
\* of all backends that encloses the name, in the first backend that has it
\* (router.cpp:60-72).
SearchIsDeepest ==
  \A a \in Actors :
    pc[a] \in {"own", "call"} /\ moved[a] = {} /\ best[a].id # 0 =>
      \A b \in Backends : \A z \in zones[b] :
        IsSubdomainOf(job[a].zone, z.name) =>
          \/ Len(z.name) < Len(best[a].name)
          \/ z.name = best[a].name /\ best[a].from <= b

\* A copy that comes to its end has put all it read into the zone it made, and
\* a POST or an import its records into the zone in the first backend, if nobody
\* else made or deleted a zone of that name meanwhile (router.cpp:155-184,
\* rest.cpp:203-231, zone.cpp:519-535).  But for the import of a zone file that
\* made its zone in sqlite: that loses every record but the SOA.  And pgsql takes
\* no records at all; a POST and a copy to it fail, an import is confirmed.
ConfirmedIsThere ==
  [][\A a \in Actors :
       LET zone == job[a].zone
           Holds(b, rrs) == \E z \in zones'[b] : z.name = zone /\ rrs \subseteq z.rrs
       IN  zone \notin moved[a] =>
             /\ Fill(a) => Holds(job[a].dest, got[a])
             /\ /\ Write(a)
                /\ job[a].kind \in {"post", "import"}
                /\ best[a].id # 0 \/ ~IsSql(1)
                /\ TakesRecords(1)
                => Holds(1, job[a].rrs)]_vars

=============================================================================
