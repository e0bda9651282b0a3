--------------------------- MODULE BindFileBackend ---------------------------
(***************************************************************************)
(* The BIND file backend (backend/bindfile.cpp) under several writers, and *)
(* what a crash leaves of it.  Its zones are in memory; begin() hands out  *)
(* a copy of a zone's records, the transaction edits the copy, commit()    *)
(* puts it in place of the zone.  Every change rewrites the file of every  *)
(* zone and then named.conf, in place, under the backend's mutex.          *)
(*                                                                         *)
(* A writer is a thread that carries out an UPDATE (a PATCH makes the same *)
(* calls), a POST or a DELETE.  Reads are those of MemoryBackend.          *)
(***************************************************************************)
EXTENDS ZoneFile, FiniteSets

CONSTANTS
  Writers,    \* the threads that write
  Requests,   \* the requests [kind, zone, ops, soa] they get
  InitZones,  \* the zones at the first start: zone -> [file, rrs]
  SerialMod,  \* a serial is a number below SerialMod: 2^32 in the code
  MaxWrites,  \* bound: requests in one run
  MaxCrashes  \* bound: crashes in one run

Operations == [op : {"add", "rrset", "name"}, rr : FileRRs(Names)]
Apexes == DOMAIN InitZones \cup {req.zone : req \in Requests}

\* No two zones share a file, and those of named.conf differ from the default
\* files of others.
ASSUME BindFileAssumption ==
  /\ Apexes \subseteq Names
  /\ \A z \in DOMAIN InitZones :
       /\ InitZones[z] \in [file : Names \ {Root}, rrs : Seq(FileRRs(Names))]
       /\ \A y \in Apexes \ {z} :
            /\ InitZones[z].file # DefaultFile(y)
            /\ y \in DOMAIN InitZones => InitZones[z].file # InitZones[y].file
  /\ \A req \in Requests :
       /\ req.kind \in {"update", "POST", "DELETE"}
       /\ req.ops \in Seq(Operations) /\ req.soa \in Seq(FileRRs(Names)) /\ Len(req.soa) = 1
       /\ req.kind = "DELETE" => req.ops = << >>
  /\ SerialMod \in Nat \ {0} /\ MaxWrites \in Nat /\ MaxCrashes \in Nat

VARIABLES
  daemon,   \* "up", "down", or "refused": initialize() failed
  zones,    \* zones_: zone -> [file, rrs]
  files,    \* the zone files: name -> [ok, lines]; ok if all of it can be read
  conf,     \* named.conf: zone -> file
  save,     \* persistLocked: the zones to write yet, the one being written,
            \* whether named.conf is
  pc, tx,   \* per writer: the call it makes next, and its transaction
  writes, crashes,
  saved,    \* history: zones when the last save ended
  acked,    \* history: <<zone, record>> added by an update that was confirmed,
            \* and not overtaken by one that had copied the zone before
  damaged   \* history: the zones a crash took records, or themselves, from

memory == <<zones, save, pc, tx>>
disk == <<files, conf>>
history == <<saved, acked, damaged>>
vars == <<daemon, memory, disk, writes, crashes, history>>

NoTx == [kind |-> "none", zone |-> Root, ops |-> << >>, soa |-> << >>, copied |-> << >>,
         rrs |-> << >>]
NotSaving == [todo |-> {}, open |-> {}, conf |-> FALSE]

\* persistLocked: the file of a zone; one made by createZone has none of its own.
FileOf(z) == IF zones[z].file = Root THEN DefaultFile(z) ELSE zones[z].file

Text(z) == [ok |-> TRUE, lines |-> WriteZoneText(z, zones[z].rrs)]

\* What initialize() reads of the disk.
Readable(z) ==
  /\ conf[z] \in DOMAIN files
  /\ files[conf[z]].ok
  /\ ParseZoneText(z, files[conf[z]].lines).ok
RecordsOnDisk(z) == ParseZoneText(z, files[conf[z]].lines).rrs

Init ==
  /\ daemon = "up"
  /\ zones = InitZones
  /\ files = [f \in {InitZones[z].file : z \in DOMAIN InitZones} |->
                LET z == CHOOSE y \in DOMAIN InitZones : InitZones[y].file = f
                IN  [ok |-> TRUE, lines |-> WriteZoneText(z, InitZones[z].rrs)]]
  /\ conf = [z \in DOMAIN InitZones |-> InitZones[z].file]
  /\ save = NotSaving
  /\ pc = [w \in Writers |-> "idle"]
  /\ tx = [w \in Writers |-> NoTx]
  /\ writes = 0 /\ crashes = 0
  /\ saved = InitZones /\ acked = {} /\ damaged = {}

Goto(w, label) == pc' = [pc EXCEPT ![w] = label]
Reply(w) == Goto(w, "idle") /\ tx' = [tx EXCEPT ![w] = NoTx]

\* Nobody holds the mutex: it is held while the files are written.
Saving(w) == pc[w] \in {"saveNew", "save"}
Unlocked == \A w \in Writers : ~Saving(w)

-----------------------------------------------------------------------------
(* The calls of a writer.                                                  *)

Receive(w) == \E req \in Requests :
  /\ pc[w] = "idle" /\ writes < MaxWrites
  /\ writes' = writes + 1
  /\ tx' = [tx EXCEPT ![w] = [NoTx EXCEPT !.kind = req.kind, !.zone = req.zone,
                                         !.ops = req.ops, !.soa = req.soa]]
  /\ Goto(w, IF req.kind = "POST" THEN "create" ELSE "find")
  /\ UNCHANGED <<zones, save, disk, history>>

\* findZone: the zone that encloses the one of the request; a DELETE names it.
Find(w) ==
  LET zone  == FindZone(zones, tx[w].zone)
      found == Enclosing(zones, tx[w].zone) # {}
  IN  /\ pc[w] = "find" /\ Unlocked
      /\ IF found /\ (tx[w].kind = "DELETE" => zone = tx[w].zone)
         THEN /\ tx' = [tx EXCEPT ![w].zone = zone]
              /\ Goto(w, IF tx[w].kind = "DELETE" THEN "delete" ELSE "begin")
         ELSE Reply(w)
      /\ UNCHANGED <<zones, save, disk, writes, history>>

\* The edits of Tx: each changes the copy at once, in the order of the calls.
Edit(rrs, op) ==
  IF op.op = "add" THEN Append(rrs, op.rr)
  ELSE ElementsAt(rrs, {i \in DOMAIN rrs : ~Deletes(op, rrs[i])})

Edited(rrs, ops) == FoldLeft(Edit, rrs, ops)

\* begin: the copy, edited before the caller makes another call.
Begin(w) ==
  /\ pc[w] = "begin" /\ Unlocked
  /\ IF tx[w].zone \in DOMAIN zones
     THEN /\ tx' = [tx EXCEPT ![w].copied = zones[tx[w].zone].rrs,
                             ![w].rrs = Edited(zones[tx[w].zone].rrs, tx[w].ops)]
          /\ Goto(w, IF tx[w].kind = "POST" THEN "commit" ELSE "soa")
     ELSE Reply(w)
  /\ UNCHANGED <<zones, save, disk, writes, history>>

\* Tx::setSoaSerial sets every SOA of the copy, at the apex or not.
SetSoaSerial(rrs, serial) ==
  [i \in DOMAIN rrs |-> IF rrs[i].type = "SOA" THEN [rrs[i] EXCEPT !.num = serial] ELSE rrs[i]]

\* lookup of the zone's SOA as it is now, and its serial plus one for the copy.
ReadSoa(w) ==
  LET soa == Lookup(zones, tx[w].zone, tx[w].zone, "SOA")
  IN  /\ pc[w] = "soa" /\ Unlocked
      /\ tx' = [tx EXCEPT ![w].rrs =
                  IF soa = << >> THEN @ ELSE SetSoaSerial(@, (soa[1].num + 1) % SerialMod)]
      /\ Goto(w, "commit")
      /\ UNCHANGED <<zones, save, disk, writes, history>>

\* The zones are changed: persistLocked begins, and the mutex is kept.
Change(w, db, label) ==
  /\ zones' = db
  /\ save' = [NotSaving EXCEPT !.todo = DOMAIN db]
  /\ Goto(w, label)

\* What a request promised, when its last change is on disk: the records it added
\* and did not delete again, but a SOA, whose serial changes.
Added(w) ==
  {<<tx[w].zone, tx[w].ops[i].rr>> : i \in
     {j \in DOMAIN tx[w].ops : /\ tx[w].ops[j].op = "add" /\ tx[w].ops[j].rr.type # "SOA"
                               /\ \A k \in j + 1 .. Len(tx[w].ops) :
                                    ~Deletes(tx[w].ops[k], tx[w].ops[j].rr)}}
Dropped(w) ==
  {a \in acked : a[1] = tx[w].zone /\ \/ pc[w] = "saveNew" \/ tx[w].kind = "DELETE"
                                      \/ \E o \in ToSet(tx[w].ops) : Deletes(o, a[2])}

\* What was added since the transaction copied the zone goes with its commit.
Overtaken(w) ==
  {a \in acked : pc[w] = "save" /\ tx[w].kind # "DELETE" /\ a[1] = tx[w].zone
                 /\ a[2] \notin ToSet(tx[w].copied)}

CommitInMemory(w) ==
  /\ pc[w] = "commit" /\ Unlocked
  /\ IF tx[w].zone \in DOMAIN zones
     THEN /\ zones' = [zones EXCEPT ![tx[w].zone].rrs = tx[w].rrs]
          /\ acked' = (acked \ Dropped(w)) \cup Added(w)
     ELSE UNCHANGED <<zones, acked>>
  /\ Reply(w)
  /\ UNCHANGED <<save, disk, writes, saved, damaged>>

\* Tx::commit: the copy takes the place of the zone's records, if the zone is
\* still there.
CommitTx(w) ==
  /\ pc[w] = "commit" /\ Unlocked
  /\ IF tx[w].zone \in DOMAIN zones
     THEN Change(w, [zones EXCEPT ![tx[w].zone].rrs = tx[w].rrs], "save") /\ UNCHANGED tx
     ELSE Reply(w) /\ UNCHANGED <<zones, save>>
  /\ UNCHANGED <<disk, writes, history>>

\* createZone does not look whether the zone exists.
Create(w) ==
  LET z == tx[w].zone
      soa == [tx[w].soa[1] EXCEPT !.name = z, !.type = "SOA"]
  IN  /\ pc[w] = "create" /\ Unlocked
      /\ Change(w, [y \in DOMAIN zones \cup {z} |->
                      IF y = z THEN [file |-> Root, rrs |-> <<soa>>] ELSE zones[y]], "saveNew")
      /\ UNCHANGED <<tx, disk, writes, history>>

DeleteUnsaved(w) ==
  /\ pc[w] = "delete" /\ Unlocked
  /\ zones' = DeleteZone(zones, tx[w].zone)
  /\ Reply(w)
  /\ UNCHANGED <<save, disk, writes, history>>

DeleteWithFile(w) ==
  /\ pc[w] = "delete" /\ Unlocked
  /\ Change(w, DeleteZone(zones, tx[w].zone), "save")
  /\ files' = [f \in DOMAIN files \ {FileOf(z) : z \in DOMAIN zones \cap {tx[w].zone}} |-> files[f]]
  /\ UNCHANGED <<tx, conf, writes, history>>

Delete(w) ==
  /\ pc[w] = "delete" /\ Unlocked
  /\ Change(w, DeleteZone(zones, tx[w].zone), "save")
  /\ UNCHANGED <<tx, disk, writes, history>>

-----------------------------------------------------------------------------
(* persistLocked.                                                          *)

\* A file is truncated when it is opened; what it will hold is flushed later.
OpenFile(w) == \E z \in save.todo :
  /\ Saving(w) /\ save.open = {}
  /\ files' = [f \in DOMAIN files \cup {FileOf(z)} |->
                 IF f = FileOf(z) THEN [ok |-> TRUE, lines |-> << >>] ELSE files[f]]
  /\ save' = [todo |-> save.todo \ {z}, open |-> {z}, conf |-> save.conf]
  /\ UNCHANGED <<zones, conf, pc, tx, writes, history>>

CloseFileUnflushed(w) == \E z \in save.open :
  /\ Saving(w)
  /\ save' = [save EXCEPT !.open = {}]
  /\ UNCHANGED <<zones, disk, pc, tx, writes, history>>

CloseFile(w) == \E z \in save.open :
  /\ Saving(w)
  /\ files' = [files EXCEPT ![FileOf(z)] = Text(z)]
  /\ save' = [save EXCEPT !.open = {}]
  /\ UNCHANGED <<zones, conf, pc, tx, writes, history>>

OpenConfFirst(w) ==
  /\ Saving(w) /\ save.open = {} /\ ~save.conf
  /\ conf' = << >>
  /\ save' = [save EXCEPT !.conf = TRUE]
  /\ UNCHANGED <<zones, files, pc, tx, writes, history>>

OpenConf(w) ==
  /\ Saving(w) /\ save.todo = {} /\ save.open = {} /\ ~save.conf
  /\ conf' = << >>
  /\ save' = [save EXCEPT !.conf = TRUE]
  /\ UNCHANGED <<zones, files, pc, tx, writes, history>>

\* The writer of the save goes on: a POST with its records, if it has any, or
\* the reply.
CloseConf(w) ==
  LET z == tx[w].zone
  IN  /\ Saving(w) /\ save.conf
      /\ conf' = [y \in DOMAIN zones |-> FileOf(y)]
      /\ save' = NotSaving
      /\ saved' = zones
      /\ IF pc[w] = "saveNew"
         THEN /\ acked' = acked \ Dropped(w)
              /\ damaged' = damaged \ {z}
              /\ IF tx[w].ops = << >> THEN Reply(w) ELSE Goto(w, "find") /\ UNCHANGED tx
         ELSE /\ acked' = (acked \ (Dropped(w) \cup Overtaken(w))) \cup Added(w)
              /\ Reply(w) /\ UNCHANGED damaged
      /\ UNCHANGED <<zones, files, writes>>

SaveStep(w) == OpenFile(w) \/ CloseFile(w) \/ OpenConf(w) \/ CloseConf(w)

-----------------------------------------------------------------------------
(* Crash and restart.                                                      *)

\* Of the file that was being written a part of the lines is there, or one of
\* them is cut; of named.conf a part of the zones.
Crash ==
  /\ daemon = "up" /\ crashes < MaxCrashes
  /\ daemon' = "down"
  /\ crashes' = crashes + 1
  /\ IF save.open = {}
     THEN UNCHANGED files
     ELSE \E z \in save.open : \E n \in 0 .. Len(Text(z).lines), ok \in BOOLEAN :
            files' = [files EXCEPT ![FileOf(z)] =
                        [ok |-> ok, lines |-> SubSeq(Text(z).lines, 1, n)]]
  /\ IF save.conf
     THEN \E part \in SUBSET DOMAIN zones : conf' = [z \in part |-> FileOf(z)]
     ELSE UNCHANGED conf
  /\ damaged' = damaged \cup save.open
                  \cup (IF save.conf THEN DOMAIN zones \ DOMAIN conf' ELSE {})
  \* What was not confirmed may have been done.
  /\ acked' = acked \ UNION {Dropped(w) \cup Overtaken(w) : w \in {v \in Writers : Saving(v)}}
  /\ UNCHANGED <<memory, writes, saved>>

\* initialize: no zone in named.conf, or one that cannot be read, ends it.
Restart ==
  /\ daemon = "down"
  /\ IF DOMAIN conf # {} /\ \A z \in DOMAIN conf : Readable(z)
     THEN /\ daemon' = "up"
          /\ zones' = [z \in DOMAIN conf |-> [file |-> conf[z], rrs |-> RecordsOnDisk(z)]]
          /\ saved' = zones'
     ELSE daemon' = "refused" /\ UNCHANGED <<zones, saved>>
  /\ save' = NotSaving
  /\ pc' = [w \in Writers |-> "idle"]
  /\ tx' = [w \in Writers |-> NoTx]
  /\ UNCHANGED <<disk, writes, crashes, acked, damaged>>

-----------------------------------------------------------------------------
Serve(w) ==
  /\ daemon = "up"
  /\ \/ Find(w) \/ Begin(w) \/ ReadSoa(w) \/ CommitTx(w) \/ Create(w) \/ Delete(w)
     \/ SaveStep(w)
  /\ UNCHANGED <<daemon, crashes>>

Accept(w) == daemon = "up" /\ Receive(w) /\ UNCHANGED <<daemon, crashes>>

Next == Crash \/ Restart \/ \E w \in Writers : Accept(w) \/ Serve(w)

Spec == Init /\ [][Next]_vars
-----------------------------------------------------------------------------
(* What the records of the requests have to be for the properties to hold of  *)
(* every run; the rest is in ZoneFile.                                         *)

LegibleOps(ops, zone) ==
  \A z \in Apexes : IsSubdomainOf(zone, z) =>
    \A i \in DOMAIN ops : ops[i].op = "add" => LegibleOwner(MakeRelative(ops[i].rr.name, z))

\* The files can be read: no owner is a word of the syntax that ends the reading.
LegibleRequests ==
  /\ \A z \in DOMAIN InitZones : Legible(z, InitZones[z].rrs)
  /\ \A req \in Requests : LegibleOps(req.ops, req.zone)

PlainOps(ops, zone) ==
  \A z \in Apexes : IsSubdomainOf(zone, z) =>
    \A i \in DOMAIN ops : ops[i].op = "add" => Plain(z, ops[i].rr)

\* What is added is read again.
PlainRequests == \A req \in Requests : PlainOps(req.ops, req.zone)

-----------------------------------------------------------------------------
\* At most one writer holds the mutex, a file is being written only then, and
\* named.conf only after the last file.
TypeOK ==
  /\ daemon \in {"up", "down", "refused"}
  /\ \A v, w \in Writers : Saving(v) /\ Saving(w) => v = w
  /\ save.todo \cup save.open \subseteq DOMAIN zones
  /\ Cardinality(save.open) <= 1
  /\ daemon = "up" /\ Unlocked => save = NotSaving
  /\ save.conf => save.todo \cup save.open = {}
  /\ writes \in 0 .. MaxWrites /\ crashes \in 0 .. MaxCrashes

\* While nobody saves, a restart would find the zones that are served: the same
\* ones, in files that read, with the records they have after a reading
\* (persistLocked and initialize are each other's inverse).
DiskIsMemory ==
  daemon = "up" /\ Unlocked =>
    /\ DOMAIN conf = DOMAIN zones
    /\ \A z \in DOMAIN zones :
         /\ Readable(z)
         /\ RecordsOnDisk(z) = Reread(z, zones[z].rrs).rrs

\* Whenever the process dies, named.conf lists no file that was never written:
\* the files come before it (persistLocked 240-251).
ConfNeverDangles == \A z \in DOMAIN conf : conf[z] \in DOMAIN files

\* What a crash leaves of a zone is the zone before the change or after it, and
\* a zone that was there before and after is in named.conf, unless the crash hit
\* the very file: no zone is taken from another's change half done.
CrashLeavesOldOrNew ==
  daemon = "down" =>
    /\ \A z \in DOMAIN conf \ damaged :
         \E db \in {saved, zones} :
           z \in DOMAIN db /\ RecordsOnDisk(z) = Reread(z, db[z].rrs).rrs
    /\ (DOMAIN saved \cap DOMAIN zones) \ damaged \subseteq DOMAIN conf

\* initialize() refuses only what a crash damaged, or an empty list of zones.
StartsAgain == daemon = "refused" => damaged # {} \/ DOMAIN saved = {} \/ DOMAIN zones = {}

\* What an update added and was confirmed stays until a later request drops it,
\* over restarts too, unless a crash hit the file of its zone, or an update that
\* had copied the zone before it was added commits (bindfile.cpp:171-213).  That
\* one takes only what it had not copied.
AcknowledgedStay ==
  daemon = "up" =>
    \A a \in acked :
      \/ a[1] \in damaged
      \/ \E w \in Writers : Saving(w) /\ a \in Dropped(w) \cup Overtaken(w)
      \/ a[1] \in DOMAIN zones /\ a[2] \in ToSet(zones[a[1]].rrs)
=============================================================================
