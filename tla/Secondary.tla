------------------------------ MODULE Secondary -------------------------------
(***************************************************************************)
(* Zone transfer between two daemons: refreshSecondaries of one            *)
(* (core/server.cpp), the thread that pulls every slave zone from its      *)
(* master each ten seconds, and handleAxfr of the other (core/engine.cpp). *)
(* The primary's zones change meanwhile, and so may the secondary's: an    *)
(* update is not refused because a zone is a slave.  Both keep their zones *)
(* in memory.  A master may also be some other server, which splits its    *)
(* answer over several messages; a connection may break between any two.   *)
(*                                                                         *)
(* A zone deleted on the secondary while it is refreshed is in Engine (a   *)
(* transaction on a deleted zone), as is a query that reads the zone more  *)
(* than once; here it reads the zone in one step and is cached in another. *)
(***************************************************************************)
EXTENDS MemoryBackend, FiniteSets

CONSTANTS
  InitPrimary,    \* the primary's database at start
  InitSecondary,  \* the secondary's: its slave zones
  Updates,        \* what is written at the primary: [zone, ops, serial]
  LocalRecords,   \* the records updates add at the secondary
  Clients,        \* the threads of the secondary that answer queries
  Split,          \* messages of how many records a master sends; 0: one message
  MaxAnswers,     \* the records a message of max_packet_size holds
  MaxChanges,     \* bound: updates in one run
  MaxFaults       \* bound: connections that fail or break

Records == RRs(Seq(STRING))
Operations == [op : {"add", "rrset", "name"}, rr : Records]
Zone == [inc : Nat, rrs : Seq(Records)]

ASSUME SecondaryAssumption ==
  /\ \A d \in {InitPrimary, InitSecondary} : \A z \in DOMAIN d : d[z] \in Zone
  /\ \A u \in Updates : u.ops \in Seq(Operations) /\ u.serial \subseteq Nat
  /\ LocalRecords \subseteq Records
  /\ Split \subseteq Nat /\ MaxAnswers \in Nat /\ MaxChanges \in Nat /\ MaxFaults \in Nat

VARIABLES
  primary,   \* the primary's database
  zones,     \* the secondary's
  cached,    \* the secondary's cache: the answers in it
  asking,    \* per query thread: the answer it is about to cache, if any
  owed,      \* the updates at the secondary that have yet to invalidate the cache
  pc,        \* the refresh thread: its next step
  todo, zone, \* the zones it has yet to refresh, the one it refreshes
  wire,      \* the messages of the master under way; << >> if it sends no more
  rrs,       \* the records received
  existing,  \* the records the zone had when the transaction began
  changes, faults,
  sent,      \* history: per zone, the answers its master gave to a transfer
  cut        \* history: the zones a transfer of which broke off

refresh == <<pc, todo, zone, wire, rrs, existing>>
cache == <<cached, asking, owed>>
vars == <<primary, zones, cache, refresh, changes, faults, sent, cut>>

Slaves == DOMAIN InitSecondary

Init ==
  /\ primary = InitPrimary
  /\ zones = InitSecondary
  /\ cached = {} /\ asking = [c \in Clients |-> {}] /\ owed = 0
  /\ pc = "sleep" /\ todo = {} /\ zone = Root
  /\ wire = << >> /\ rrs = << >> /\ existing = << >>
  /\ changes = 0 /\ faults = 0
  /\ sent = [z \in Slaves |-> {}] /\ cut = {}

-----------------------------------------------------------------------------
(* The primary.                                                            *)

\* The primary commits an update.
Write == \E u \in Updates :
  /\ changes < MaxChanges /\ changes' = changes + 1
  /\ u.zone \in DOMAIN primary
  /\ primary' = [primary EXCEPT ![u.zone].rrs = Commit(@, u.zone, u.ops, u.serial)]
  /\ UNCHANGED <<zones, cache, refresh, faults, sent, cut>>

OfType(records, soa) ==
  ElementsAt(records, {i \in DOMAIN records : (records[i].type = "SOA") = soa})

\* handleAxfr: the SOA (the last one, if there are several), every other record,
\* the SOA again.  It answers without records if it has not the zone (REFUSED)
\* or the zone has no SOA (SERVFAIL).  The secondary sends no TSIG: that it is
\* allowed to transfer is taken for granted.
Axfr(db, z) ==
  LET records == ListZone(db, z)
      soas    == OfType(records, TRUE)
  IN  IF soas = << >> THEN << >> ELSE <<Last(soas)>> \o OfType(records, FALSE) \o <<Last(soas)>>

\* The answer in messages of n records each.
Messages(answers, n) ==
  IF n = 0 \/ answers = << >> THEN <<answers>>
  ELSE [i \in 1 .. (Len(answers) + n - 1) \div n |->
          SubSeq(answers, (i - 1) * n + 1, IF i * n > Len(answers) THEN Len(answers) ELSE i * n)]

\* The master gets the query and answers it, as its zone is at that moment.
Answer ==
  /\ pc = "asked"
  /\ \E n \in Split : wire' = Messages(Axfr(primary, zone), n)
  /\ sent' = [sent EXCEPT ![zone] = @ \cup {Axfr(primary, zone)}]
  /\ pc' = "receive"
  /\ UNCHANGED <<primary, zones, cache, todo, zone, rrs, existing, changes, faults, cut>>

-----------------------------------------------------------------------------
(* The secondary.                                                          *)

\* An update of the secondary's own zone is committed; it has yet to invalidate.
WriteLocally == \E z \in Slaves, rr \in LocalRecords :
  /\ changes < MaxChanges /\ changes' = changes + 1
  /\ zones' = [zones EXCEPT ![z].rrs = Commit(@, z, <<AddRecord(rr)>>, {})]
  /\ owed' = owed + 1
  /\ UNCHANGED <<primary, cached, asking, refresh, faults, sent, cut>>

\* A query for zone z is answered from the zone.  An answer is what the zone held
\* when it was read; late is a history, see Invalidated.
Ask(c, z) ==
  /\ asking[c] = {}
  /\ asking' = [asking EXCEPT ![c] = {[zone |-> z, rrs |-> zones[z].rrs, late |-> FALSE]}]
  /\ UNCHANGED <<primary, zones, cached, owed, refresh, changes, faults, sent, cut>>

\* The answer is cached, whatever the cache was told in between.
Put(c) ==
  /\ asking[c] # {}
  /\ cached' = cached \cup asking[c]
  /\ asking' = [asking EXCEPT ![c] = {}]
  /\ UNCHANGED <<primary, zones, owed, refresh, changes, faults, sent, cut>>

\* invalidateCache, for all zones.  It does not reach the answers that are about
\* to be cached: one that is outdated by now comes late.
Outdated(answer) == answer.rrs # zones[answer.zone].rrs
Invalidated ==
  /\ cached' = {}
  /\ asking' = [c \in Clients |->
                 {[answer EXCEPT !.late = @ \/ Outdated(answer)] : answer \in asking[c]}]

InvalidateLocally ==
  /\ owed > 0 /\ owed' = owed - 1
  /\ Invalidated
  /\ UNCHANGED <<primary, zones, refresh, changes, faults, sent, cut>>

\* secondaryLoop: ten seconds have passed; the slave zones are listed.
WakeUp ==
  /\ pc = "sleep"
  /\ todo' = Slaves /\ pc' = "next"
  /\ UNCHANGED <<primary, zones, cache, zone, wire, rrs, existing, changes, faults, sent, cut>>

ConnectRecordsKept ==
  /\ pc = "next"
  /\ IF todo = {}
     THEN pc' = "sleep" /\ UNCHANGED <<todo, zone, faults>>
     ELSE \E z \in todo : todo' = todo \ {z} /\ zone' = z /\ pc' = "asked" /\ UNCHANGED faults
  /\ UNCHANGED <<primary, zones, cache, wire, rrs, existing, changes, sent, cut>>

\* The next zone: connect and send the query, or go on with another zone.
Connect ==
  /\ pc = "next"
  /\ rrs' = << >>
  /\ IF todo = {}
     THEN pc' = "sleep" /\ UNCHANGED <<todo, zone, faults>>
     ELSE \E z \in todo :
            /\ todo' = todo \ {z} /\ zone' = z
            /\ \/ pc' = "asked" /\ UNCHANGED faults
               \/ faults < MaxFaults /\ faults' = faults + 1 /\ UNCHANGED pc
  /\ UNCHANGED <<primary, zones, cache, wire, existing, changes, sent, cut>>

\* A transfer is used if it has two records, whether it came to its end or not.
Enough(records) == Len(records) >= 2

\* The loop over the messages ends: the answer is complete.
Complete(records) == Len(records) >= 2 /\ records[1].type = "SOA" /\ Last(records).type = "SOA"

StopReceiving(records) ==
  /\ rrs' = records /\ wire' = << >>
  /\ pc' = IF Enough(records) THEN "begin" ELSE "next"

\* The next message: the loop ends with it if the answer is complete, without
\* it if it does not fit.
Receive ==
  /\ pc = "receive" /\ wire # << >>
  /\ LET all == rrs \o Head(wire)
     IN  IF Len(Head(wire)) > MaxAnswers
         THEN StopReceiving(rrs) /\ cut' = cut \cup {zone}
         ELSE /\ UNCHANGED cut
              /\ IF Complete(all) THEN StopReceiving(all)
                 ELSE rrs' = all /\ wire' = Tail(wire) /\ UNCHANGED pc
  /\ UNCHANGED <<primary, zones, cache, todo, zone, existing, changes, faults, sent>>

\* The master has sent all of its answer and closes the idle connection.
Closed ==
  /\ pc = "receive" /\ wire = << >>
  /\ StopReceiving(rrs)
  /\ UNCHANGED <<primary, zones, cache, todo, zone, existing, changes, faults, sent, cut>>

\* The connection breaks, or a message does not decode.
Broken ==
  /\ pc \in {"asked", "receive"}
  /\ faults < MaxFaults /\ faults' = faults + 1
  /\ StopReceiving(rrs)
  /\ cut' = cut \cup {zone}
  /\ UNCHANGED <<primary, zones, cache, todo, zone, existing, changes, sent>>

\* begin and listZone.
Begin ==
  /\ pc = "begin"
  /\ existing' = ListZone(zones, zone)
  /\ pc' = "commit"
  /\ UNCHANGED <<primary, zones, cache, todo, zone, wire, rrs, changes, faults, sent, cut>>

\* deleteName of each record the zone had.
Deletions(records) == [i \in DOMAIN records |-> DeleteName(records[i])]

AdditionsFromSecond(records) == [i \in 1 .. Len(records) - 2 |-> AddRecord(records[i + 1])]

\* addRecord of all that was received but the last, which is the SOA again.
Additions(records) == [i \in 1 .. Len(records) - 1 |-> AddRecord(records[i])]

\* commit, whose result is ignored.
CommitTransfer ==
  /\ pc = "commit"
  /\ zones' = [zones EXCEPT ![zone].rrs =
                Commit(@, zone, Deletions(existing) \o Additions(rrs), {})]
  /\ existing' = << >>
  /\ pc' = "invalidate"
  /\ UNCHANGED <<primary, cache, todo, zone, wire, rrs, changes, faults, sent, cut>>

InvalidateNothing ==
  /\ pc = "invalidate"
  /\ pc' = "next"
  /\ UNCHANGED <<primary, zones, cache, todo, zone, wire, rrs, existing, changes, faults, sent, cut>>

Invalidate ==
  /\ pc = "invalidate"
  /\ Invalidated
  /\ pc' = "next"
  /\ UNCHANGED <<primary, zones, owed, todo, zone, wire, rrs, existing, changes, faults, sent, cut>>

\* The refresh thread and the master it talks to.
Refresh ==
  \/ WakeUp \/ Connect \/ Answer \/ Receive \/ Closed \/ Begin \/ CommitTransfer \/ Invalidate

Next ==
  \/ Refresh \/ Broken \/ Write \/ WriteLocally \/ InvalidateLocally
  \/ \E c \in Clients : Put(c) \/ \E z \in Slaves : Ask(c, z)

\* The thread runs, and a master answers and closes: one that does neither holds
\* the thread for ever, as no read of a connection has a time limit.  Writers
\* and clients owe nothing.
Spec == Init /\ [][Next]_vars /\ WF_vars(Refresh)

-----------------------------------------------------------------------------
Contents(db, z) == ToSet(ListZone(db, z))

\* The zones that refresh pulls are among the slaves, and what it writes are the
\* records of one transfer, the SOA first (server.cpp:242-255).
TypeOK ==
  /\ pc \in {"sleep", "next", "asked", "receive", "begin", "commit", "invalidate"}
  /\ todo \subseteq Slaves /\ DOMAIN zones = Slaves
  /\ pc \in {"begin", "commit"} => Len(rrs) >= 2 /\ rrs[1].type = "SOA" /\ rrs[1].name = zone
  /\ changes \in 0 .. MaxChanges /\ faults \in 0 .. MaxFaults

\* What the zone holds, but for what updates add locally, is one version of the
\* master: the whole of it, or a beginning of it if a transfer of the zone broke
\* off; never records of two versions (server.cpp:227-255).
Pulled(records) == records \ LocalRecords
OneVersion ==
  \A z \in Slaves :
    LET own == Pulled(Contents(zones, z))
    IN  \/ own = Pulled(Contents(InitSecondary, z))
        \/ \E answer \in sent[z] :
             \E n \in (IF z \in cut THEN 1 .. Len(answer) - 1 ELSE {Len(answer) - 1}) :
               own = Pulled({answer[i] : i \in 1 .. n})

\* When no commit waits for its invalidation, cached answers show their zone as it
\* is, whether transfers or updates wrote it; but for the answers of queries that
\* read the zone before a commit and were cached after its invalidation
\* (engine.cpp:258-273, 492-496; server.cpp:256-257).
Quiet == pc # "invalidate" /\ owed = 0
CachedIsCurrent ==
  Quiet => \A answer \in cached : answer.late \/ ~Outdated(answer)

\* A master's zone that a transfer can carry: it has a SOA, and fits into one
\* message however the master splits it.
Transferable(z) ==
  /\ Axfr(primary, z) # << >>
  /\ \A n \in Split : \A m \in ToSet(Messages(Axfr(primary, z), n)) : Len(m) <= MaxAnswers

\* Once writes and faults have ceased, as the bounds make them, the secondary comes
\* to hold what its master has and its cache to show it, and that stays: whatever
\* was cut off, added locally or cached late (server.cpp:206-257).
Converges ==
  <>[](\A z \in Slaves : Transferable(z) =>
         /\ Contents(zones, z) = Contents(primary, z)
         /\ \A answer \in cached : answer.zone = z => ~Outdated(answer))

=============================================================================
