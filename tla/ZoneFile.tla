------------------------------ MODULE ZoneFile ------------------------------
(***************************************************************************)
(* Zone files and named.conf (zone/zone.cpp): the text written of a zone   *)
(* and the zone read from a text.  A text is the sequence of its lines, a  *)
(* line [owner, rr]: the labels of the owner, which are never followed by  *)
(* a dot, and the rest of the record as it is.                             *)
(*                                                                         *)
(* Records have a field more than in MemoryBackend: dot says whether the   *)
(* content spells the name in it (target) with the dot at its end.  What   *)
(* the server answers does not depend on it, since DnsName::parse ignores  *)
(* that dot; what a reader of the text makes of the name does.             *)
(***************************************************************************)
EXTENDS MemoryBackend

CONSTANTS
  Labels,   \* the labels of names
  Numerals  \* those that consist of digits

Names == Seq(Labels)

FileRRs(names) ==
  [name : names, type : Types, ttl : Nat, target : names, dot : BOOLEAN, num : Nat]
Lines == [owner : Names, rr : FileRRs(Names)]

\* Records whose content has the name of a host in it.
HostTypes == {"NS", "CNAME", "MX", "SOA"}

WriteZoneTextInFull(origin, rrs) ==
  [i \in DOMAIN rrs |-> [owner |-> rrs[i].name, rr |-> rrs[i]]]

\* writeZoneText: owners relative to the origin, nothing for the origin (@).
\* An owner outside the origin is written in full, but without a dot.
WriteZoneText(origin, rrs) ==
  [i \in DOMAIN rrs |-> [owner |-> MakeRelative(rrs[i].name, origin), rr |-> rrs[i]]]

-----------------------------------------------------------------------------
(* parseZoneText of what writeZoneText writes.                             *)

\* rrTypeFromString, for the types of this model.
TypeOfWord == [a |-> "A", aaaa |-> "AAAA", ns |-> "NS", cname |-> "CNAME", mx |-> "MX",
               soa |-> "SOA", ds |-> "DS"]

\* A number is no word.
ASSUME LabelsAssumption ==
  {"garbled"} \cup Numerals \subseteq Labels /\ Numerals \cap DOMAIN TypeOfWord = {}

OneWord(owner) == Len(owner) = 1

\* looksLikeTtl and looksLikeClass of the first token of a line.
LooksLikeTtl(owner) == OneWord(owner) /\ owner[1] \in Numerals
LooksLikeClass(owner) == OneWord(owner) /\ owner[1] \in {"in", "ch", "hs", "any"}
LooksLikeType(owner) == OneWord(owner) /\ owner[1] \in DOMAIN TypeOfWord

ReadHostUndotted(origin, rr) ==
  IF rr.type \in HostTypes /\ ~rr.dot
  THEN [rr EXCEPT !.target = Qualify(@, origin)]
  ELSE rr

\* A host that is not absolute is taken relative to the origin, and is written
\* back with its dot.
ReadHost(origin, rr) ==
  IF rr.type \in HostTypes /\ ~rr.dot
  THEN [rr EXCEPT !.target = Qualify(@, origin), !.dot = TRUE]
  ELSE rr

\* What comes of the words "<ttl> IN <type> ..." read as the name of a host: a
\* name below the origin nobody wrote.
Garbled(origin) == Qualify(<<"garbled">>, origin)

\* A reading so far: whether all is well, the last owner, the records.
Fail(read) == [read EXCEPT !.ok = FALSE]
AddRead(read, rr) == [read EXCEPT !.last = rr.name, !.rrs = Append(@, rr)]

\* One line.  An owner that looks like a type is taken for the type of a record
\* of the owner before: an address or a SOA then has bad rdata, a name is
\* garbled.  One that looks like a TTL or a class leaves "IN" to be the type.
ReadLine(origin, read, line) ==
  IF ~read.ok THEN read
  ELSE CASE LooksLikeTtl(line.owner) \/ LooksLikeClass(line.owner) -> Fail(read)
         [] LooksLikeType(line.owner) ->
              LET type == TypeOfWord[line.owner[1]]
              IN  IF type \in {"NS", "CNAME", "MX"}
                  THEN AddRead(read, [line.rr EXCEPT !.name = read.last, !.type = type,
                                                     !.target = Garbled(origin), !.dot = TRUE])
                  ELSE Fail(read)
         [] OTHER ->
              AddRead(read, [ReadHost(origin, line.rr) EXCEPT
                               !.name = Qualify(line.owner, origin)])

ParseZoneText(origin, lines) ==
  FoldLeft(LAMBDA read, line : ReadLine(origin, read, line),
           [ok |-> TRUE, last |-> origin, rrs |-> << >>], lines)

PlainOwner(origin, name) ==
  LET owner == MakeRelative(name, origin)
  IN  /\ IsSubdomainOf(name, origin)
      /\ ~LooksLikeTtl(owner) /\ ~LooksLikeClass(owner) /\ ~LooksLikeType(owner)

\* A record that a zone file keeps: its owner is in the zone and is no word of
\* the syntax, and the host in it is absolute.
Plain(origin, rr) == PlainOwner(origin, rr.name) /\ (rr.type \in HostTypes => rr.dot)

LegibleOwner(owner) ==
  /\ ~LooksLikeTtl(owner) /\ ~LooksLikeClass(owner)
  /\ LooksLikeType(owner) => TypeOfWord[owner[1]] \in {"NS", "CNAME", "MX"}

\* Zones whose file can be read, whatever is read.
Legible(origin, rrs) ==
  \A i \in DOMAIN rrs : LegibleOwner(MakeRelative(rrs[i].name, origin))

\* What a zone is after it was written and read.
Reread(origin, rrs) == ParseZoneText(origin, WriteZoneText(origin, rrs))

-----------------------------------------------------------------------------
(* named.conf: for each zone [zone, file, kind, masters] the words of its   *)
(* braces, whose values are those of the zone.                             *)

\* The file of a zone that has no file: named after the zone.
DefaultFile(zone) == Append(zone, "zone")

WrittenFile(z) == IF z.file = Root THEN DefaultFile(z.zone) ELSE z.file

\* The type of a zone that is no slave is master.
WrittenKind(z) == IF z.kind = "slave" THEN "slave" ELSE "master"

\* writeNamedConf.
WriteNamedZone(z) ==
  <<"type", "file">> \o (IF z.masters = {} THEN << >> ELSE <<"masters", "}">>) \o <<"}">>

\* As if the body began at the file.
BodyFromFile(words) ==
  ToSet(SubSeq(words, SelectInSeq(words, LAMBDA w : w = "file"),
               SelectInSeq(words, LAMBDA w : w = "}") - 1))

\* The words parseNamedConf looks at: up to the first closing brace.
Body(words) == ToSet(SubSeq(words, 1, SelectInSeq(words, LAMBDA w : w = "}") - 1))

\* parseNamedConf of the words written: a value is set if its key is found, and
\* the masters only if the brace that ends them is found too.
ParseNamedZone(z) ==
  LET body == Body(WriteNamedZone(z))
  IN  [zone    |-> z.zone,
       file    |-> IF "file" \in body THEN WrittenFile(z) ELSE Root,
       kind    |-> IF "type" \in body THEN WrittenKind(z) ELSE "native",
       masters |-> IF {"masters", "}"} \subseteq body THEN z.masters ELSE {}]
=============================================================================
