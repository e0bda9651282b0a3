----------------------------- MODULE ZoneReload ------------------------------
(***************************************************************************)
(* A zone and its entry in named.conf, written and read again, and again:  *)
(* what an export and an import, or a restart over the file backend, make  *)
(* of them.  The names of the specification are its own, so that a module  *)
(* can extend it together with BindFileBackend.                            *)
(***************************************************************************)
EXTENDS ZoneFile

CONSTANTS Origin,    \* the zone
          Contents,  \* the record sequences it may have
          Entries    \* the entries it may have in named.conf

ASSUME ReloadAssumption ==
  /\ Origin \in Names /\ Contents \subseteq Seq(FileRRs(Names))
  /\ Entries \subseteq [zone : Names, file : Names, kind : {"native", "master", "slave"},
                        masters : SUBSET STRING]

VARIABLES given,    \* what was written first
          reading,  \* the last reading
          entry, givenEntry,
          rereads

reloadVars == <<given, reading, entry, givenEntry, rereads>>

ReloadInit ==
  /\ given \in Contents
  /\ reading = [ok |-> TRUE, last |-> Origin, rrs |-> given]
  /\ givenEntry \in Entries /\ entry = givenEntry
  /\ rereads = 0

Reload ==
  /\ rereads < 2 /\ reading.ok
  /\ reading' = Reread(Origin, reading.rrs)
  /\ entry' = ParseNamedZone(entry)
  /\ rereads' = rereads + 1
  /\ UNCHANGED <<given, givenEntry>>

ReloadNext == Reload

ReloadSpec == ReloadInit /\ [][ReloadNext]_reloadVars

-----------------------------------------------------------------------------
InZoneOnly(rrs) == \A i \in DOMAIN rrs : IsSubdomainOf(rrs[i].name, Origin)
DottedOnly(rrs) == \A i \in DOMAIN rrs : rrs[i].type \in HostTypes => rrs[i].dot

\* An owner directly below the origin that reads as a number, a class or a type:
\* the writer puts it first on its line, where the parser takes it for that.
HasWordOwner(rrs) ==
  \E i \in DOMAIN rrs :
    LET owner == MakeRelative(rrs[i].name, Origin)
    IN  LooksLikeTtl(owner) \/ LooksLikeClass(owner) \/ LooksLikeType(owner)

\* A zone whose owners are its own and no words of the syntax, and whose hosts
\* are absolute, is read exactly as it was written, in the same order
\* (writeZoneText 273-287, parseZoneText 186-247).
PlainZonesSurvive ==
  InZoneOnly(given) /\ DottedOnly(given) /\ ~HasWordOwner(given) =>
    reading.ok /\ reading.rrs = given

\* Whatever was lost or changed by the first reading, the second changes
\* nothing: what is read, is written in a form that reads the same, so that
\* names do not grow with every restart.
ReadingIsStable ==
  [][rereads = 1 => reading'.ok /\ reading'.rrs = reading.rrs]_reloadVars

\* An entry of named.conf comes back as it was written, however often: a slave
\* stays a slave of its file, though the master of it is lost, as the body that
\* is parsed ends at the brace of the masters; a native zone is a master from
\* then on, and one without a file has the default one (parseNamedConf 325-364,
\* writeNamedConf 370-381).
EntriesComeBack ==
  entry \in {givenEntry,
             [zone |-> givenEntry.zone, file |-> WrittenFile(givenEntry),
              kind |-> WrittenKind(givenEntry), masters |-> {}]}
=============================================================================
