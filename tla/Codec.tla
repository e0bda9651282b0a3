-------------------------------- MODULE Codec --------------------------------
(***************************************************************************)
(* The wire form of messages (protocol/dns.cpp): name compression, the     *)
(* sections and their counts, truncation, and decoding.                    *)
(*                                                                         *)
(* A message on the wire is a sequence of cells: the header, labels,       *)
(* pointers, the ends of names, and what follows the name of a question or *)
(* of a record.  Every cell counts as one unit of size, and offsets count  *)
(* cells from 1.  Labels have 1 to 63 bytes and neither dots nor           *)
(* backslashes, which DnsName::parse would take for separators.            *)
(***************************************************************************)
EXTENDS DnsName, FiniteSetsExt, SequencesExt

CONSTANTS
  MaxOffset,    \* the last offset a pointer reaches: 0x3FFF in the code
  MaxJumps,     \* pointers decodeName follows: 20 in the code
  UdpMinSize,   \* kDnsUdpMinSize
  EdnsBufsize   \* edns_bufsize

ASSUME CodecAssumption ==
  /\ MaxOffset \in Nat /\ MaxJumps \in Nat
  /\ UdpMinSize \in Nat \ {0} /\ EdnsBufsize \in Nat \ {0}

Label(label) == [kind |-> "label", label |-> label]
Pointer(to)  == [kind |-> "pointer", to |-> to % (MaxOffset + 1)]   \* 14 bits
End          == [kind |-> "end"]
Body(body)  == [kind |-> "body", body |-> body]

Suffix(name, i) == SubSeq(name, i, Len(name))

-----------------------------------------------------------------------------
(* Encoding.  w is what was written and where the suffixes of names are.   *)

\* out.resize(12) and compression.clear(), before the sections are written.
ClearedOutOnly(w) == [out |-> <<Body("header")>>, compression |-> w.compression]
Cleared(w) == [out |-> <<Body("header")>>, compression |-> << >>]

\* Suffixes are remembered from the first label written on.
RememberedEverywhere(w, name, written) == {Suffix(name, i) : i \in 1 .. written}
Remembered(w, name, written) ==
  {Suffix(name, i) : i \in {k \in 1 .. written : Len(w.out) + k <= MaxOffset}}

\* encodeName: labels up to the first suffix that was written before, and a
\* pointer to it.
EncodeName(w, name) ==
  LET known   == {i \in DOMAIN name : Suffix(name, i) \in DOMAIN w.compression}
      written == IF known = {} THEN Len(name) ELSE Min(known) - 1
      last    == IF known = {} THEN End ELSE Pointer(w.compression[Suffix(name, written + 1)])
      fresh   == Remembered(w, name, written)
  IN  [out |-> w.out \o [i \in 1 .. written |-> Label(name[i])] \o <<last>>,
       compression |-> [s \in DOMAIN w.compression \cup fresh |->
                          IF s \in fresh THEN Len(w.out) + Len(name) - Len(s) + 1
                                         ELSE w.compression[s]]]

PutBody(w, body) == [w EXCEPT !.out = Append(@, Body(body))]

PutQuestion(w, q) == PutBody(EncodeName(w, q.qname), q.qtype)

\* encodeRr: the rdata is copied as it is.
EncodeRr(w, rr) == PutBody(EncodeName(w, rr.name), [rr EXCEPT !.name = Root])

\* encodeUncompressed, of the TSIG record: it remembers nothing either.
EncodeUncompressed(name) == [i \in DOMAIN name |-> Label(name[i])] \o <<End>>
EncodeTsig(w, rr) ==
  PutBody([w EXCEPT !.out = @ \o EncodeUncompressed(rr.name)], [rr EXCEPT !.name = Root])

WriteQuestions(w, msg) == FoldLeft(PutQuestion, w, msg.questions)
WriteRecords(w, msg) ==
  LET records == FoldLeft(EncodeRr, w, msg.answers \o msg.authority \o msg.additional)
  IN  IF msg.tsig = << >> THEN records ELSE EncodeTsig(records, msg.tsig[1])

Counts(msg, tc) ==
  [qd |-> Len(msg.questions),
   an |-> IF tc THEN 0 ELSE Len(msg.answers),
   ns |-> IF tc THEN 0 ELSE Len(msg.authority),
   ar |-> IF tc THEN 0 ELSE Len(msg.additional) + Len(msg.tsig)]

\* encodeMessage: over the limit (0 for none) everything is written again
\* without the records.
EncodeMessage(msg, truncateAt) ==
  LET empty == Cleared([out |-> << >>, compression |-> << >>])
      full  == WriteRecords(WriteQuestions(empty, msg), msg)
      over  == truncateAt > 0 /\ Len(full.out) > truncateAt
      tc    == msg.tc \/ over
      sent  == IF over THEN WriteQuestions(Cleared(full), msg) ELSE full
  IN  [sent.out EXCEPT ![1] =
         Body([tc |-> tc, rcode |-> msg.rcode, aa |-> msg.aa, count |-> Counts(msg, tc)])]

\* The limit handleUdpQuery gives it.
UdpLimit(edns, udpSize) ==
  IF ~edns THEN UdpMinSize ELSE IF udpSize < EdnsBufsize THEN udpSize ELSE EdnsBufsize

-----------------------------------------------------------------------------
(* Decoding.                                                               *)

Failed == [ok |-> FALSE]

\* decodeName at an offset: the name and the offset behind it, which is behind
\* the first pointer.
DecodeName(in, offset) ==
  LET read[at \in (0 .. MaxJumps + 1) \X Nat] ==
        LET jumps == at[1]
            pos   == at[2]
        IN  IF jumps > MaxJumps \/ pos \notin DOMAIN in THEN Failed
            ELSE LET cell == in[pos]
                     rest == IF cell.kind = "pointer" THEN read[<<jumps + 1, cell.to>>]
                                                      ELSE read[<<jumps, pos + 1>>]
                 IN  CASE cell.kind = "end" -> [ok |-> TRUE, name |-> Root, next |-> pos + 1]
                       [] cell.kind = "label" /\ rest.ok ->
                            [rest EXCEPT !.name = <<cell.label>> \o @]
                       [] cell.kind = "pointer" /\ rest.ok -> [rest EXCEPT !.next = pos + 1]
                       [] OTHER -> Failed
  IN  read[<<0, offset>>]

\* A name and what follows it; s is [ok, next, items], an item a pair.
DecodeItem(in, s) ==
  LET d == DecodeName(in, s.next)
  IN  IF ~s.ok \/ ~d.ok THEN [s EXCEPT !.ok = FALSE]
      ELSE IF d.next > Len(in) THEN [s EXCEPT !.ok = FALSE]
      ELSE [ok |-> TRUE, next |-> d.next + 1,
            items |-> Append(s.items, <<d.name, in[d.next].body>>)]

\* The loops over a count.
ReadN(in, s, count) ==
  FoldLeft(LAMBDA acc, n : DecodeItem(in, acc), [s EXCEPT !.items = << >>],
           [n \in 1 .. count |-> n])

Question(item) == [qname |-> item[1], qtype |-> item[2]]
Record(item)   == [item[2] EXCEPT !.name = item[1]]
Each(f(_), s)  == [i \in DOMAIN s |-> f(s[i])]

\* Additional records go to their section, but a TSIG record is kept apart.
IsTsig(rr) == rr.type = "TSIG"
PutAdditional(msg, rr) ==
  IF IsTsig(rr) THEN [msg EXCEPT !.tsig = <<rr>>]
                ELSE [msg EXCEPT !.additional = Append(@, rr)]

DecodeMessage(in) ==
  LET h  == in[1].body
      qd == ReadN(in, [ok |-> TRUE, next |-> 2, items |-> << >>], h.count.qd)
      an == ReadN(in, qd, h.count.an)
      ns == ReadN(in, an, h.count.ns)
      ar == ReadN(in, ns, h.count.ar)
  IN  IF ~ar.ok THEN Failed
      ELSE [ok  |-> TRUE,
            msg |-> FoldLeft(PutAdditional,
                             [tc |-> h.tc, rcode |-> h.rcode, aa |-> h.aa,
                              questions  |-> Each(Question, qd.items),
                              answers    |-> Each(Record, an.items),
                              authority  |-> Each(Record, ns.items),
                              additional |-> << >>, tsig |-> << >>],
                             Each(Record, ar.items))]

=============================================================================
