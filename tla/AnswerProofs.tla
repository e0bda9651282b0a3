---------------------------- MODULE AnswerProofs -----------------------------
(***************************************************************************)
(* Proofs about AnswerOnce: what an answer says of the zone is true, and   *)
(* what is sent of it is read as it was meant, for any zones with any      *)
(* records, any question and any keys.                                     *)
(*                                                                         *)
(* The order: lookups; the steps of a call and what it has found; the      *)
(* theorems about answers; how decodeName reads; the names that pointers   *)
(* lead to; how names and messages are laid out; how they are read back;   *)
(* the theorems about messages.                                            *)
(***************************************************************************)
EXTENDS AnswerOnce, TLAPS, FiniteSetTheorems, SequenceTheorems, WellFoundedInduction

Name == Seq(STRING)
Rec == RRs(Name)

Calls == {"zone", "cut", "referral", "glue", "cname", "match", "wild", "wildcname",
          "exists", "soa", "done"}

\* The calls an authoritative answer still makes, but for glue.
Chasing == {"cname", "match", "wild", "wildcname", "exists", "soa"}

Responses ==
  [rcode : {"NOERROR", "NXDOMAIN", "REFUSED"}, aa : BOOLEAN,
   answers : Seq(Rec), authority : Seq(Rec), additional : Seq(Rec)]

\* The names that addGlue may find in a record.
Targets == {GlueTarget(rr) : rr \in Rec}

Frames ==
  [at : Calls, q : Questions, zone : Name, name : Name, found : Seq(Rec),
   hop : Nat, todo : Seq(Targets \X {"A", "AAAA"}), resp : Responses]

\* The records of a type at a name of a zone.
At(d, zone, n, t) == {rr \in ToSet(ListZone(d, zone)) : rr.name = n /\ rr.type = t}

\* s lists the members of S, and nothing else.
Lists(s, S) == s \in Seq(S) /\ \A x \in S : \E k \in DOMAIN s : s[k] = x

\* Where a call is, and what it has not done yet.
ControlInv(f) ==
  /\ f \in Frames
  /\ f.at \in {"zone", "cut", "referral"} => f.resp = EmptyResponse
  /\ f.at \in {"zone", "cut"} => f.name = f.q.qname
  /\ f.todo # << >> <=> f.at = "glue"
  /\ f.resp.rcode = "REFUSED" => f.at = "done" /\ f.resp.answers = << >>
  /\ f.at # "zone" /\ f.resp.rcode # "REFUSED" => IsSubdomainOf(f.q.qname, f.zone)
  /\ f.at \in Chasing => f.resp.aa /\ f.q.qtype # "ANY"
  /\ f.at \in Chasing \ {"soa"} => f.resp.rcode = "NOERROR"

\* The zone gives the question away.
GivenAway(d, f) ==
  LET cuts == Cuts(d, f.zone, f.q.qname)
  IN  cuts # {} /\ (f.q.qname \in cuts => f.q.qtype \notin {"NS", "DS"})

\* A referral, of which some glue may still have to be looked up.
Referral(d, f) ==
  /\ f.resp.answers = << >>
  /\ f.resp.authority # << >>
  /\ \A i \in DOMAIN f.resp.authority :
       LET target == f.resp.authority[i].target
       IN  /\ f.resp.authority[i].type = "NS"
           /\ IsSubdomainOf(f.q.qname, f.resp.authority[i].name)
           /\ InZone(target, f.zone) =>
                \/ At(d, f.zone, target, "A") \subseteq ToSet(f.resp.additional)
                \/ \E k \in DOMAIN f.todo : f.todo[k] = <<target, "A">>
  /\ \A i \in DOMAIN f.resp.additional :
       \E j \in DOMAIN f.resp.authority :
         f.resp.additional[i].name = f.resp.authority[j].target
  /\ \A k \in DOMAIN f.todo :
       \E j \in DOMAIN f.resp.authority : f.todo[k][1] = f.resp.authority[j].target

ReferralInv(d, f) ==
  /\ f.at \notin {"zone", "cut"} /\ f.resp.rcode # "REFUSED" => (f.resp.aa <=> ~GivenAway(d, f))
  /\ f.at = "referral" => f.name \in Cuts(d, f.zone, f.q.qname)
  /\ f.at \in {"glue", "done"} /\ f.resp.rcode # "REFUSED" /\ ~f.resp.aa => Referral(d, f)

\* Nothing at a name answers the question.
NothingAt(d, f, n) == At(d, f.zone, n, f.q.qtype) = {} /\ At(d, f.zone, n, "CNAME") = {}

\* The names above qname in its zone.
Above(f) ==
  {p \in Name : p # f.q.qname /\ IsSubdomainOf(f.q.qname, p) /\ IsSubdomainOf(p, f.zone)}

\* What a negative answer has found so far: the wildcards of more than n labels
\* do not answer.
NoWildBelow(d, f, n) == \A p \in Above(f) : Len(p) > n => NothingAt(d, f, Wildcard(p))

Denied(d, f) ==
  /\ NothingAt(d, f, f.q.qname)
  /\ \A p \in Above(f) : NothingAt(d, f, Wildcard(p))

DenialInv(d, f) ==
  /\ f.at = "match" => Lists(f.found, At(d, f.zone, f.name, "CNAME"))
  /\ f.at = "wildcname" => Lists(f.found, At(d, f.zone, Wildcard(f.name), f.q.qtype))
  /\ f.at = "glue" /\ f.resp.aa => f.resp.answers # << >>
  /\ f.resp.answers = << >> =>
       /\ f.at \in {"cname", "match"} => f.name = f.q.qname
       /\ f.at \in {"wild", "wildcname"} =>
            /\ NothingAt(d, f, f.q.qname)
            /\ IsSubdomainOf(f.q.qname, f.name)
            /\ NoWildBelow(d, f, Len(f.name))
       /\ f.at \in {"exists", "soa"} => Denied(d, f)
       /\ f.at = "done" /\ f.resp.rcode # "REFUSED" /\ f.resp.aa => Denied(d, f)
       /\ f.at = "soa" \/ (f.at = "done" /\ f.resp.rcode # "REFUSED" /\ f.resp.aa) =>
            ((f.resp.rcode = "NXDOMAIN") <=> ~NameExists(d, f.zone, f.q.qname))

\* A name that the chain of answers leads to.
Reached(answers, qname, n) ==
  \/ n = qname
  \/ \E j \in DOMAIN answers : answers[j].type = "CNAME" /\ answers[j].target = n

Chained(answers, question) ==
  \A i \in DOMAIN answers :
    LET rr == answers[i]
    IN  /\ rr.type \in {question.qtype, "CNAME"} \/ question.qtype = "ANY"
        /\ \/ rr.name = question.qname
           \/ \E j \in 1 .. i - 1 : answers[j].type = "CNAME" /\ answers[j].target = rr.name

ChainInv(d, f) ==
  /\ Chained(f.resp.answers, f.q)
  /\ f.at \in {"cname", "match"} => Reached(f.resp.answers, f.q.qname, f.name)
  /\ f.resp.answers # << >> =>
       /\ f.resp.rcode = "NOERROR"
       /\ f.at \in Chasing => NameExists(d, f.zone, f.q.qname)

CallInv(d, f) ==
  /\ ControlInv(f)
  /\ ReferralInv(d, f)
  /\ DenialInv(d, f)
  /\ ChainInv(d, f)

\* A record of a whole set of records: AnswersForItsSet, of the answers s.
Synth(rr, n) == [rr EXCEPT !.name = n]
OfWholeSet(d, zone, question, s, rr) ==
  \/ rr \in At(d, zone, rr.name, rr.type) /\ At(d, zone, rr.name, rr.type) \subseteq ToSet(s)
  \/ \E p \in Name : \E t : \E w \in At(d, zone, Wildcard(p), t) :
       /\ IsSubdomainOf(question.qname, p) /\ rr = Synth(w, question.qname)
       /\ \A v \in At(d, zone, Wildcard(p), t) : Synth(v, question.qname) \in ToSet(s)
  \/ question.qtype = "ANY" /\ rr = Hinfo(question.qname)

WholeSets(d, zone, question, s) == \A i \in DOMAIN s : OfWholeSet(d, zone, question, s, s[i])

SetsInv(d, f) ==
  /\ WholeSets(d, f.zone, f.q, f.resp.answers)
  /\ f.at \in {"wild", "wildcname"} => IsSubdomainOf(f.q.qname, f.name)

AnswerInv == db \in Databases /\ CallInv(db, frame) /\ SetsInv(db, frame)

-----------------------------------------------------------------------------
(* Recursion along a sequence, which FlattenSeq is.                        *)

\* Induction over the numbers, for a set that holds 0 and with each number the next.
LEMMA NatsBySteps ==
  ASSUME NEW S, 0 \in S, \A n \in Nat : n \in S => n + 1 \in S
  PROVE  Nat \subseteq S
<1> DEFINE Out == Nat \ S
<1>1. SUFFICES ASSUME Out # {} PROVE FALSE
  OBVIOUS
<1>2. PICK m \in Out : \A k \in Out : ~(<<k, m>> \in OpToRel(<, Nat))
  <2>1. IsWellFoundedOn(OpToRel(<, Nat), Nat)
    BY NatLessThanWellFounded
  <2> HIDE DEF Out
  <2>2. Out \subseteq Nat
    BY DEF Out
  <2> QED
    BY <1>1, <2>1, <2>2, WFMin
<1>3. m # 0 /\ m - 1 \in Nat /\ m - 1 \notin Out
  <2>1. m \in Nat /\ m # 0
    OBVIOUS
  <2>2. m - 1 \in Nat /\ <<m - 1, m>> \in OpToRel(<, Nat)
    BY <2>1 DEF OpToRel
  <2> QED
    BY <1>2, <2>1, <2>2
<1> QED
  BY <1>3

\* What the first m members of seqs amount to, one after the other.
Flattened(f, seqs, S, m) ==
  /\ f \in [0 .. m -> Seq(S)]
  /\ f[0] = << >>
  /\ \A i \in 1 .. m : f[i] = f[i - 1] \o seqs[i]

LEMMA FlattenedExists ==
  ASSUME NEW S, NEW seqs \in Seq(Seq(S))
  PROVE  \E f : Flattened(f, seqs, S, Len(seqs))
<1> DEFINE n == Len(seqs)
           Found == {m \in Nat : m <= n => \E f : Flattened(f, seqs, S, m)}
<1>1. 0 \in Found
  <2>1. Flattened([i \in {0} |-> << >>], seqs, S, 0)
    BY EmptySeq DEF Flattened
  <2> QED
    BY <2>1
<1>2. ASSUME NEW m \in Nat, m \in Found PROVE m + 1 \in Found
  <2>1. CASE ~(m + 1 <= n)
    BY <2>1
  <2>2. CASE m + 1 <= n
    <3>1. m <= n /\ m + 1 \in 1 .. n /\ n \in Nat
      BY <2>2
    <3>2. PICK f : Flattened(f, seqs, S, m)
      BY <1>2, <3>1
    <3>3. f[m] \in Seq(S) /\ seqs[m + 1] \in Seq(S)
      BY <3>1, <3>2 DEF Flattened
    <3> DEFINE last == f[m] \o seqs[m + 1]
               g == [i \in 0 .. m + 1 |-> IF i = m + 1 THEN last ELSE f[i]]
    <3>4. last \in Seq(S)
      BY <3>3, ConcatProperties
    <3>5. g[m + 1] = last /\ \A i \in 0 .. m : g[i] = f[i]
      <4>1. m + 1 \in 0 .. m + 1 /\ \A i \in 0 .. m : i \in 0 .. m + 1 /\ i # m + 1
        OBVIOUS
      <4> HIDE DEF last
      <4> QED
        BY <4>1
    <3>6. g \in [0 .. m + 1 -> Seq(S)] /\ g[0] = << >>
      BY <3>2, <3>4 DEF Flattened
    <3>7. ASSUME NEW i \in 1 .. m + 1 PROVE g[i] = g[i - 1] \o seqs[i]
      <4> HIDE DEF g
      <4>1. CASE i = m + 1
        <5>1. i - 1 = m /\ m \in 0 .. m
          BY <4>1
        <5> QED
          BY <3>5, <4>1, <5>1
      <4>2. CASE i # m + 1
        <5>1. i \in 1 .. m /\ i \in 0 .. m /\ i - 1 \in 0 .. m
          BY <4>2
        <5> QED
          BY <3>2, <3>5, <5>1 DEF Flattened
      <4> QED
        BY <4>1, <4>2
    <3> HIDE DEF g
    <3>8. Flattened(g, seqs, S, m + 1)
      BY <3>6, <3>7 DEF Flattened
    <3> QED
      BY <3>8
  <2> QED
    BY <2>1, <2>2
<1>3. n \in Nat /\ n <= n
  OBVIOUS
<1>4. n \in Found
  <2> HIDE DEF Found, n
  <2> QED
    BY <1>1, <1>2, <1>3, NatsBySteps
<1> QED
  BY <1>3, <1>4

LEMMA FlattenSteps ==
  ASSUME NEW S, NEW seqs \in Seq(Seq(S))
  PROVE  \E f : Flattened(f, seqs, S, Len(seqs)) /\ FlattenSeq(seqs) = f[Len(seqs)]
<1> DEFINE n == Len(seqs)
           Iter(it) == it = [i \in 1 .. n |-> IF i = 1 THEN seqs[i] ELSE it[i - 1] \o seqs[i]]
           it == CHOOSE it : Iter(it)
<1>0. n \in Nat
  OBVIOUS
<1>1. PICK f : Flattened(f, seqs, S, n)
  BY FlattenedExists
<1>a. f[0] = << >> /\ \A i \in 1 .. n : seqs[i] \in Seq(S) /\ f[i] = f[i - 1] \o seqs[i]
  BY <1>1, SMTT(30) DEF Flattened
<1>2. CASE n = 0
  <2>1. seqs = << >>
    BY <1>2
  <2>2. FlattenSeq(seqs) = << >>
    BY <2>1 DEF FlattenSeq
  <2> QED
    BY <1>1, <1>2, <2>2 DEF Flattened
<1>3. CASE n # 0
  <2>1. FlattenSeq(seqs) = it[n]
    BY <1>3, Zenon DEF FlattenSeq
  <2>2. Iter([i \in 1 .. n |-> f[i]])
    <3>1. ASSUME NEW i \in 1 .. n
          PROVE  f[i] = IF i = 1 THEN seqs[i] ELSE [k \in 1 .. n |-> f[k]][i - 1] \o seqs[i]
      <4>1. CASE i = 1
        <5>1. f[1] = << >> \o seqs[1] /\ seqs[1] \in Seq(S)
          <6>1. f[1] = f[0] \o seqs[1]
            <7>1. 1 \in 1 .. n /\ 1 - 1 = 0
              BY <1>0, <1>3
            <7> HIDE DEF n
            <7> QED
              BY <1>a, <7>1
          <6> QED
            BY <1>a, <4>1, <6>1
        <5> QED
          BY <4>1, <5>1, ConcatEmptySeq
      <4>2. CASE i # 1
        <5>1. i - 1 \in 1 .. n
          BY <4>2
        <5> QED
          BY <1>a, <4>2, <5>1
      <4> QED
        BY <4>1, <4>2
    <3> QED
      BY <3>1
  <2>3. Iter(it)
    <3> HIDE DEF Iter
    <3> QED
      BY <2>2
  <2> HIDE DEF it
  <2>4. \A i \in 1 .. n : it[i] = IF i = 1 THEN seqs[i] ELSE it[i - 1] \o seqs[i]
    <3> HIDE DEF n
    <3> QED
      BY <2>3
  <2> HIDE DEF n, Iter
  <2> DEFINE Same == {m \in Nat : m \in 1 .. n => it[m] = f[m]}
  <2>5. 0 \in Same
    OBVIOUS
  <2>6. ASSUME NEW m \in Nat, m \in Same PROVE m + 1 \in Same
    <3>1. SUFFICES ASSUME m + 1 \in 1 .. n PROVE it[m + 1] = f[m + 1]
      OBVIOUS
    <3>2. (m + 1) - 1 = m
      OBVIOUS
    <3>3. it[m + 1] = IF m = 0 THEN seqs[m + 1] ELSE it[m] \o seqs[m + 1]
      BY <2>4, <3>1, <3>2
    <3>4. f[m + 1] = f[m] \o seqs[m + 1] /\ seqs[m + 1] \in Seq(S)
      BY <1>a, <3>1, <3>2
    <3>5. CASE m = 0
      BY <1>a, <3>3, <3>4, <3>5, ConcatEmptySeq
    <3>6. CASE m # 0
      <4>1. m \in 1 .. n
        BY <1>0, <3>1, <3>6
      <4> QED
        BY <2>6, <3>3, <3>4, <3>6, <4>1
    <3> QED
      BY <3>5, <3>6
  <2>7. n \in Same
    <3> HIDE DEF Same
    <3> QED
      BY <1>0, <2>5, <2>6, NatsBySteps
  <2>8. it[n] = f[n]
    BY <1>0, <1>3, <2>7
  <2> QED
    BY <1>1, <2>1, <2>8 DEF n
<1> QED
  BY <1>2, <1>3

\* FlattenSeq makes one sequence of the members of several.
LEMMA FlattenSeqMembers ==
  ASSUME NEW S, NEW seqs \in Seq(Seq(S))
  PROVE  /\ FlattenSeq(seqs) \in Seq(S)
         /\ \A i \in DOMAIN seqs : \A j \in DOMAIN seqs[i] :
              \E k \in DOMAIN FlattenSeq(seqs) : FlattenSeq(seqs)[k] = seqs[i][j]
<1> DEFINE n == Len(seqs)
<1>0. n \in Nat /\ DOMAIN seqs = 1 .. n
  OBVIOUS
<1>1. PICK f : Flattened(f, seqs, S, n) /\ FlattenSeq(seqs) = f[n]
  BY FlattenSteps
<1> DEFINE In1(m) == \A i \in 1 .. m : \A j \in DOMAIN seqs[i] :
                       \E k \in DOMAIN f[m] : f[m][k] = seqs[i][j]
           Good == {m \in Nat : m <= n => In1(m)}
<1>2. 0 \in Good
  OBVIOUS
<1>3. ASSUME NEW m \in Nat, m \in Good PROVE m + 1 \in Good
  <2>1. SUFFICES ASSUME m + 1 <= n,
                        NEW i \in 1 .. m + 1, NEW j \in DOMAIN seqs[i]
                 PROVE  \E k \in DOMAIN f[m + 1] : f[m + 1][k] = seqs[i][j]
    OBVIOUS
  <2>2. m \in 0 .. n /\ m + 1 \in 1 .. n /\ (m + 1) - 1 = m /\ i \in 1 .. n /\ m <= n
    BY <1>0, <2>1
  <2> HIDE DEF n
  <2> DEFINE s == f[m]
             t == seqs[m + 1]
  <2>3. s \in Seq(S) /\ t \in Seq(S) /\ f[m + 1] = s \o t /\ seqs[i] \in Seq(S)
    <3>1. f[m] \in Seq(S) /\ f[m + 1] = f[m] \o seqs[m + 1]
      BY <1>1, <2>2 DEF Flattened
    <3>2. \A k \in 1 .. n : seqs[k] \in Seq(S)
      BY <1>0
    <3> QED
      BY <2>2, <3>1, <3>2
  <2> HIDE DEF s, t
  <2>4. /\ Len(s) \in Nat /\ Len(t) \in Nat
        /\ DOMAIN (s \o t) = 1 .. Len(s) + Len(t) /\ DOMAIN s = 1 .. Len(s) /\ DOMAIN t = 1 .. Len(t)
        /\ \A k \in 1 .. Len(s) + Len(t) :
             (s \o t)[k] = IF k <= Len(s) THEN s[k] ELSE t[k - Len(s)]
    BY <2>3, ConcatProperties, LenProperties
  <2>5. CASE i = m + 1
    <3>1. j \in 1 .. Len(t) /\ t[j] = seqs[i][j]
      BY <2>4, <2>5 DEF t
    <3>2. Len(s) + j \in 1 .. Len(s) + Len(t) /\ ~(Len(s) + j <= Len(s)) /\ (Len(s) + j) - Len(s) = j
      BY <2>4, <3>1
    <3> QED
      BY <2>3, <2>4, <3>1, <3>2
  <2>6. CASE i # m + 1
    <3>1. i \in 1 .. m
      BY <2>6
    <3>2. PICK k \in DOMAIN s : s[k] = seqs[i][j]
      BY <1>3, <2>2, <3>1 DEF s
    <3>3. k \in 1 .. Len(s) + Len(t) /\ k <= Len(s)
      BY <2>4
    <3> QED
      BY <2>3, <2>4, <3>2, <3>3
  <2> QED
    BY <2>5, <2>6
<1>4. n \in Good
  <2> HIDE DEF Good, n
  <2> QED
    BY <1>0, <1>2, <1>3, NatsBySteps
<1> QED
  BY <1>0, <1>1, <1>4 DEF Flattened

\* ElementsAt keeps the elements at the positions, and no other.
LEMMA ElementsKept ==
  ASSUME NEW S, NEW seq \in Seq(S), NEW positions
  PROVE  LET kept == {seq[i] : i \in positions \cap DOMAIN seq}
         IN  /\ ElementsAt(seq, positions) \in Seq(kept)
             /\ \A x \in kept : \E k \in DOMAIN ElementsAt(seq, positions) :
                                  ElementsAt(seq, positions)[k] = x
<1> DEFINE kept == {seq[i] : i \in positions \cap DOMAIN seq}
           seqs == [i \in DOMAIN seq |-> IF i \in positions THEN <<seq[i]>> ELSE << >>]
<1>1. seqs \in Seq(Seq(kept))
  <2>1. Len(seq) \in Nat /\ DOMAIN seq = 1 .. Len(seq)
    OBVIOUS
  <2>2. ASSUME NEW i \in 1 .. Len(seq) PROVE seqs[i] \in Seq(kept)
    <3>1. CASE i \in positions
      <4>1. seq[i] \in kept
        BY <2>1, <3>1
      <4> HIDE DEF kept
      <4> QED
        BY <2>1, <3>1, <4>1
    <3>2. CASE i \notin positions
      BY <2>1, <3>2, EmptySeq
    <3> QED
      BY <3>1, <3>2
  <2>3. seqs = [i \in 1 .. Len(seq) |-> seqs[i]]
    BY <2>1
  <2> HIDE DEF seqs, kept
  <2> QED
    BY <2>1, <2>2, <2>3, IsASeq
<1>2. ElementsAt(seq, positions) = FlattenSeq(seqs)
  BY DEF ElementsAt
<1>3. ASSUME NEW i \in positions \cap DOMAIN seq
      PROVE  i \in DOMAIN seqs /\ 1 \in DOMAIN seqs[i] /\ seqs[i][1] = seq[i]
  OBVIOUS
<1> HIDE DEF seqs
<1>4. \A x \in kept : \E k \in DOMAIN FlattenSeq(seqs) : FlattenSeq(seqs)[k] = x
  <2> TAKE x \in kept
  <2>1. PICK i \in positions \cap DOMAIN seq : x = seq[i]
    OBVIOUS
  <2> HIDE DEF kept
  <2> QED
    BY <1>1, <1>3, <2>1, FlattenSeqMembers
<1>5. FlattenSeq(seqs) \in Seq(kept)
  <2> HIDE DEF kept
  <2> QED
    BY <1>1, FlattenSeqMembers
<1> QED
  BY <1>2, <1>4, <1>5

-----------------------------------------------------------------------------
(* Names.                                                                  *)

LEMMA BelowItself ==
  ASSUME NEW n \in Name
  PROVE  IsSubdomainOf(n, n)
BY DEF IsSubdomainOf, Name

LEMMA ParentOfName ==
  ASSUME NEW n \in Name
  PROVE  /\ Parent(n) \in Name
         /\ n # Root => Len(Parent(n)) = Len(n) - 1
         /\ Root \in Name /\ Parent(Root) = Root
         /\ \A x \in Name : IsSubdomainOf(x, n) => IsSubdomainOf(x, Parent(n))
<1>1. Root \in Name /\ Parent(Root) = Root /\ Len(Root) = 0
  BY DEF Root, Name, Parent
<1>2. \A x \in Name : IsSubdomainOf(x, Root)
  BY DEF Root, Name, IsSubdomainOf
<1>3. CASE Len(n) <= 1
  <2>1. Parent(n) = Root /\ (n # Root => Len(n) = 1)
    BY <1>3 DEF Parent, Name, Root
  <2> QED
    BY <1>1, <1>2, <2>1
<1>4. CASE Len(n) > 1
  <2>1. Parent(n) = SubSeq(n, 2, Len(n)) /\ Len(n) \in Nat
    BY <1>4 DEF Parent, Name
  <2>2. /\ Parent(n) \in Name /\ Len(Parent(n)) = Len(n) - 1
        /\ \A i \in 1 .. Len(n) - 1 : Parent(n)[i] = n[i + 1]
    BY <1>4, <2>1 DEF Name
  <2>3. ASSUME NEW x \in Name, IsSubdomainOf(x, n) PROVE IsSubdomainOf(x, Parent(n))
    <3>1. Len(x) \in Nat /\ Len(x) >= Len(n) /\ \A i \in 1 .. Len(n) : x[Len(x) - Len(n) + i] = n[i]
      BY <2>3 DEF IsSubdomainOf, Name
    <3>2. ASSUME NEW i \in 1 .. Len(n) - 1
          PROVE  x[Len(x) - (Len(n) - 1) + i] = Parent(n)[i]
      <4>1. i + 1 \in 1 .. Len(n) /\ Len(x) - (Len(n) - 1) + i = Len(x) - Len(n) + (i + 1)
        BY <2>1, <3>1
      <4> QED
        BY <2>2, <3>1, <4>1
    <3> DEFINE p == Parent(n)
    <3>3. Len(p) = Len(n) - 1 /\ Len(x) >= Len(p)
      BY <2>1, <2>2, <3>1
    <3>4. \A i \in 1 .. Len(p) : x[Len(x) - Len(p) + i] = p[i]
      BY <3>2, <3>3
    <3> HIDE DEF p
    <3>5. IsSubdomainOf(x, p)
      BY <3>3, <3>4 DEF IsSubdomainOf
    <3> QED
      BY <3>5 DEF p
  <2> QED
    BY <1>1, <2>2, <2>3
<1>5. Len(n) \in Nat
  BY DEF Name
<1> QED
  BY <1>3, <1>4, <1>5

\* The names above one name lie above each other.
LEMMA AboveEachOther ==
  ASSUME NEW x \in Name, NEW a \in Name, NEW b \in Name,
         IsSubdomainOf(x, a), IsSubdomainOf(x, b)
  PROVE  /\ IsSubdomainOf(a, b) <=> Len(a) >= Len(b)
         /\ Len(a) = Len(b) => a = b
         /\ Len(x) \in Nat /\ Len(a) \in Nat /\ Len(b) \in Nat /\ Len(a) <= Len(x)
         /\ IsSubdomainOf(x, x)
<1>1. Len(x) \in Nat /\ Len(a) \in Nat /\ Len(b) \in Nat /\ Len(a) <= Len(x) /\ Len(b) <= Len(x)
  BY DEF IsSubdomainOf, Name
<1>2. ASSUME Len(a) >= Len(b) PROVE IsSubdomainOf(a, b)
  <2>1. ASSUME NEW i \in 1 .. Len(b) PROVE a[Len(a) - Len(b) + i] = b[i]
    <3> DEFINE j == Len(a) - Len(b) + i
    <3>1. j \in 1 .. Len(a) /\ Len(x) - Len(a) + j = Len(x) - Len(b) + i
      BY <1>1, <1>2
    <3>2. x[Len(x) - Len(a) + j] = a[j]
      <4> HIDE DEF j
      <4> QED
        BY <3>1 DEF IsSubdomainOf
    <3>3. x[Len(x) - Len(b) + i] = b[i]
      BY DEF IsSubdomainOf
    <3> QED
      BY <3>1, <3>2, <3>3
  <2> QED
    BY <1>2, <2>1 DEF IsSubdomainOf
<1>3. ASSUME Len(a) = Len(b) PROVE a = b
  <2>1. \A i \in 1 .. Len(a) : a[i] = b[i]
    BY <1>3 DEF IsSubdomainOf
  <2> QED
    BY <1>3, <2>1 DEF Name
<1>4. IsSubdomainOf(x, x)
  BY <1>1 DEF IsSubdomainOf
<1>5. IsSubdomainOf(a, b) => Len(a) >= Len(b)
  BY DEF IsSubdomainOf
<1> QED
  BY <1>1, <1>2, <1>3, <1>4, <1>5

\* The deepest of some names above a name is one of them, and the name itself if
\* that is among them.
LEMMA DeepestAbove ==
  ASSUME NEW x \in Name, NEW names \in SUBSET Name, names # {},
         \A n \in names : IsSubdomainOf(x, n)
  PROVE  /\ Deepest(names) \in names
         /\ x \in names => Deepest(names) = x
<1> DEFINE n0 == Len(x)
           Up == {k \in Nat : \A n \in names : Len(n) >= n0 - k => \E m \in names : \A l \in names : Len(l) <= Len(m)}
<1>0. n0 \in Nat /\ \A n \in names : Len(n) \in Nat /\ Len(n) <= n0
  BY AboveEachOther DEF Name
<1>1. 0 \in Up
  BY <1>0
<1>2. ASSUME NEW k \in Nat, k \in Up PROVE k + 1 \in Up
  <2>1. SUFFICES ASSUME NEW n \in names, Len(n) >= n0 - (k + 1)
                 PROVE  \E m \in names : \A l \in names : Len(l) <= Len(m)
    OBVIOUS
  <2>2. CASE \E l \in names : Len(l) >= n0 - k
    BY <1>2, <2>2
  <2>3. CASE \A l \in names : ~(Len(l) >= n0 - k)
    <3>1. \A l \in names : Len(l) <= Len(n)
      BY <1>0, <2>1, <2>3
    <3> QED
      BY <3>1
  <2> QED
    BY <2>2, <2>3
<1>3. n0 \in Up
  <2> HIDE DEF Up, n0
  <2> QED
    BY <1>0, <1>1, <1>2, NatsBySteps
<1>4. \E m \in names : \A l \in names : Len(l) <= Len(m)
  <2>1. PICK n \in names : TRUE
    OBVIOUS
  <2>2. Len(n) >= n0 - n0
    BY <1>0
  <2> QED
    BY <1>3, <2>2
<1>5. Deepest(names) \in names /\ \A l \in names : Len(l) <= Len(Deepest(names))
  BY <1>4 DEF Deepest
<1>6. ASSUME x \in names PROVE Deepest(names) = x
  <2>1. Len(Deepest(names)) = n0
    BY <1>0, <1>5, <1>6
  <2>2. IsSubdomainOf(x, x) /\ IsSubdomainOf(x, Deepest(names))
    BY <1>5, <1>6
  <2> QED
    BY <1>5, <2>1, <2>2, AboveEachOther
<1> QED
  BY <1>5, <1>6

-----------------------------------------------------------------------------
(* The calls of the backend.                                               *)

LEMMA ZoneRecords ==
  ASSUME NEW d \in Databases, NEW z
  PROVE  /\ ListZone(d, z) \in Seq(Rec) /\ DOMAIN d \subseteq Name
         /\ \A rr \in ToSet(ListZone(d, z)) : rr \in Rec /\ rr.name \in Name /\ rr.target \in Name
<1>1. ListZone(d, z) \in Seq(Rec) /\ DOMAIN d \subseteq Name
  BY AnswerAssumption, EmptySeq DEF ListZone, Rec, Name
<1>2. \A rr \in Rec : rr.name \in Name /\ rr.target \in Name
  BY DEF Rec, RRs
<1>3. \A rr \in ToSet(ListZone(d, z)) : rr \in Rec
  BY <1>1 DEF ToSet
<1> QED
  BY <1>1, <1>2, <1>3

LEMMA LookupLists ==
  ASSUME NEW d \in Databases, NEW z, NEW n, NEW t, t # "ANY"
  PROVE  /\ Lists(Lookup(d, z, n, t), At(d, z, n, t))
         /\ Lookup(d, z, n, t) \in Seq(Rec)
<1> DEFINE rrs == ListZone(d, z)
           places == {i \in DOMAIN rrs : rrs[i].name = n /\ t \in {"ANY", rrs[i].type}}
           kept == {rrs[i] : i \in places \cap DOMAIN rrs}
<1>1. Lookup(d, z, n, t) = ElementsAt(rrs, places)
  BY DEF Lookup
<1>2. kept = At(d, z, n, t)
  BY DEF At, ToSet
<1>3. rrs \in Seq(Rec)
  BY ZoneRecords
<1>4. At(d, z, n, t) \subseteq Rec
  BY <1>3 DEF At, ToSet
<1>5. Lists(Lookup(d, z, n, t), At(d, z, n, t))
  <2> HIDE DEF rrs, places
  <2> QED
    BY <1>1, <1>2, <1>3, ElementsKept DEF Lists
<1>6. Lookup(d, z, n, t) \in Seq(Rec)
  <2>1. Lookup(d, z, n, t) \in Seq(At(d, z, n, t))
    BY <1>5 DEF Lists
  <2> QED
    BY <1>4, <2>1
<1> QED
  BY <1>5, <1>6

LEMMA EmptyLists ==
  ASSUME NEW s, NEW S, Lists(s, S)
  PROVE  /\ (s = << >>) <=> (S = {})
         /\ s # << >> => s[1] \in S /\ 1 \in DOMAIN s
BY DEF Lists

\* The addresses that addGlue looks up are those of the targets.
LEMMA GlueOfTargets ==
  ASSUME NEW zone, NEW rrs \in Seq(Rec)
  PROVE  LET todo == GlueLookups(zone, rrs)
         IN  /\ todo \in Seq(Targets \X {"A", "AAAA"})
             /\ \A k \in DOMAIN todo : \E i \in DOMAIN rrs : todo[k][1] = GlueTarget(rrs[i])
             /\ \A i \in DOMAIN rrs :
                  InZone(GlueTarget(rrs[i]), zone) =>
                    \E k \in DOMAIN todo : todo[k] = <<GlueTarget(rrs[i]), "A">>
<1> DEFINE Calls2 == {GlueTarget(rrs[i]) : i \in DOMAIN rrs} \X {"A", "AAAA"}
           Of(i) == << <<GlueTarget(rrs[i]), "A">>, <<GlueTarget(rrs[i]), "AAAA">> >>
           seqs == [i \in DOMAIN rrs |-> IF InZone(GlueTarget(rrs[i]), zone) THEN Of(i) ELSE << >>]
<1>1. \A i \in DOMAIN rrs : Of(i) \in Seq(Calls2) /\ 1 \in DOMAIN Of(i) /\ Of(i)[1] = <<GlueTarget(rrs[i]), "A">>
  OBVIOUS
<1>2. seqs \in Seq(Seq(Calls2))
  <2> DEFINE len == Len(rrs)
  <2>1. len \in Nat /\ DOMAIN rrs = 1 .. len
    OBVIOUS
  <2>2. \A i \in 1 .. len : seqs[i] \in Seq(Calls2)
    <3> HIDE DEF Of, Calls2
    <3> QED
      BY <1>1, <2>1, EmptySeq
  <2>3. seqs = [i \in 1 .. len |-> seqs[i]]
    BY <2>1
  <2> HIDE DEF seqs, len, Calls2
  <2> QED
    BY <2>1, <2>2, <2>3, IsASeq
<1>3. GlueLookups(zone, rrs) = FlattenSeq(seqs)
  BY DEF GlueLookups
<1>4. DOMAIN seqs = DOMAIN rrs /\ \A i \in DOMAIN rrs : InZone(GlueTarget(rrs[i]), zone) => seqs[i] = Of(i)
  OBVIOUS
<1>5. \A i \in DOMAIN rrs : rrs[i] \in Rec /\ GlueTarget(rrs[i]) \in Targets
  BY DEF Targets
<1>6. Calls2 \subseteq Targets \X {"A", "AAAA"}
  BY <1>5
<1>7. \A c \in Calls2 : \E i \in DOMAIN rrs : c[1] = GlueTarget(rrs[i])
  OBVIOUS
<1> HIDE DEF seqs, Calls2
<1>8. FlattenSeq(seqs) \in Seq(Calls2)
  BY <1>2, FlattenSeqMembers
<1>9. ASSUME NEW i \in DOMAIN rrs, InZone(GlueTarget(rrs[i]), zone)
      PROVE  \E k \in DOMAIN FlattenSeq(seqs) : FlattenSeq(seqs)[k] = <<GlueTarget(rrs[i]), "A">>
  <2>1. i \in DOMAIN seqs /\ 1 \in DOMAIN seqs[i] /\ seqs[i][1] = <<GlueTarget(rrs[i]), "A">>
    <3> HIDE DEF Of
    <3> QED
      BY <1>1, <1>4, <1>9
  <2> HIDE DEF Of
  <2> QED
    BY <1>2, <2>1, FlattenSeqMembers
<1> QED
  BY <1>3, <1>6, <1>7, <1>8, <1>9

-----------------------------------------------------------------------------
(* What the parts of a step change.                                        *)

LEMMA FrameFields ==
  ASSUME NEW f \in Frames
  PROVE  /\ f.q \in Questions /\ f.q.qname \in Name /\ f.zone \in Name /\ f.name \in Name
         /\ f.found \in Seq(Rec) /\ f.todo \in Seq(Targets \X {"A", "AAAA"})
         /\ f.resp \in Responses /\ f.resp.aa \in BOOLEAN
         /\ f.resp.answers \in Seq(Rec) /\ f.resp.authority \in Seq(Rec)
         /\ f.resp.additional \in Seq(Rec)
BY AnswerAssumption DEF Frames, Responses, Name

LEMMA DoneOf ==
  ASSUME NEW f \in Frames
  PROVE  /\ Done(f) \in Frames
         /\ Done(f).at = "done" /\ Done(f).q = f.q /\ Done(f).zone = f.zone
         /\ Done(f).name = f.name /\ Done(f).todo = f.todo /\ Done(f).resp = f.resp
BY EmptySeq DEF Done, Frames, Calls

LEMMA WithGlueOf ==
  ASSUME NEW f \in Frames, f.todo = << >>, NEW rrs \in Seq(Rec)
  PROVE  LET g == WithGlue(f, rrs)
         IN  /\ g \in Frames /\ g.q = f.q /\ g.zone = f.zone /\ g.name = f.name
             /\ g.resp = f.resp /\ g.todo = GlueLookups(f.zone, rrs)
             /\ g.at = IF g.todo = << >> THEN "done" ELSE "glue"
<1> DEFINE todo == GlueLookups(f.zone, rrs)
<1>1. todo \in Seq(Targets \X {"A", "AAAA"})
  BY GlueOfTargets
<1> HIDE DEF todo
<1>2. CASE todo = << >>
  BY <1>2, DoneOf DEF WithGlue, todo
<1>3. CASE todo # << >>
  <2>1. WithGlue(f, rrs) = [f EXCEPT !.at = "glue", !.todo = todo]
    BY <1>3 DEF WithGlue, todo
  <2> QED
    BY <1>1, <1>3, <2>1 DEF Frames, Calls, todo
<1> QED
  BY <1>2, <1>3

LEMMA TryWildcardOf ==
  ASSUME NEW f \in Frames, NEW p \in Name
  PROVE  LET g == TryWildcard(f, p)
         IN  /\ g \in Frames /\ g.q = f.q /\ g.zone = f.zone /\ g.name = p
             /\ g.resp = f.resp /\ g.todo = f.todo
             /\ g.at = IF InZone(p, f.zone) \/ p = Root THEN "wild" ELSE "exists"
BY EmptySeq DEF TryWildcard, Frames, Calls

LEMMA AddAnswersOf ==
  ASSUME NEW f \in Frames, NEW rrs \in Seq(Rec)
  PROVE  LET g == AddAnswers(f, rrs)
         IN  /\ g \in Frames /\ g.at = f.at /\ g.q = f.q /\ g.zone = f.zone /\ g.name = f.name
             /\ g.todo = f.todo /\ g.found = f.found /\ g.hop = f.hop
             /\ g.resp.rcode = f.resp.rcode /\ g.resp.aa = f.resp.aa
             /\ g.resp.answers = f.resp.answers \o rrs
<1>1. f.resp.answers \o rrs \in Seq(Rec)
  BY FrameFields, ConcatProperties
<1> DEFINE all == f.resp.answers \o rrs
           r == [f.resp EXCEPT !.answers = all]
<1> HIDE DEF all
<1>2. r \in Responses /\ r.rcode = f.resp.rcode /\ r.aa = f.resp.aa /\ r.answers = all
  BY <1>1, FrameFields DEF Responses, all
<1>3. AddAnswers(f, rrs) = [f EXCEPT !.resp = r]
  BY DEF AddAnswers, Frames, all
<1> HIDE DEF r
<1> QED
  BY <1>2, <1>3 DEF Frames, all

-----------------------------------------------------------------------------
(* One lemma per call: the invariant is kept.                              *)

LEMMA EmptyResponseFields ==
  /\ EmptyResponse \in Responses /\ EmptyResponse.rcode = "NOERROR" /\ EmptyResponse.aa = FALSE
  /\ EmptyResponse.answers = << >> /\ EmptyResponse.authority = << >>
  /\ EmptyResponse.additional = << >>
BY EmptySeq DEF EmptyResponse, Responses

LEMMA StartInv ==
  ASSUME NEW d \in Databases, NEW question \in Questions
  PROVE  CallInv(d, Start(question))
<1> DEFINE f == Start(question)
<1>1. /\ f \in Frames /\ f.at = "zone" /\ f.q = question /\ f.name = question.qname
      /\ f.todo = << >> /\ f.resp = EmptyResponse
  BY AnswerAssumption, EmptyResponseFields, EmptySeq DEF Start, Frames, Calls, Name, Root
<1> HIDE DEF f
<1> QED
  BY <1>1, EmptyResponseFields
     DEF CallInv, ControlInv, ReferralInv, DenialInv, ChainInv, Chained, Chasing, f

LEMMA ZoneStepInv ==
  ASSUME NEW d \in Databases, NEW f, CallInv(d, f), f.at = "zone"
  PROVE  CallInv(d, ZoneStep(d, f))
<1>1. /\ f \in Frames /\ f.name = f.q.qname /\ f.todo = << >> /\ f.resp = EmptyResponse
      /\ f.q.qname \in Name
  BY FrameFields DEF CallInv, ControlInv
<1>2. CASE Enclosing(d, f.q.qname) = {}
  <2> DEFINE r == [EmptyResponse EXCEPT !.rcode = "REFUSED"]
             h == [f EXCEPT !.resp = r]
             g == Done(h)
  <2>1. r \in Responses /\ r.rcode = "REFUSED" /\ r.answers = << >>
    BY EmptyResponseFields DEF Responses
  <2>2. ZoneStep(d, f) = g
    BY <1>1, <1>2 DEF ZoneStep, Frames
  <2> HIDE DEF r
  <2>3. h \in Frames /\ h.resp = r /\ h.todo = << >>
    BY <1>1, <2>1 DEF Frames
  <2> HIDE DEF h
  <2>4. g \in Frames /\ g.at = "done" /\ g.resp = r /\ g.todo = << >>
    BY <2>3, DoneOf
  <2> HIDE DEF g
  <2>5. CallInv(d, g)
    BY <2>1, <2>4 DEF CallInv, ControlInv, ReferralInv, DenialInv, ChainInv, Chained, Chasing
  <2> QED
    BY <2>2, <2>5
<1>3. CASE Enclosing(d, f.q.qname) # {}
  <2> DEFINE z == FindZone(d, f.q.qname)
             g == [f EXCEPT !.zone = z, !.at = "cut"]
  <2>1. z \in Name /\ IsSubdomainOf(f.q.qname, z)
    <3>1. /\ Enclosing(d, f.q.qname) \in SUBSET Name
          /\ \A n \in Enclosing(d, f.q.qname) : IsSubdomainOf(f.q.qname, n)
      BY ZoneRecords DEF Enclosing
    <3> QED
      BY <1>1, <1>3, <3>1, DeepestAbove DEF FindZone
  <2>2. ZoneStep(d, f) = g
    BY <1>3 DEF ZoneStep
  <2> HIDE DEF z
  <2>3. /\ g \in Frames /\ g.at = "cut" /\ g.resp = EmptyResponse /\ g.todo = << >>
        /\ g.q = f.q /\ g.zone = z /\ g.name = f.q.qname
    BY <1>1, <2>1 DEF Frames, Calls
  <2> HIDE DEF g
  <2>4. CallInv(d, g)
    BY <2>1, <2>3, EmptyResponseFields
       DEF CallInv, ControlInv, ReferralInv, DenialInv, ChainInv, Chained, Chasing
  <2> QED
    BY <2>2, <2>4
<1> QED
  BY <1>2, <1>3

LEMMA CutStepInv ==
  ASSUME NEW d \in Databases, NEW f, CallInv(d, f), f.at = "cut"
  PROVE  CallInv(d, CutStep(d, f))
<1>1. /\ f \in Frames /\ f.name = f.q.qname /\ f.todo = << >> /\ f.resp = EmptyResponse
      /\ f.q.qname \in Name /\ f.zone \in Name /\ IsSubdomainOf(f.q.qname, f.zone)
  BY FrameFields, EmptyResponseFields DEF CallInv, ControlInv
<1> DEFINE cuts == Cuts(d, f.zone, f.q.qname)
           cut == FindDelegation(d, f.zone, f.q.qname)
           given == cuts # {} /\ (cut # f.q.qname \/ f.q.qtype \notin {"NS", "DS"})
<1>2. cuts \in SUBSET Name /\ (cuts # {} => cut \in cuts /\ (f.q.qname \in cuts => cut = f.q.qname))
  <2>1. cuts \in SUBSET Name /\ \A n \in cuts : IsSubdomainOf(f.q.qname, n)
    BY ZoneRecords DEF Cuts
  <2> QED
    BY <1>1, <2>1, DeepestAbove DEF FindDelegation
<1> HIDE DEF cuts, cut
<1>3. given <=> GivenAway(d, f)
  BY <1>2 DEF GivenAway, cuts
<1>4. CASE given
  <2> DEFINE g == [f EXCEPT !.name = cut, !.at = "referral"]
  <2>1. CutStep(d, f) = g
    BY <1>4 DEF CutStep, cuts, cut
  <2>2. /\ g \in Frames /\ g.at = "referral" /\ g.resp = EmptyResponse /\ g.todo = << >>
        /\ g.q = f.q /\ g.zone = f.zone /\ g.name = cut
    BY <1>1, <1>2, <1>4 DEF Frames, Calls
  <2>3. cut \in Cuts(d, g.zone, g.q.qname) /\ GivenAway(d, g)
    BY <1>2, <1>3, <1>4, <2>2 DEF GivenAway, cuts
  <2> HIDE DEF g
  <2>4. CallInv(d, g)
    BY <1>1, <2>2, <2>3, EmptyResponseFields
       DEF CallInv, ControlInv, ReferralInv, DenialInv, ChainInv, Chained, Chasing
  <2> QED
    BY <2>1, <2>4
<1>5. CASE ~given
  <2> DEFINE r == [EmptyResponse EXCEPT !.aa = TRUE]
             h == [f EXCEPT !.resp = r]
  <2>1. r \in Responses /\ r.rcode = "NOERROR" /\ r.aa = TRUE /\ r.answers = << >>
    BY EmptyResponseFields DEF Responses
  <2> HIDE DEF r
  <2>2. /\ h \in Frames /\ h.resp = r /\ h.todo = << >> /\ h.q = f.q /\ h.zone = f.zone
        /\ h.name = f.name
    BY <1>1, <2>1 DEF Frames
  <2>3. h = [f EXCEPT !.resp.aa = TRUE]
    BY <1>1 DEF Frames, r
  <2> HIDE DEF h
  <2>4. CASE f.q.qtype = "ANY"
    <3> DEFINE hinfo == <<Hinfo(f.q.qname)>>
               a == AddAnswers(h, hinfo)
               g == Done(a)
    <3>1. CutStep(d, f) = g
      BY <1>5, <2>2, <2>3, <2>4 DEF CutStep, cuts, cut
    <3>2. hinfo \in Seq(Rec) /\ hinfo # << >> /\ Len(hinfo) = 1 /\ hinfo[1].name = f.q.qname
      <4>1. Hinfo(f.q.qname) \in Rec /\ Hinfo(f.q.qname).name = f.q.qname
        BY <1>1 DEF Hinfo, Rec, RRs, Types, Root, Name
      <4> QED
        BY <4>1
    <3> HIDE DEF hinfo
    <3>3. /\ a \in Frames /\ a.q = f.q /\ a.zone = f.zone /\ a.todo = << >>
          /\ a.resp.rcode = "NOERROR" /\ a.resp.aa = TRUE /\ a.resp.answers = << >> \o hinfo
      <4>1. h \in Frames /\ hinfo \in Seq(Rec)
        BY <2>2, <3>2, Zenon
      <4>2. /\ a \in Frames /\ a.q = h.q /\ a.zone = h.zone /\ a.todo = h.todo
            /\ a.resp.rcode = h.resp.rcode /\ a.resp.aa = h.resp.aa
            /\ a.resp.answers = h.resp.answers \o hinfo
        BY <4>1, AddAnswersOf, Zenon
      <4> HIDE DEF a
      <4> QED
        BY <2>1, <2>2, <4>2, Zenon
    <3>4. << >> \o hinfo = hinfo
      BY <3>2, ConcatEmptySeq
    <3> HIDE DEF a
    <3>5. /\ g \in Frames /\ g.at = "done" /\ g.q = f.q /\ g.zone = f.zone /\ g.todo = << >>
          /\ g.resp.rcode = "NOERROR" /\ g.resp.aa = TRUE /\ g.resp.answers = hinfo
      BY <3>3, <3>4, DoneOf
    <3> HIDE DEF g
    <3>6. ~GivenAway(d, g)
      BY <1>3, <1>5, <3>5 DEF GivenAway
    <3>7. Chained(g.resp.answers, g.q)
      BY <2>4, <3>2, <3>5 DEF Chained
    <3>8. g.resp.answers # << >>
      BY <3>2, <3>5
    <3>9. CallInv(d, g)
      BY <1>1, <3>5, <3>6, <3>7, <3>8
         DEF CallInv, ControlInv, ReferralInv, DenialInv, ChainInv, Chasing
    <3> QED
      BY <3>1, <3>9
  <2>5. CASE f.q.qtype # "ANY"
    <3> DEFINE g == [h EXCEPT !.at = "cname"]
    <3>1. CutStep(d, f) = g
      BY <1>5, <2>2, <2>3, <2>5 DEF CutStep, cuts, cut
    <3>2. /\ g \in Frames /\ g.at = "cname" /\ g.resp = r /\ g.todo = << >>
          /\ g.q = f.q /\ g.zone = f.zone /\ g.name = f.q.qname
      BY <1>1, <2>2 DEF Frames, Calls
    <3> HIDE DEF g
    <3>3. ~GivenAway(d, g)
      BY <1>3, <1>5, <3>2 DEF GivenAway
    <3>4. CallInv(d, g)
      BY <1>1, <2>1, <2>5, <3>2, <3>3
         DEF CallInv, ControlInv, ReferralInv, DenialInv, ChainInv, Chained, Chasing, Reached
    <3> QED
      BY <3>1, <3>4
  <2> QED
    BY <2>4, <2>5
<1> QED
  BY <1>4, <1>5

LEMMA Concat ==
  ASSUME NEW S, NEW s \in Seq(S), NEW t \in Seq(S)
  PROVE  /\ s \o t \in Seq(S)
         /\ \A k \in DOMAIN s : k \in DOMAIN (s \o t) /\ (s \o t)[k] = s[k]
         /\ \A k \in DOMAIN t : Len(s) + k \in DOMAIN (s \o t) /\ (s \o t)[Len(s) + k] = t[k]
         /\ \A k \in DOMAIN (s \o t) :
              \/ k \in DOMAIN s
              \/ k - Len(s) \in DOMAIN t /\ (s \o t)[k] = t[k - Len(s)]
         /\ t # << >> => s \o t # << >>
         /\ s # << >> => s \o t # << >>
         /\ s = << >> => s \o t = t
         /\ DOMAIN s = 1 .. Len(s) /\ DOMAIN t = 1 .. Len(t) /\ Len(s) \in Nat /\ Len(t) \in Nat
         /\ DOMAIN (s \o t) = 1 .. Len(s) + Len(t)
<1>1. /\ s \o t \in Seq(S) /\ Len(s \o t) = Len(s) + Len(t)
      /\ \A i \in 1 .. Len(s) + Len(t) : (s \o t)[i] = IF i <= Len(s) THEN s[i] ELSE t[i - Len(s)]
  BY ConcatProperties
<1>2. /\ Len(s) \in Nat /\ Len(t) \in Nat /\ DOMAIN s = 1 .. Len(s) /\ DOMAIN t = 1 .. Len(t)
      /\ DOMAIN (s \o t) = 1 .. Len(s) + Len(t)
  BY <1>1, LenProperties
<1> DEFINE u == s \o t
<1> HIDE DEF u
<1>3. \A k \in DOMAIN s : k \in DOMAIN u /\ u[k] = s[k]
  BY <1>1, <1>2 DEF u
<1>4. \A k \in DOMAIN t : Len(s) + k \in DOMAIN u /\ u[Len(s) + k] = t[k]
  <2> TAKE k \in DOMAIN t
  <2>1. /\ Len(s) + k \in 1 .. Len(s) + Len(t) /\ ~(Len(s) + k <= Len(s))
        /\ (Len(s) + k) - Len(s) = k
    BY <1>2
  <2> QED
    BY <1>1, <1>2, <2>1 DEF u
<1>5. \A k \in DOMAIN u : k \in DOMAIN s \/ (k - Len(s) \in DOMAIN t /\ u[k] = t[k - Len(s)])
  <2> TAKE k \in DOMAIN u
  <2>1. k \in 1 .. Len(s) + Len(t)
    BY <1>2 DEF u
  <2>2. k \in 1 .. Len(s) \/ (~(k <= Len(s)) /\ k - Len(s) \in 1 .. Len(t))
    BY <1>2, <2>1
  <2> QED
    BY <1>1, <1>2, <2>1, <2>2 DEF u
<1>6. s = << >> => u = t
  BY ConcatEmptySeq DEF u
<1>7. (t # << >> => Len(t) # 0) /\ (s # << >> => Len(s) # 0)
  BY EmptySeq
<1>8. Len(u) # 0 => u # << >>
  BY <1>1 DEF u
<1>9. (t # << >> => u # << >>) /\ (s # << >> => u # << >>)
  BY <1>1, <1>2, <1>7, <1>8 DEF u
<1> QED
  BY <1>1, <1>2, <1>3, <1>4, <1>5, <1>6, <1>9 DEF u

LEMMA ReferralStepInv ==
  ASSUME NEW d \in Databases, NEW f, CallInv(d, f), f.at = "referral"
  PROVE  CallInv(d, ReferralStep(d, f))
<1> DEFINE ns == Lookup(d, f.zone, f.name, "NS")
           all == At(d, f.zone, f.name, "NS")
           r == [EmptyResponse EXCEPT !.authority = ns]
           h == [f EXCEPT !.resp = r]
           g == WithGlue(h, ns)
<1>1. /\ f \in Frames /\ f.todo = << >> /\ f.resp = EmptyResponse /\ f.zone \in Name
      /\ IsSubdomainOf(f.q.qname, f.zone) /\ GivenAway(d, f)
      /\ f.name \in Cuts(d, f.zone, f.q.qname)
  BY FrameFields, EmptyResponseFields DEF CallInv, ControlInv, ReferralInv
<1>2. Lists(ns, all) /\ ns \in Seq(Rec)
  BY LookupLists
<1>3. all # {} /\ IsSubdomainOf(f.q.qname, f.name)
  BY <1>1 DEF Cuts, At
<1>4. /\ ns # << >>
      /\ \A i \in DOMAIN ns : ns[i] \in Rec /\ ns[i].type = "NS" /\ ns[i].name = f.name
  <2> HIDE DEF ns
  <2>1. \A rr \in all : rr.type = "NS" /\ rr.name = f.name
    BY DEF At
  <2> HIDE DEF all
  <2>2. \A i \in DOMAIN ns : ns[i] \in all /\ ns[i] \in Rec
    BY <1>2 DEF Lists
  <2> QED
    BY <1>2, <1>3, <2>1, <2>2, EmptyLists
<1> HIDE DEF ns, all
<1>5. /\ r \in Responses /\ r.rcode = "NOERROR" /\ r.aa = FALSE /\ r.answers = << >>
      /\ r.authority = ns /\ r.additional = << >>
  BY <1>2, EmptyResponseFields DEF Responses
<1>6. << >> \o ns = ns
  BY <1>2, ConcatEmptySeq
<1>7. ReferralStep(d, f) = g
  <2>1. [f EXCEPT !.resp.authority = @ \o ns] = h
    BY <1>1, <1>6, EmptyResponseFields DEF Frames
  <2> QED
    BY <2>1 DEF ReferralStep, ns
<1> HIDE DEF r
<1>8. h \in Frames /\ h.resp = r /\ h.todo = << >> /\ h.q = f.q /\ h.zone = f.zone
  BY <1>1, <1>5 DEF Frames
<1> HIDE DEF h
<1>9. /\ g \in Frames /\ g.q = f.q /\ g.zone = f.zone /\ g.resp = r
      /\ g.todo = GlueLookups(f.zone, ns) /\ g.at = IF g.todo = << >> THEN "done" ELSE "glue"
  BY <1>2, <1>8, WithGlueOf
<1> HIDE DEF g
<1>10. GivenAway(d, g)
  BY <1>1, <1>9 DEF GivenAway
<1>11. Referral(d, g)
  <2>1. \A i \in DOMAIN ns : GlueTarget(ns[i]) = ns[i].target
    BY <1>4 DEF GlueTarget
  <2>2. \A k \in DOMAIN g.todo : \E i \in DOMAIN ns : g.todo[k][1] = GlueTarget(ns[i])
    BY <1>2, <1>9, GlueOfTargets
  <2>3. \A i \in DOMAIN ns :
          InZone(GlueTarget(ns[i]), f.zone) =>
            \E k \in DOMAIN g.todo : g.todo[k] = <<GlueTarget(ns[i]), "A">>
    BY <1>2, <1>9, GlueOfTargets
  <2> QED
    BY <1>3, <1>4, <1>5, <1>9, <2>1, <2>2, <2>3 DEF Referral
<1>12. CallInv(d, g)
  BY <1>1, <1>5, <1>9, <1>10, <1>11
     DEF CallInv, ControlInv, ReferralInv, DenialInv, ChainInv, Chained, Chasing
<1> QED
  BY <1>7, <1>12

LEMMA GlueStepInv ==
  ASSUME NEW d \in Databases, NEW f, CallInv(d, f), f.at = "glue"
  PROVE  CallInv(d, GlueStep(d, f))
<1> DEFINE call == Head(f.todo)
           extra == Lookup(d, f.zone, call[1], call[2])
           more == f.resp.additional \o extra
           rest == Tail(f.todo)
           r == [f.resp EXCEPT !.additional = more]
           h == [f EXCEPT !.resp = r, !.todo = rest]
           g == IF rest = << >> THEN Done(h) ELSE h
<1>1. /\ f \in Frames /\ f.todo # << >> /\ f.todo \in Seq(Targets \X {"A", "AAAA"})
      /\ f.resp \in Responses /\ f.resp.additional \in Seq(Rec)
      /\ f.resp.rcode # "REFUSED" /\ IsSubdomainOf(f.q.qname, f.zone)
  BY FrameFields DEF CallInv, ControlInv
<1>2. /\ call = f.todo[1] /\ 1 \in DOMAIN f.todo /\ call \in Targets \X {"A", "AAAA"}
      /\ rest \in Seq(Targets \X {"A", "AAAA"})
      /\ \A k \in DOMAIN f.todo : k # 1 => k - 1 \in DOMAIN rest /\ rest[k - 1] = f.todo[k]
      /\ \A k \in DOMAIN rest : k + 1 \in DOMAIN f.todo /\ rest[k] = f.todo[k + 1]
  <2> DEFINE S == Targets \X {"A", "AAAA"}
             todo == f.todo
  <2>1. todo \in Seq(S) /\ todo # << >>
    BY <1>1
  <2> HIDE DEF S, todo
  <2>2. /\ Head(todo) = todo[1] /\ 1 \in DOMAIN todo /\ Head(todo) \in S
        /\ Tail(todo) \in Seq(S)
        /\ \A k \in DOMAIN todo : k # 1 => k - 1 \in DOMAIN Tail(todo) /\ Tail(todo)[k - 1] = todo[k]
        /\ \A k \in DOMAIN Tail(todo) : k + 1 \in DOMAIN todo /\ Tail(todo)[k] = todo[k + 1]
    BY <2>1
  <2> QED
    BY <2>2 DEF S, todo
<1> HIDE DEF call, rest
<1>3. call[2] # "ANY"
  BY <1>2
<1>4. Lists(extra, At(d, f.zone, call[1], call[2])) /\ extra \in Seq(Rec)
  BY <1>3, LookupLists
<1> HIDE DEF extra
<1>5. /\ more \in Seq(Rec)
      /\ ToSet(f.resp.additional) \subseteq ToSet(more) /\ ToSet(extra) \subseteq ToSet(more)
      /\ \A k \in DOMAIN more :
           \/ k \in DOMAIN f.resp.additional /\ more[k] = f.resp.additional[k]
           \/ \E j \in DOMAIN extra : more[k] = extra[j]
  <2> DEFINE had == f.resp.additional
  <2>1. had \in Seq(Rec) /\ extra \in Seq(Rec)
    BY <1>1, <1>4
  <2> HIDE DEF had
  <2>2. /\ had \o extra \in Seq(Rec)
        /\ \A k \in DOMAIN had : k \in DOMAIN (had \o extra) /\ (had \o extra)[k] = had[k]
        /\ \A k \in DOMAIN extra :
             Len(had) + k \in DOMAIN (had \o extra) /\ (had \o extra)[Len(had) + k] = extra[k]
        /\ \A k \in DOMAIN (had \o extra) :
             \/ k \in DOMAIN had
             \/ k - Len(had) \in DOMAIN extra /\ (had \o extra)[k] = extra[k - Len(had)]
    BY <2>1, Concat
  <2>3. ToSet(had) \subseteq ToSet(had \o extra) /\ ToSet(extra) \subseteq ToSet(had \o extra)
    <3>1. \A k \in DOMAIN had : had[k] \in ToSet(had \o extra)
      BY <2>2 DEF ToSet
    <3>2. \A k \in DOMAIN extra : extra[k] \in ToSet(had \o extra)
      <4> TAKE k \in DOMAIN extra
      <4>1. Len(had) + k \in DOMAIN (had \o extra) /\ (had \o extra)[Len(had) + k] = extra[k]
        BY <2>2
      <4> DEFINE u == had \o extra
                 i == Len(had) + k
      <4>2. i \in DOMAIN u /\ u[i] = extra[k]
        BY <4>1
      <4> HIDE DEF u, i
      <4>3. extra[k] \in ToSet(u)
        BY <4>2 DEF ToSet
      <4> QED
        BY <4>3 DEF u
    <3> QED
      BY <3>1, <3>2 DEF ToSet
  <2>4. \A k \in DOMAIN (had \o extra) :
          \/ k \in DOMAIN had /\ (had \o extra)[k] = had[k]
          \/ \E j \in DOMAIN extra : (had \o extra)[k] = extra[j]
    BY <2>2, Zenon
  <2> QED
    BY <2>2, <2>3, <2>4 DEF had
<1> HIDE DEF more
<1>6. /\ r \in Responses /\ r.rcode = f.resp.rcode /\ r.aa = f.resp.aa /\ r.answers = f.resp.answers
      /\ r.authority = f.resp.authority /\ r.additional = more
  BY <1>1, <1>5 DEF Responses
<1>7. GlueStep(d, f) = g
  <2>1. [f EXCEPT !.resp.additional = @ \o extra, !.todo = Tail(@)] = h
    BY <1>1 DEF Frames, more, rest
  <2>2. h.todo = rest
    BY <1>1 DEF Frames
  <2> HIDE DEF h
  <2> QED
    BY <2>1, <2>2 DEF GlueStep, extra, call
<1> HIDE DEF r
<1>8. /\ h \in Frames /\ h.resp = r /\ h.todo = rest /\ h.q = f.q /\ h.zone = f.zone /\ h.at = "glue"
  BY <1>1, <1>2, <1>6 DEF Frames
<1> HIDE DEF h
<1>9. /\ g \in Frames /\ g.q = f.q /\ g.zone = f.zone /\ g.resp = r /\ g.todo = rest
      /\ g.at = IF rest = << >> THEN "done" ELSE "glue"
  BY <1>8, DoneOf
<1> HIDE DEF g
<1>10. GivenAway(d, g) <=> GivenAway(d, f)
  BY <1>9 DEF GivenAway
<1>11. ASSUME Referral(d, f) PROVE Referral(d, g)
  <2>1. call[1] = f.todo[1][1]
    BY <1>2
  <2>2. \A j \in DOMAIN extra : extra[j].name = call[1]
    <3>1. \A rr \in At(d, f.zone, call[1], call[2]) : rr.name = call[1]
      BY DEF At
    <3> QED
      BY <1>4, <3>1 DEF Lists
  <2>3. ASSUME NEW i \in DOMAIN f.resp.authority, InZone(f.resp.authority[i].target, f.zone)
        PROVE  \/ At(d, f.zone, f.resp.authority[i].target, "A") \subseteq ToSet(more)
               \/ \E k \in DOMAIN rest : rest[k] = <<f.resp.authority[i].target, "A">>
    <3> DEFINE target == f.resp.authority[i].target
    <3>1. CASE At(d, f.zone, target, "A") \subseteq ToSet(f.resp.additional)
      BY <1>5, <3>1
    <3>2. ASSUME NEW k \in DOMAIN f.todo, f.todo[k] = <<target, "A">>, k # 1
          PROVE  k - 1 \in DOMAIN rest /\ rest[k - 1] = <<target, "A">>
      BY <1>2, <3>2
    <3>3. CASE f.todo[1] = <<target, "A">>
      <4>1. call[1] = target /\ call[2] = "A"
        BY <1>2, <3>3
      <4>2. At(d, f.zone, target, "A") \subseteq ToSet(extra)
        BY <1>4, <4>1 DEF Lists, ToSet
      <4> QED
        BY <1>5, <4>2
    <3>4. \/ At(d, f.zone, target, "A") \subseteq ToSet(f.resp.additional)
          \/ \E k \in DOMAIN f.todo : f.todo[k] = <<target, "A">>
      BY <1>11, <2>3 DEF Referral
    <3>5. ASSUME NEW k \in DOMAIN f.todo, f.todo[k] = <<target, "A">>
          PROVE  \/ At(d, f.zone, target, "A") \subseteq ToSet(more)
                 \/ \E j \in DOMAIN rest : rest[j] = <<target, "A">>
      <4>1. CASE k = 1
        BY <3>3, <3>5, <4>1
      <4>2. CASE k # 1
        BY <3>2, <3>5, <4>2
      <4> QED
        BY <4>1, <4>2
    <3> QED
      BY <3>1, <3>4, <3>5
  <2>4. \A i \in DOMAIN more : \E j \in DOMAIN f.resp.authority : more[i].name = f.resp.authority[j].target
    <3>1. \E j \in DOMAIN f.resp.authority : call[1] = f.resp.authority[j].target
      BY <1>2, <1>11, <2>1 DEF Referral
    <3>2. \A i \in DOMAIN f.resp.additional :
            \E j \in DOMAIN f.resp.authority : f.resp.additional[i].name = f.resp.authority[j].target
      BY <1>11 DEF Referral
    <3> QED
      BY <1>5, <2>2, <3>1, <3>2
  <2>5. \A k \in DOMAIN rest : \E j \in DOMAIN f.resp.authority : rest[k][1] = f.resp.authority[j].target
    BY <1>2, <1>11 DEF Referral
  <2>6. /\ f.resp.answers = << >> /\ f.resp.authority # << >>
        /\ \A i \in DOMAIN f.resp.authority :
             /\ f.resp.authority[i].type = "NS"
             /\ IsSubdomainOf(f.q.qname, f.resp.authority[i].name)
    BY <1>11 DEF Referral
  <2> QED
    BY <1>6, <1>9, <2>3, <2>4, <2>5, <2>6 DEF Referral
<1>12. ControlInv(g)
  BY <1>1, <1>6, <1>9 DEF ControlInv, Chasing
<1>13. ReferralInv(d, g)
  BY <1>1, <1>6, <1>9, <1>10, <1>11 DEF CallInv, ReferralInv
<1>14. DenialInv(d, g)
  BY <1>6, <1>9 DEF CallInv, ControlInv, DenialInv
<1>15. ChainInv(d, g)
  BY <1>6, <1>9 DEF CallInv, ChainInv, Chasing
<1> QED
  BY <1>7, <1>12, <1>13, <1>14, <1>15 DEF CallInv

LEMMA ChasingFacts ==
  ASSUME NEW d \in Databases, NEW f, CallInv(d, f), f.at \in Chasing
  PROVE  /\ f \in Frames /\ f.q.qname \in Name /\ f.zone \in Name /\ f.name \in Name
         /\ f.q \in Questions /\ f.resp \in Responses /\ f.resp.answers \in Seq(Rec)
         /\ f.todo = << >> /\ IsSubdomainOf(f.q.qname, f.zone)
         /\ f.resp.aa = TRUE /\ f.q.qtype # "ANY" /\ f.resp.rcode # "REFUSED"
         /\ ~GivenAway(d, f) /\ Chained(f.resp.answers, f.q)
         /\ f.resp.answers # << >> => NameExists(d, f.zone, f.q.qname)
         /\ f.at # "soa" => f.resp.rcode = "NOERROR"
<1>1. ControlInv(f) /\ ReferralInv(d, f) /\ ChainInv(d, f)
  BY DEF CallInv
<1>2. /\ f \in Frames /\ (f.todo # << >> <=> f.at = "glue")
      /\ f.resp.rcode = "REFUSED" => f.at = "done"
      /\ f.at # "zone" /\ f.resp.rcode # "REFUSED" => IsSubdomainOf(f.q.qname, f.zone)
      /\ f.resp.aa /\ f.q.qtype # "ANY"
      /\ f.at # "soa" => f.resp.rcode = "NOERROR"
  BY <1>1 DEF ControlInv, Chasing
<1>3. f.at \notin {"zone", "cut", "done", "glue"}
  BY DEF Chasing
<1> QED
  BY <1>1, <1>2, <1>3, FrameFields DEF ReferralInv, ChainInv

\* The chain grows by records at the name it leads to.
LEMMA ChainGrows ==
  ASSUME NEW question, NEW s \in Seq(Rec), NEW t \in Seq(Rec), NEW n, Chained(s, question),
         Reached(s, question.qname, n),
         \A i \in DOMAIN t : t[i].name = n /\ t[i].type \in {question.qtype, "CNAME"}
  PROVE  Chained(s \o t, question)
<1> DEFINE u == s \o t
<1>1. /\ \A k \in DOMAIN s : k \in DOMAIN u /\ u[k] = s[k]
      /\ \A k \in DOMAIN u :
           \/ k \in DOMAIN s
           \/ k - Len(s) \in DOMAIN t /\ u[k] = t[k - Len(s)]
      /\ DOMAIN s = 1 .. Len(s) /\ DOMAIN t = 1 .. Len(t) /\ Len(s) \in Nat /\ Len(t) \in Nat
      /\ DOMAIN u = 1 .. Len(s) + Len(t)
  BY Concat
<1> HIDE DEF u
<1>2. ASSUME NEW i \in DOMAIN u
      PROVE  /\ u[i].type \in {question.qtype, "CNAME"} \/ question.qtype = "ANY"
             /\ \/ u[i].name = question.qname
                \/ \E j \in 1 .. i - 1 : u[j].type = "CNAME" /\ u[j].target = u[i].name
  <2>1. CASE i \in DOMAIN s
    <3>1. \A j \in 1 .. i - 1 : j \in DOMAIN s
      BY <1>1, <2>1
    <3>2. /\ s[i].type \in {question.qtype, "CNAME"} \/ question.qtype = "ANY"
          /\ \/ s[i].name = question.qname
             \/ \E j \in 1 .. i - 1 : s[j].type = "CNAME" /\ s[j].target = s[i].name
      BY <2>1 DEF Chained
    <3> QED
      BY <1>1, <2>1, <3>1, <3>2
  <2>2. CASE i \notin DOMAIN s
    <3>1. i - Len(s) \in DOMAIN t /\ u[i] = t[i - Len(s)]
      BY <1>1, <2>2
    <3>2. u[i].name = n /\ u[i].type \in {question.qtype, "CNAME"}
      BY <3>1
    <3>3. \A j \in DOMAIN s : j \in 1 .. i - 1
      BY <1>1, <2>2
    <3>4. n = question.qname \/ \E j \in DOMAIN s : s[j].type = "CNAME" /\ s[j].target = n
      BY DEF Reached
    <3> QED
      BY <1>1, <3>2, <3>3, <3>4
  <2> QED
    BY <2>1, <2>2
<1> QED
  BY <1>2 DEF Chained, u

LEMMA CnameStepInv ==
  ASSUME NEW d \in Databases, NEW f, CallInv(d, f), f.at = "cname"
  PROVE  CallInv(d, CnameStep(d, f))
<1> DEFINE cname == Lookup(d, f.zone, f.name, "CNAME")
           g == [f EXCEPT !.found = cname, !.at = "match"]
<1>1. f.at \in Chasing
  BY DEF Chasing
<1>2. /\ f \in Frames /\ f.todo = << >> /\ IsSubdomainOf(f.q.qname, f.zone)
      /\ f.resp.aa = TRUE /\ f.q.qtype # "ANY" /\ f.resp.rcode = "NOERROR"
      /\ ~GivenAway(d, f) /\ Chained(f.resp.answers, f.q)
      /\ f.resp.answers # << >> => NameExists(d, f.zone, f.q.qname)
  BY <1>1, ChasingFacts
<1>3. Lists(cname, At(d, f.zone, f.name, "CNAME")) /\ cname \in Seq(Rec)
  BY LookupLists
<1>4. CnameStep(d, f) = g
  BY DEF CnameStep
<1> HIDE DEF cname
<1>5. /\ g \in Frames /\ g.at = "match" /\ g.q = f.q /\ g.zone = f.zone /\ g.name = f.name
      /\ g.found = cname /\ g.todo = << >> /\ g.resp = f.resp
  BY <1>2, <1>3 DEF Frames, Calls
<1> HIDE DEF g
<1>6. ~GivenAway(d, g)
  BY <1>2, <1>5 DEF GivenAway
<1>7. /\ Reached(f.resp.answers, f.q.qname, f.name)
      /\ f.resp.answers = << >> => f.name = f.q.qname
  BY DEF CallInv, ChainInv, DenialInv
<1>8. CallInv(d, g)
  BY <1>2, <1>3, <1>5, <1>6, <1>7 DEF CallInv, ControlInv, ReferralInv, DenialInv, ChainInv, Chasing
<1> QED
  BY <1>4, <1>8

\* The wildcard loop is entered, or left, with nothing found below the next parent.
LEMMA TryWildcardInv ==
  ASSUME NEW d \in Databases, NEW f \in Frames, NEW p \in Name,
         f.todo = << >>, IsSubdomainOf(f.q.qname, f.zone),
         f.resp.aa = TRUE, f.q.qtype # "ANY", f.resp.rcode = "NOERROR",
         ~GivenAway(d, f), Chained(f.resp.answers, f.q),
         f.resp.answers # << >> => NameExists(d, f.zone, f.q.qname),
         f.resp.answers = << >> => /\ NothingAt(d, f, f.q.qname)
                                   /\ IsSubdomainOf(f.q.qname, p) /\ NoWildBelow(d, f, Len(p))
  PROVE  CallInv(d, TryWildcard(f, p))
<1> DEFINE g == TryWildcard(f, p)
<1>1. /\ g \in Frames /\ g.q = f.q /\ g.zone = f.zone /\ g.name = p
      /\ g.resp = f.resp /\ g.todo = << >>
      /\ g.at = IF InZone(p, f.zone) \/ p = Root THEN "wild" ELSE "exists"
  BY TryWildcardOf
<1> HIDE DEF g
<1>2. ~GivenAway(d, g)
  BY <1>1 DEF GivenAway
<1>3. ASSUME f.resp.answers = << >>
      PROVE  NothingAt(d, g, g.q.qname) /\ NoWildBelow(d, g, Len(p))
  BY <1>1, <1>3 DEF NothingAt, NoWildBelow, Above
<1>4. ASSUME f.resp.answers = << >>, ~InZone(p, f.zone) PROVE Denied(d, g)
  <2>1. ASSUME NEW a \in Above(g) PROVE Len(a) > Len(p)
    <3>1. a \in Name /\ IsSubdomainOf(a, f.zone) /\ f.zone \in Name /\ f.q.qname \in Name
      BY <1>1, FrameFields DEF Above
    <3>2. Len(a) \in Nat /\ Len(p) \in Nat /\ Len(f.zone) \in Nat /\ Len(a) >= Len(f.zone)
      BY <3>1 DEF IsSubdomainOf, Name
    <3>3. ~(Len(p) >= Len(f.zone))
      BY <1>4, <3>1, AboveEachOther DEF InZone
    <3> QED
      BY <3>2, <3>3
  <2> QED
    BY <1>3, <1>4, <2>1 DEF Denied, NoWildBelow
<1>5. CallInv(d, g)
  <2>1. ControlInv(g)
    BY <1>1 DEF ControlInv, Chasing
  <2>2. ReferralInv(d, g)
    BY <1>1, <1>2 DEF ReferralInv
  <2>3. DenialInv(d, g)
    BY <1>1, <1>3, <1>4 DEF DenialInv
  <2>4. ChainInv(d, g)
    BY <1>1 DEF ChainInv, Chasing
  <2> QED
    BY <2>1, <2>2, <2>3, <2>4 DEF CallInv
<1> QED
  BY <1>5 DEF g

LEMMA WildStepInv ==
  ASSUME NEW d \in Databases, NEW f, CallInv(d, f), f.at = "wild"
  PROVE  CallInv(d, WildStep(d, f))
<1> DEFINE wild == Lookup(d, f.zone, Wildcard(f.name), f.q.qtype)
           g == [f EXCEPT !.found = wild, !.at = "wildcname"]
<1>1. f.at \in Chasing
  BY DEF Chasing
<1>2. /\ f \in Frames /\ f.todo = << >> /\ IsSubdomainOf(f.q.qname, f.zone)
      /\ f.resp.aa = TRUE /\ f.q.qtype # "ANY" /\ f.resp.rcode = "NOERROR"
      /\ ~GivenAway(d, f) /\ Chained(f.resp.answers, f.q)
      /\ f.resp.answers # << >> => NameExists(d, f.zone, f.q.qname)
  BY <1>1, ChasingFacts
<1>3. Lists(wild, At(d, f.zone, Wildcard(f.name), f.q.qtype)) /\ wild \in Seq(Rec)
  BY <1>2, LookupLists
<1>4. WildStep(d, f) = g
  BY DEF WildStep
<1> HIDE DEF wild
<1>5. /\ g \in Frames /\ g.at = "wildcname" /\ g.q = f.q /\ g.zone = f.zone /\ g.name = f.name
      /\ g.found = wild /\ g.todo = << >> /\ g.resp = f.resp
  BY <1>2, <1>3 DEF Frames, Calls
<1> HIDE DEF g
<1>6. ~GivenAway(d, g)
  BY <1>2, <1>5 DEF GivenAway
<1>7. f.resp.answers = << >> =>
        /\ NothingAt(d, g, g.q.qname) /\ IsSubdomainOf(g.q.qname, g.name)
        /\ NoWildBelow(d, g, Len(g.name))
  BY <1>5 DEF CallInv, DenialInv, NothingAt, NoWildBelow, Above
<1>8. CallInv(d, g)
  BY <1>2, <1>3, <1>5, <1>6, <1>7 DEF CallInv, ControlInv, ReferralInv, DenialInv, ChainInv, Chasing
<1> QED
  BY <1>4, <1>8

LEMMA ExistsStepInv ==
  ASSUME NEW d \in Databases, NEW f, CallInv(d, f), f.at = "exists"
  PROVE  CallInv(d, ExistsStep(d, f))
<1> DEFINE exists == NameExists(d, f.zone, f.q.qname)
           r == [f.resp EXCEPT !.rcode = IF exists THEN @ ELSE "NXDOMAIN"]
           g == [f EXCEPT !.at = "soa", !.resp = r]
<1>1. f.at \in Chasing
  BY DEF Chasing
<1>2. /\ f \in Frames /\ f.todo = << >> /\ IsSubdomainOf(f.q.qname, f.zone)
      /\ f.resp.aa = TRUE /\ f.q.qtype # "ANY" /\ f.resp.rcode = "NOERROR" /\ f.resp \in Responses
      /\ ~GivenAway(d, f) /\ Chained(f.resp.answers, f.q)
      /\ f.resp.answers # << >> => NameExists(d, f.zone, f.q.qname)
  BY <1>1, ChasingFacts
<1>3. ExistsStep(d, f) = g
  BY <1>2 DEF ExistsStep, Frames
<1> HIDE DEF exists
<1>4. /\ r \in Responses /\ r.aa = TRUE /\ r.answers = f.resp.answers
      /\ r.rcode = IF exists THEN "NOERROR" ELSE "NXDOMAIN"
  BY <1>2 DEF Responses
<1> HIDE DEF r
<1>5. /\ g \in Frames /\ g.at = "soa" /\ g.q = f.q /\ g.zone = f.zone /\ g.todo = << >> /\ g.resp = r
  BY <1>2, <1>4 DEF Frames, Calls
<1> HIDE DEF g
<1>6. ~GivenAway(d, g)
  BY <1>2, <1>5 DEF GivenAway
<1>7. f.resp.answers = << >> => Denied(d, g)
  BY <1>5 DEF CallInv, DenialInv, Denied, NothingAt, Above
<1>8. CallInv(d, g)
  <2>1. ControlInv(g)
    BY <1>2, <1>4, <1>5 DEF ControlInv, Chasing
  <2>2. ReferralInv(d, g)
    BY <1>4, <1>5, <1>6 DEF ReferralInv
  <2>3. DenialInv(d, g)
    BY <1>4, <1>5, <1>7 DEF DenialInv, exists
  <2>4. ChainInv(d, g)
    BY <1>2, <1>4, <1>5 DEF ChainInv, exists
  <2> QED
    BY <2>1, <2>2, <2>3, <2>4 DEF CallInv
<1> QED
  BY <1>3, <1>8

LEMMA SoaStepInv ==
  ASSUME NEW d \in Databases, NEW f, CallInv(d, f), f.at = "soa"
  PROVE  CallInv(d, SoaStep(d, f))
<1> DEFINE soa == Lookup(d, f.zone, f.zone, "SOA")
           more == f.resp.authority \o soa
           r == [f.resp EXCEPT !.authority = more]
           h == [f EXCEPT !.resp = r]
           g == Done(h)
<1>1. f.at \in Chasing
  BY DEF Chasing
<1>2. /\ f \in Frames /\ f.todo = << >> /\ IsSubdomainOf(f.q.qname, f.zone)
      /\ f.resp.aa = TRUE /\ f.q.qtype # "ANY" /\ f.resp.rcode # "REFUSED" /\ f.resp \in Responses
      /\ ~GivenAway(d, f) /\ Chained(f.resp.answers, f.q)
  BY <1>1, ChasingFacts
<1>3. more \in Seq(Rec)
  <2>1. soa \in Seq(Rec) /\ f.resp.authority \in Seq(Rec)
    BY <1>2, LookupLists, FrameFields
  <2> HIDE DEF soa
  <2> QED
    BY <2>1, ConcatProperties
<1>4. SoaStep(d, f) = g
  BY <1>2 DEF SoaStep, Frames
<1> HIDE DEF more
<1>5. /\ r \in Responses /\ r.aa = TRUE /\ r.answers = f.resp.answers /\ r.rcode = f.resp.rcode
  BY <1>2, <1>3 DEF Responses
<1> HIDE DEF r
<1>6. h \in Frames /\ h.resp = r /\ h.todo = << >> /\ h.q = f.q /\ h.zone = f.zone
  BY <1>2, <1>5 DEF Frames
<1> HIDE DEF h
<1>7. /\ g \in Frames /\ g.at = "done" /\ g.q = f.q /\ g.zone = f.zone /\ g.todo = << >> /\ g.resp = r
  BY <1>6, DoneOf
<1> HIDE DEF g
<1>8. ~GivenAway(d, g)
  BY <1>2, <1>7 DEF GivenAway
<1>9. CallInv(d, g)
  <2>1. ControlInv(g)
    BY <1>2, <1>5, <1>7 DEF ControlInv, Chasing
  <2>2. ReferralInv(d, g)
    BY <1>5, <1>7, <1>8 DEF ReferralInv
  <2>3. DenialInv(d, g)
    BY <1>5, <1>7 DEF CallInv, DenialInv, Denied, NothingAt, Above
  <2>4. ChainInv(d, g)
    BY <1>5, <1>7 DEF CallInv, ChainInv, Chasing
  <2> QED
    BY <2>1, <2>2, <2>3, <2>4 DEF CallInv
<1> QED
  BY <1>4, <1>9

\* An authoritative answer that has records is complete, or lacks only its glue.
LEMMA AnsweredInv ==
  ASSUME NEW d \in Databases, NEW g \in Frames, g.at \in {"glue", "done"},
         g.todo # << >> <=> g.at = "glue", IsSubdomainOf(g.q.qname, g.zone),
         g.resp.aa = TRUE, g.resp.rcode = "NOERROR", g.resp.answers # << >>,
         ~GivenAway(d, g), Chained(g.resp.answers, g.q)
  PROVE  CallInv(d, g)
BY DEF CallInv, ControlInv, ReferralInv, DenialInv, ChainInv, Chasing

LEMMA AliasStepInv ==
  ASSUME NEW d \in Databases, NEW f, CallInv(d, f), f.at = "match",
         f.q.qtype # "CNAME", f.found # << >>
  PROVE  CallInv(d, MatchStep(d, f))
<1> DEFINE target == f.found[1].target
           aliases == At(d, f.zone, f.name, "CNAME")
           a == AddAnswers(f, f.found)
           hop == a.hop + 1
           next == [a EXCEPT !.name = target, !.hop = hop, !.found = << >>]
           chase == [next EXCEPT !.at = "cname"]
<1>1. f.at \in Chasing
  BY DEF Chasing
<1>2. /\ f \in Frames /\ f.todo = << >> /\ IsSubdomainOf(f.q.qname, f.zone) /\ f.q.qname \in Name
      /\ f.resp.aa = TRUE /\ f.q.qtype # "ANY" /\ f.resp.rcode = "NOERROR"
      /\ ~GivenAway(d, f) /\ Chained(f.resp.answers, f.q) /\ f.resp.answers \in Seq(Rec)
      /\ f.resp.answers # << >> => NameExists(d, f.zone, f.q.qname)
  BY <1>1, ChasingFacts
<1>3. /\ Lists(f.found, aliases) /\ Reached(f.resp.answers, f.q.qname, f.name)
      /\ f.resp.answers = << >> => f.name = f.q.qname
  BY DEF CallInv, DenialInv, ChainInv
<1>4. /\ f.found \in Seq(Rec) /\ f.hop \in Nat
  BY <1>2, FrameFields DEF Frames
<1>5. /\ \A rr \in aliases : rr \in ToSet(ListZone(d, f.zone)) /\ rr.name = f.name /\ rr.type = "CNAME"
                             /\ rr.target \in Name
      /\ f.found[1] \in aliases /\ 1 \in DOMAIN f.found
  <2>1. \A rr \in aliases : rr \in ToSet(ListZone(d, f.zone)) /\ rr.name = f.name /\ rr.type = "CNAME"
    BY DEF At
  <2> HIDE DEF aliases
  <2> QED
    BY <1>3, <2>1, EmptyLists, ZoneRecords
<1>6. /\ a \in Frames /\ a.at = f.at /\ a.q = f.q /\ a.zone = f.zone /\ a.todo = << >>
      /\ a.resp.rcode = "NOERROR" /\ a.resp.aa = TRUE
      /\ a.resp.answers = f.resp.answers \o f.found
  BY <1>2, <1>4, AddAnswersOf
<1>7. Chained(a.resp.answers, f.q)
  <2>1. \A i \in DOMAIN f.found : f.found[i].name = f.name /\ f.found[i].type \in {f.q.qtype, "CNAME"}
    <3>1. \A i \in DOMAIN f.found : f.found[i] \in aliases
      <4> HIDE DEF aliases
      <4> QED
        BY <1>3 DEF Lists
    <3> QED
      BY <1>5, <3>1
  <2> QED
    BY <1>2, <1>3, <1>4, <1>6, <2>1, ChainGrows
<1>8. /\ a.resp.answers # << >>
      /\ Reached(a.resp.answers, f.q.qname, target)
  <2> DEFINE had == f.resp.answers
             found == f.found
             i == Len(had) + 1
  <2>1. had \in Seq(Rec) /\ found \in Seq(Rec) /\ 1 \in DOMAIN found /\ found # << >>
    BY <1>2, <1>4, <1>5
  <2> HIDE DEF had, found
  <2>2. i \in DOMAIN (had \o found) /\ (had \o found)[i] = found[1] /\ had \o found # << >>
    BY <2>1, Concat
  <2>3. found[1].type = "CNAME" /\ found[1].target = target
    BY <1>5 DEF found
  <2> QED
    BY <1>6, <2>2, <2>3 DEF Reached, had, found
<1>9. NameExists(d, f.zone, f.q.qname)
  <2>1. CASE f.resp.answers # << >>
    BY <1>2, <2>1
  <2>2. CASE f.resp.answers = << >>
    <3>1. f.found[1].name = f.q.qname /\ f.found[1] \in ToSet(ListZone(d, f.zone))
      BY <1>3, <1>5, <2>2
    <3>2. IsSubdomainOf(f.q.qname, f.q.qname)
      BY <1>2, AboveEachOther, FrameFields
    <3> QED
      BY <3>1, <3>2 DEF NameExists, ToSet
  <2> QED
    BY <2>1, <2>2
<1>10. target \in Name
  BY <1>5
<1>11. MatchStep(d, f) = IF ~InZone(target, f.zone) THEN Done(next)
                         ELSE IF next.hop < MaxHops THEN chase
                         ELSE TryWildcard(next, Parent(f.q.qname))
  <2>0. f.q.qtype # "CNAME" /\ f.found # << >>
    OBVIOUS
  <2>1. CASE InZone(target, f.zone)
    BY <2>0, <2>1 DEF MatchStep
  <2>2. CASE ~InZone(target, f.zone)
    BY <2>0, <2>2 DEF MatchStep
  <2> QED
    BY <2>1, <2>2
<1> HIDE DEF target, aliases, a
<1>12. hop \in Nat
  BY <1>6 DEF Frames
<1> HIDE DEF hop
<1>13. /\ next \in Frames /\ next.at = f.at /\ next.q = f.q /\ next.zone = f.zone /\ next.todo = << >>
       /\ next.name = target /\ next.resp = a.resp
  BY <1>6, <1>10, <1>12, EmptySeq DEF Frames
<1> HIDE DEF next
<1>14. ~GivenAway(d, next)
  BY <1>2, <1>13 DEF GivenAway
<1>15. CASE ~InZone(target, f.zone)
  <2> DEFINE g == Done(next)
  <2>1. /\ g \in Frames /\ g.at = "done" /\ g.q = f.q /\ g.zone = f.zone /\ g.todo = << >>
        /\ g.resp = a.resp
    BY <1>13, DoneOf
  <2> HIDE DEF g
  <2>2. ~GivenAway(d, g)
    BY <1>2, <2>1 DEF GivenAway
  <2>3. CallInv(d, g)
    BY <1>2, <1>6, <1>7, <1>8, <2>1, <2>2, AnsweredInv
  <2> QED
    BY <1>11, <1>15, <2>3 DEF g
<1>16. CASE InZone(target, f.zone) /\ next.hop < MaxHops
  <2>1. /\ chase \in Frames /\ chase.at = "cname" /\ chase.q = f.q /\ chase.zone = f.zone
        /\ chase.todo = << >> /\ chase.name = target /\ chase.resp = a.resp
    BY <1>13 DEF Frames, Calls
  <2> HIDE DEF chase
  <2>2. ~GivenAway(d, chase)
    BY <1>2, <2>1 DEF GivenAway
  <2>3. CallInv(d, chase)
    BY <1>2, <1>6, <1>7, <1>8, <1>9, <2>1, <2>2
       DEF CallInv, ControlInv, ReferralInv, DenialInv, ChainInv, Chasing
  <2> QED
    BY <1>11, <1>16, <2>3
<1>17. CASE InZone(target, f.zone) /\ ~(next.hop < MaxHops)
  <2> DEFINE p == Parent(f.q.qname)
             g == TryWildcard(next, p)
  <2>1. p \in Name /\ IsSubdomainOf(f.q.qname, p)
    BY <1>2, ParentOfName, BelowItself
  <2> HIDE DEF p
  <2>2. CallInv(d, g)
    <3>1. /\ next.resp.aa = TRUE /\ next.resp.rcode = "NOERROR" /\ next.resp.answers # << >>
          /\ Chained(next.resp.answers, next.q) /\ next.q.qtype # "ANY"
          /\ IsSubdomainOf(next.q.qname, next.zone) /\ NameExists(d, next.zone, next.q.qname)
      BY <1>2, <1>6, <1>7, <1>8, <1>9, <1>13
    <3> HIDE DEF g
    <3> QED
      BY <1>13, <1>14, <2>1, <3>1, TryWildcardInv DEF g
  <2> QED
    BY <1>11, <1>17, <2>2 DEF p
<1> QED
  BY <1>15, <1>16, <1>17

LEMMA MatchStepInv ==
  ASSUME NEW d \in Databases, NEW f, CallInv(d, f), f.at = "match"
  PROVE  CallInv(d, MatchStep(d, f))
<1> DEFINE match == Lookup(d, f.zone, f.name, f.q.qtype)
           alias == f.q.qtype # "CNAME" /\ f.found # << >>
           there == At(d, f.zone, f.name, f.q.qtype)
<1>1. CASE alias
  BY <1>1, AliasStepInv
<1>2. CASE ~alias
  <2>1. f.at \in Chasing
    BY DEF Chasing
  <2>2. /\ f \in Frames /\ f.todo = << >> /\ IsSubdomainOf(f.q.qname, f.zone) /\ f.q.qname \in Name
        /\ f.resp.aa = TRUE /\ f.q.qtype # "ANY" /\ f.resp.rcode = "NOERROR"
        /\ ~GivenAway(d, f) /\ Chained(f.resp.answers, f.q) /\ f.resp.answers \in Seq(Rec)
        /\ f.resp.answers # << >> => NameExists(d, f.zone, f.q.qname)
    BY <2>1, ChasingFacts
  <2>3. /\ Lists(f.found, At(d, f.zone, f.name, "CNAME"))
        /\ Reached(f.resp.answers, f.q.qname, f.name)
        /\ f.resp.answers = << >> => f.name = f.q.qname
    BY DEF CallInv, DenialInv, ChainInv
  <2>4. Lists(match, there) /\ match \in Seq(Rec)
    BY <2>2, LookupLists
  <2>5. \A rr \in there : rr.name = f.name /\ rr.type = f.q.qtype
    BY DEF At
  <2>6. CASE match # << >>
    <3> DEFINE bare == [f EXCEPT !.found = << >>]
               a == AddAnswers(bare, match)
               g == IF f.q.qtype \in {"NS", "MX"} THEN WithGlue(a, match) ELSE Done(a)
    <3>1. MatchStep(d, f) = g
      <4>1. ~alias /\ match # << >>
        BY <1>2, <2>6
      <4> QED
        BY <4>1 DEF MatchStep
    <3>2. \A i \in DOMAIN match : match[i].name = f.name /\ match[i].type \in {f.q.qtype, "CNAME"}
      <4> HIDE DEF match, there
      <4>1. \A i \in DOMAIN match : match[i] \in there
        BY <2>4 DEF Lists
      <4> QED
        BY <2>5, <4>1
    <3> HIDE DEF match, there
    <3>3. /\ bare \in Frames /\ bare.q = f.q /\ bare.zone = f.zone /\ bare.todo = << >>
          /\ bare.resp = f.resp
      BY <2>2, EmptySeq DEF Frames
    <3> HIDE DEF bare
    <3>4. /\ a \in Frames /\ a.q = f.q /\ a.zone = f.zone /\ a.todo = << >>
          /\ a.resp.rcode = "NOERROR" /\ a.resp.aa = TRUE
          /\ a.resp.answers = f.resp.answers \o match
      <4>1. /\ a \in Frames /\ a.q = bare.q /\ a.zone = bare.zone /\ a.todo = bare.todo
            /\ a.resp.rcode = bare.resp.rcode /\ a.resp.aa = bare.resp.aa
            /\ a.resp.answers = bare.resp.answers \o match
        BY <2>4, <3>3, AddAnswersOf
      <4> HIDE DEF a
      <4> QED
        BY <2>2, <3>3, <4>1
    <3>5. Chained(a.resp.answers, f.q) /\ a.resp.answers # << >>
      <4> DEFINE had == f.resp.answers
      <4>1. had \in Seq(Rec) /\ Chained(had, f.q) /\ Reached(had, f.q.qname, f.name)
        BY <2>2, <2>3
      <4> HIDE DEF had, a
      <4>2. Chained(had \o match, f.q)
        BY <2>4, <3>2, <4>1, ChainGrows
      <4>3. had \o match # << >>
        BY <2>4, <2>6, <4>1, Concat DEF match
      <4> QED
        BY <3>4, <4>2, <4>3 DEF had
    <3> HIDE DEF a
    <3>6. /\ g \in Frames /\ g.q = f.q /\ g.zone = f.zone /\ g.resp = a.resp
          /\ g.at \in {"glue", "done"} /\ (g.todo # << >> <=> g.at = "glue")
      <4>1. CASE f.q.qtype \in {"NS", "MX"}
        <5> DEFINE w == WithGlue(a, match)
        <5>1. /\ w \in Frames /\ w.q = a.q /\ w.zone = a.zone /\ w.resp = a.resp
              /\ w.at = IF w.todo = << >> THEN "done" ELSE "glue"
          BY <2>4, <3>4, WithGlueOf
        <5>2. g = w
          BY <4>1
        <5> HIDE DEF w, g
        <5> QED
          BY <3>4, <5>1, <5>2
      <4>2. CASE f.q.qtype \notin {"NS", "MX"}
        BY <3>4, <4>2, DoneOf
      <4> QED
        BY <4>1, <4>2
    <3> HIDE DEF g
    <3>7. ~GivenAway(d, g)
      BY <2>2, <3>6 DEF GivenAway
    <3>8. CallInv(d, g)
      BY <2>2, <3>4, <3>5, <3>6, <3>7, AnsweredInv
    <3> QED
      BY <3>1, <3>8
  <2>7. CASE match = << >>
    <3> DEFINE p == Parent(f.q.qname)
    <3>1. MatchStep(d, f) = TryWildcard(f, p)
      <4>1. ~alias /\ ~(match # << >>)
        BY <1>2, <2>7
      <4> QED
        BY <4>1 DEF MatchStep
    <3>2. there = {} /\ (f.q.qtype # "CNAME" => At(d, f.zone, f.name, "CNAME") = {})
      <4> HIDE DEF match, there
      <4> QED
        BY <1>2, <2>3, <2>4, <2>7, EmptyLists
    <3>3. f.resp.answers = << >> => NothingAt(d, f, f.q.qname)
      BY <2>3, <3>2 DEF NothingAt
    <3>4. p \in Name /\ IsSubdomainOf(f.q.qname, p)
      BY <2>2, ParentOfName, BelowItself
    <3>5. NoWildBelow(d, f, Len(p))
      <4>1. ASSUME NEW n \in Above(f) PROVE ~(Len(n) > Len(p))
        <5>1. n \in Name /\ n # f.q.qname /\ IsSubdomainOf(f.q.qname, n)
          BY DEF Above
        <5>2. Len(n) < Len(f.q.qname) /\ Len(n) \in Nat /\ Len(f.q.qname) \in Nat
          BY <2>2, <5>1, AboveEachOther
        <5>3. f.q.qname # Root
          BY <5>2 DEF Root
        <5>4. Len(p) = Len(f.q.qname) - 1
          BY <2>2, <5>3, ParentOfName
        <5> QED
          BY <5>2, <5>4
      <4> QED
        BY <4>1 DEF NoWildBelow
    <3> HIDE DEF p
    <3>6. CallInv(d, TryWildcard(f, p))
      BY <2>2, <3>3, <3>4, <3>5, TryWildcardInv
    <3> QED
      BY <3>1, <3>6
  <2> QED
    BY <2>6, <2>7
<1> QED
  BY <1>1, <1>2

LEMMA WildCnameStepInv ==
  ASSUME NEW d \in Databases, NEW f, CallInv(d, f), f.at = "wildcname"
  PROVE  CallInv(d, WildCnameStep(d, f))
<1> DEFINE star == Wildcard(f.name)
           cname == Lookup(d, f.zone, star, "CNAME")
           wild == IF f.found = << >> THEN cname ELSE f.found
           synth == [i \in DOMAIN wild |-> [wild[i] EXCEPT !.name = f.q.qname]]
<1>1. f.at \in Chasing
  BY DEF Chasing
<1>2. /\ f \in Frames /\ f.todo = << >> /\ IsSubdomainOf(f.q.qname, f.zone) /\ f.q.qname \in Name
      /\ f.zone \in Name /\ f.name \in Name
      /\ f.resp.aa = TRUE /\ f.q.qtype # "ANY" /\ f.resp.rcode = "NOERROR"
      /\ ~GivenAway(d, f) /\ Chained(f.resp.answers, f.q) /\ f.resp.answers \in Seq(Rec)
      /\ f.resp.answers # << >> => NameExists(d, f.zone, f.q.qname)
  BY <1>1, ChasingFacts
<1>3. /\ Lists(f.found, At(d, f.zone, star, f.q.qtype)) /\ f.found \in Seq(Rec)
      /\ f.resp.answers = << >> => /\ NothingAt(d, f, f.q.qname)
                                   /\ IsSubdomainOf(f.q.qname, f.name)
                                   /\ NoWildBelow(d, f, Len(f.name))
  BY <1>2, FrameFields DEF CallInv, DenialInv
<1>4. Lists(cname, At(d, f.zone, star, "CNAME")) /\ cname \in Seq(Rec)
  BY LookupLists
<1>5. /\ \A rr \in At(d, f.zone, star, f.q.qtype) : rr.type = f.q.qtype
      /\ \A rr \in At(d, f.zone, star, "CNAME") : rr.type = "CNAME"
  BY DEF At
<1>6. WildCnameStep(d, f) = IF wild # << >> THEN Done(AddAnswers(f, synth))
                            ELSE IF f.name \in {f.zone, Root} THEN [f EXCEPT !.at = "exists"]
                            ELSE TryWildcard(f, Parent(f.name))
  BY DEF WildCnameStep
<1> HIDE DEF cname, star
<1>7. wild \in Seq(Rec) /\ \A i \in DOMAIN wild : wild[i].type \in {f.q.qtype, "CNAME"}
  <2>1. /\ \A i \in DOMAIN cname : cname[i] \in At(d, f.zone, star, "CNAME")
        /\ \A i \in DOMAIN f.found : f.found[i] \in At(d, f.zone, star, f.q.qtype)
    BY <1>3, <1>4 DEF Lists
  <2> QED
    BY <1>3, <1>4, <1>5, <2>1
<1>8. CASE wild # << >>
  <2> DEFINE a == AddAnswers(f, synth)
             g == Done(a)
             had == f.resp.answers
  <2> HIDE DEF wild
  <2>1. /\ synth \in Seq(Rec) /\ synth # << >>
        /\ \A i \in DOMAIN synth : synth[i].name = f.q.qname /\ synth[i].type \in {f.q.qtype, "CNAME"}
    <3>1. ASSUME NEW rr \in Rec
          PROVE  LET x == [rr EXCEPT !.name = f.q.qname]
                 IN  x \in Rec /\ x.name = f.q.qname /\ x.type = rr.type
      BY <1>2 DEF Rec, RRs
    <3>2. Len(wild) \in Nat /\ DOMAIN wild = 1 .. Len(wild) /\ 1 \in DOMAIN wild
      BY <1>7, <1>8
    <3>3. \A i \in DOMAIN wild : wild[i] \in Rec /\ wild[i].type \in {f.q.qtype, "CNAME"}
      BY <1>7
    <3>4. DOMAIN synth = DOMAIN wild
      OBVIOUS
    <3>5. \A i \in 1 .. Len(wild) :
            synth[i] \in Rec /\ synth[i].name = f.q.qname /\ synth[i].type \in {f.q.qtype, "CNAME"}
      BY <3>1, <3>2, <3>3
    <3>6. synth = [i \in 1 .. Len(wild) |-> synth[i]]
      BY <3>2
    <3> HIDE DEF synth
    <3>7. synth \in Seq(Rec)
      BY <3>2, <3>5, <3>6, IsASeq
    <3> QED
      BY <3>2, <3>4, <3>5, <3>7, EmptySeq
  <2> HIDE DEF synth
  <2>2. /\ a \in Frames /\ a.q = f.q /\ a.zone = f.zone /\ a.todo = << >>
        /\ a.resp.rcode = "NOERROR" /\ a.resp.aa = TRUE /\ a.resp.answers = had \o synth
    BY <1>2, <2>1, AddAnswersOf
  <2>3. Chained(had \o synth, f.q) /\ had \o synth # << >>
    <3>1. Reached(had, f.q.qname, f.q.qname)
      BY DEF Reached
    <3> QED
      BY <1>2, <2>1, <3>1, ChainGrows, Concat
  <2> HIDE DEF a, had
  <2>4. /\ g \in Frames /\ g.at = "done" /\ g.q = f.q /\ g.zone = f.zone /\ g.todo = << >>
        /\ g.resp = a.resp
    BY <2>2, DoneOf
  <2> HIDE DEF g
  <2>5. ~GivenAway(d, g)
    BY <1>2, <2>4 DEF GivenAway
  <2>6. CallInv(d, g)
    BY <1>2, <2>2, <2>3, <2>4, <2>5, AnsweredInv
  <2> QED
    BY <1>6, <1>8, <2>6 DEF a, g
<1>9. CASE wild = << >>
  <2>1. NothingAt(d, f, star)
    <3>1. f.found = << >> /\ cname = << >>
      BY <1>9
    <3> HIDE DEF wild
    <3> QED
      BY <1>3, <1>4, <3>1, EmptyLists DEF NothingAt
  <2>2. ASSUME f.resp.answers = << >>, NEW n \in Above(f), Len(n) >= Len(f.name)
        PROVE  NothingAt(d, f, Wildcard(n))
    <3>1. /\ n \in Name /\ IsSubdomainOf(f.q.qname, n) /\ IsSubdomainOf(f.q.qname, f.name)
      BY <1>3, <2>2 DEF Above
    <3>2. Len(n) \in Nat /\ Len(f.name) \in Nat /\ (Len(n) = Len(f.name) => n = f.name)
      BY <1>2, <3>1, AboveEachOther
    <3>3. CASE Len(n) = Len(f.name)
      BY <2>1, <3>2, <3>3 DEF star
    <3>4. CASE Len(n) > Len(f.name)
      BY <1>3, <2>2, <3>4 DEF NoWildBelow
    <3> QED
      BY <2>2, <3>2, <3>3, <3>4
  <2>3. CASE f.name \in {f.zone, Root}
    <3> DEFINE g == [f EXCEPT !.at = "exists"]
    <3>1. /\ g \in Frames /\ g.at = "exists" /\ g.q = f.q /\ g.zone = f.zone /\ g.todo = << >>
          /\ g.resp = f.resp
      BY <1>2 DEF Frames, Calls
    <3> HIDE DEF g
    <3>2. ~GivenAway(d, g)
      BY <1>2, <3>1 DEF GivenAway
    <3>3. ASSUME f.resp.answers = << >> PROVE Denied(d, g)
      <4>1. ASSUME NEW n \in Above(f) PROVE Len(n) >= Len(f.name)
        <5>1. n \in Name /\ IsSubdomainOf(n, f.zone)
          BY DEF Above
        <5>2. Len(n) \in Nat /\ Len(n) >= Len(f.zone) /\ Len(Root) = 0
          BY <5>1 DEF IsSubdomainOf, Name, Root
        <5> QED
          BY <2>3, <5>2
      <4>2. \A n \in Above(f) : NothingAt(d, f, Wildcard(n))
        BY <2>2, <3>3, <4>1
      <4> QED
        BY <1>3, <3>1, <3>3, <4>2 DEF Denied, NothingAt, Above
    <3>4. ControlInv(g)
      BY <1>2, <3>1 DEF ControlInv, Chasing
    <3>5. ReferralInv(d, g)
      BY <1>2, <3>1, <3>2 DEF ReferralInv
    <3>6. DenialInv(d, g)
      BY <1>2, <3>1, <3>3 DEF DenialInv
    <3>7. ChainInv(d, g)
      BY <1>2, <3>1 DEF ChainInv
    <3> QED
      BY <1>6, <1>9, <2>3, <3>4, <3>5, <3>6, <3>7 DEF CallInv, g
  <2>4. CASE f.name \notin {f.zone, Root}
    <3> DEFINE p == Parent(f.name)
    <3>1. p \in Name /\ Len(p) = Len(f.name) - 1 /\ Len(f.name) \in Nat
      BY <1>2, <2>4, ParentOfName DEF Name
    <3>2. ASSUME f.resp.answers = << >> PROVE IsSubdomainOf(f.q.qname, p) /\ NoWildBelow(d, f, Len(p))
      <4>1. IsSubdomainOf(f.q.qname, p)
        BY <1>2, <1>3, <3>2, ParentOfName
      <4>2. ASSUME NEW n \in Above(f), Len(n) > Len(p) PROVE NothingAt(d, f, Wildcard(n))
        <5>1. n \in Name /\ Len(n) \in Nat
          BY DEF Above, Name
        <5>2. Len(n) >= Len(f.name)
          BY <3>1, <4>2, <5>1
        <5> QED
          BY <2>2, <3>2, <5>2
      <4> QED
        BY <4>1, <4>2 DEF NoWildBelow
    <3> HIDE DEF p
    <3>3. CallInv(d, TryWildcard(f, p))
      BY <1>2, <1>3, <3>1, <3>2, TryWildcardInv
    <3> QED
      BY <1>6, <1>9, <2>4, <3>3 DEF p
  <2> QED
    BY <2>3, <2>4
<1> QED
  BY <1>8, <1>9

LEMMA StepInv ==
  ASSUME NEW d \in Databases, NEW f, CallInv(d, f), f.at # "done"
  PROVE  CallInv(d, Step(d, f))
<1>1. f.at \in Calls \ {"done"}
  BY DEF CallInv, ControlInv, Frames
<1>2. CASE f.at = "zone"
  BY <1>2, ZoneStepInv DEF Step
<1>3. CASE f.at = "cut"
  BY <1>3, CutStepInv DEF Step
<1>4. CASE f.at = "referral"
  BY <1>4, ReferralStepInv DEF Step
<1>5. CASE f.at = "glue"
  BY <1>5, GlueStepInv DEF Step
<1>6. CASE f.at = "cname"
  BY <1>6, CnameStepInv DEF Step
<1>7. CASE f.at = "match"
  BY <1>7, MatchStepInv DEF Step
<1>8. CASE f.at = "wild"
  BY <1>8, WildStepInv DEF Step
<1>9. CASE f.at = "wildcname"
  BY <1>9, WildCnameStepInv DEF Step
<1>10. CASE f.at = "exists"
  BY <1>10, ExistsStepInv DEF Step
<1>11. CASE f.at = "soa"
  BY <1>11, SoaStepInv DEF Step
<1> QED
  BY <1>1, <1>2, <1>3, <1>4, <1>5, <1>6, <1>7, <1>8, <1>9, <1>10, <1>11 DEF Calls

-----------------------------------------------------------------------------
(* The sets of records in the answer are whole.                            *)

LEMMA MoreSets ==
  ASSUME NEW d, NEW zone, NEW question, NEW s \in Seq(Rec), NEW t \in Seq(Rec),
         WholeSets(d, zone, question, s), WholeSets(d, zone, question, t)
  PROVE  WholeSets(d, zone, question, s \o t)
<1> DEFINE u == s \o t
<1>1. /\ \A k \in DOMAIN s : k \in DOMAIN u /\ u[k] = s[k]
      /\ \A k \in DOMAIN t : Len(s) + k \in DOMAIN u /\ u[Len(s) + k] = t[k]
      /\ \A k \in DOMAIN u : k \in DOMAIN s \/ (k - Len(s) \in DOMAIN t /\ u[k] = t[k - Len(s)])
  BY Concat
<1> HIDE DEF u
<1>2. ToSet(s) \subseteq ToSet(u) /\ ToSet(t) \subseteq ToSet(u)
  BY <1>1 DEF ToSet
<1>3. ASSUME NEW part, NEW rr, ToSet(part) \subseteq ToSet(u), OfWholeSet(d, zone, question, part, rr)
      PROVE  OfWholeSet(d, zone, question, u, rr)
  <2> HIDE DEF u
  <2> QED
    BY <1>3 DEF OfWholeSet
<1>4. ASSUME NEW k \in DOMAIN u PROVE OfWholeSet(d, zone, question, u, u[k])
  <2>1. CASE k \in DOMAIN s
    BY <1>1, <1>2, <1>3, <2>1 DEF WholeSets
  <2>2. CASE k - Len(s) \in DOMAIN t /\ u[k] = t[k - Len(s)]
    BY <1>2, <1>3, <2>2 DEF WholeSets
  <2> QED
    BY <1>1, <2>1, <2>2
<1> QED
  BY <1>4 DEF WholeSets, u

\* A lookup finds a whole set.
LEMMA FoundIsWhole ==
  ASSUME NEW d, NEW zone, NEW question, NEW n, NEW t, NEW s, Lists(s, At(d, zone, n, t))
  PROVE  WholeSets(d, zone, question, s)
<1>1. ASSUME NEW i \in DOMAIN s PROVE OfWholeSet(d, zone, question, s, s[i])
  <2>1. s[i] \in At(d, zone, n, t)
    BY DEF Lists
  <2>2. s[i].name = n /\ s[i].type = t
    BY <2>1 DEF At
  <2>3. At(d, zone, n, t) \subseteq ToSet(s)
    BY DEF Lists, ToSet
  <2> QED
    BY <2>1, <2>2, <2>3 DEF OfWholeSet
<1> QED
  BY <1>1 DEF WholeSets

\* And so does one that is made from a wildcard.
LEMMA SynthIsWhole ==
  ASSUME NEW d, NEW zone, NEW question, NEW p \in Name, IsSubdomainOf(question.qname, p),
         NEW t, NEW s, Lists(s, At(d, zone, Wildcard(p), t)),
         NEW synth, synth = [i \in DOMAIN s |-> [s[i] EXCEPT !.name = question.qname]]
  PROVE  WholeSets(d, zone, question, synth)
<1>1. DOMAIN synth = DOMAIN s /\ \A i \in DOMAIN s : synth[i] = Synth(s[i], question.qname)
  BY DEF Synth
<1>2. \A v \in At(d, zone, Wildcard(p), t) : \E i \in DOMAIN s : s[i] = v
  BY DEF Lists
<1>3. \A v \in At(d, zone, Wildcard(p), t) : Synth(v, question.qname) \in ToSet(synth)
  BY <1>1, <1>2 DEF ToSet
<1>4. \A i \in DOMAIN s : s[i] \in At(d, zone, Wildcard(p), t)
  BY DEF Lists
<1>5. \A i \in DOMAIN synth : OfWholeSet(d, zone, question, synth, synth[i])
  BY <1>1, <1>3, <1>4 DEF OfWholeSet
<1> QED
  BY <1>5 DEF WholeSets

\* A step that answers nothing.
LEMMA SameSets ==
  ASSUME NEW d, NEW f, SetsInv(d, f), NEW g, g.q = f.q, g.zone = f.zone,
         g.resp.answers = f.resp.answers,
         g.at \in {"wild", "wildcname"} => IsSubdomainOf(f.q.qname, g.name)
  PROVE  SetsInv(d, g)
BY DEF SetsInv

LEMMA MatchStepSets ==
  ASSUME NEW d \in Databases, NEW f, CallInv(d, f), SetsInv(d, f), f.at = "match"
  PROVE  SetsInv(d, MatchStep(d, f))
<1> DEFINE match == Lookup(d, f.zone, f.name, f.q.qtype)
           alias == f.q.qtype # "CNAME" /\ f.found # << >>
           target == f.found[1].target
           a == AddAnswers(f, f.found)
           hop == a.hop + 1
           next == [a EXCEPT !.name = target, !.hop = hop, !.found = << >>]
           chase == [next EXCEPT !.at = "cname"]
           up == Parent(f.q.qname)
           bare == [f EXCEPT !.found = << >>]
           b == AddAnswers(bare, match)
<1>1. /\ f \in Frames /\ f.todo = << >> /\ f.q.qname \in Name /\ f.q.qtype # "ANY"
      /\ f.resp.answers \in Seq(Rec) /\ f.found \in Seq(Rec)
      /\ Lists(f.found, At(d, f.zone, f.name, "CNAME"))
      /\ WholeSets(d, f.zone, f.q, f.resp.answers)
  BY ChasingFacts, FrameFields DEF Chasing, CallInv, DenialInv, SetsInv
<1>2. Lists(match, At(d, f.zone, f.name, f.q.qtype)) /\ match \in Seq(Rec)
  BY <1>1, LookupLists
<1>3. up \in Name /\ IsSubdomainOf(f.q.qname, up)
  BY <1>1, ParentOfName, BelowItself
<1> HIDE DEF up
<1>4. /\ a \in Frames /\ a.q = f.q /\ a.zone = f.zone /\ a.todo = << >> /\ a.at = "match"
      /\ a.resp.answers = f.resp.answers \o f.found /\ hop \in Nat
  <2>1. /\ a \in Frames /\ a.q = f.q /\ a.zone = f.zone /\ a.todo = << >> /\ a.at = "match"
        /\ a.resp.answers = f.resp.answers \o f.found
    BY <1>1, AddAnswersOf
  <2> HIDE DEF a
  <2> QED
    BY <2>1 DEF Frames
<1>5. WholeSets(d, f.zone, f.q, f.resp.answers \o f.found)
  BY <1>1, FoundIsWhole, MoreSets
<1>6. WholeSets(d, f.zone, f.q, f.resp.answers \o match)
  <2> HIDE DEF match
  <2> QED
    BY <1>1, <1>2, FoundIsWhole, MoreSets
<1> HIDE DEF a
<1>7. CASE alias
  <2>1. target \in Name
    <3>1. 1 \in DOMAIN f.found /\ f.found[1] \in Rec
      BY <1>1, <1>7
    <3> QED
      BY <3>1 DEF Rec, RRs
  <2>2. MatchStep(d, f) = IF ~InZone(target, f.zone) THEN Done(next)
                          ELSE IF next.hop < MaxHops THEN chase
                          ELSE TryWildcard(next, up)
    <3>1. CASE InZone(target, f.zone)
      BY <1>7, <3>1 DEF MatchStep, a, up
    <3>2. CASE ~InZone(target, f.zone)
      BY <1>7, <3>2 DEF MatchStep, a
    <3> QED
      BY <3>1, <3>2
  <2> HIDE DEF target, hop
  <2>3. /\ next \in Frames /\ next.at = "match" /\ next.q = f.q /\ next.zone = f.zone
        /\ next.resp = a.resp
    BY <1>4, <2>1, EmptySeq DEF Frames
  <2> HIDE DEF next
  <2>4. /\ chase.at = "cname" /\ chase.q = f.q /\ chase.zone = f.zone /\ chase.resp = a.resp
    BY <2>3 DEF Frames
  <2> HIDE DEF chase
  <2>5. SetsInv(d, Done(next))
    <3>1. /\ Done(next).at = "done" /\ Done(next).q = f.q /\ Done(next).zone = f.zone
          /\ Done(next).resp = a.resp
      BY <2>3, DoneOf
    <3> QED
      BY <1>4, <1>5, <3>1 DEF SetsInv
  <2>6. SetsInv(d, chase)
    BY <1>4, <1>5, <2>4 DEF SetsInv
  <2>7. SetsInv(d, TryWildcard(next, up))
    <3> DEFINE g == TryWildcard(next, up)
    <3>1. g.q = f.q /\ g.zone = f.zone /\ g.name = up /\ g.resp = a.resp
      BY <1>3, <2>3, TryWildcardOf
    <3> HIDE DEF g
    <3>2. SetsInv(d, g)
      BY <1>3, <1>4, <1>5, <3>1 DEF SetsInv
    <3> QED
      BY <3>2 DEF g
  <2> QED
    BY <2>2, <2>5, <2>6, <2>7
<1>8. CASE ~alias /\ match # << >>
  <2>1. MatchStep(d, f) = IF f.q.qtype \in {"NS", "MX"} THEN WithGlue(b, match) ELSE Done(b)
    BY <1>8 DEF MatchStep
  <2> HIDE DEF match
  <2>2. /\ bare \in Frames /\ bare.q = f.q /\ bare.zone = f.zone /\ bare.todo = << >>
        /\ bare.resp = f.resp
    BY <1>1, EmptySeq DEF Frames
  <2> HIDE DEF bare
  <2>3. /\ b \in Frames /\ b.q = f.q /\ b.zone = f.zone /\ b.todo = << >>
        /\ b.resp.answers = f.resp.answers \o match
    <3>1. /\ b \in Frames /\ b.q = bare.q /\ b.zone = bare.zone /\ b.todo = bare.todo
          /\ b.resp.answers = bare.resp.answers \o match
      BY <1>2, <2>2, AddAnswersOf
    <3> HIDE DEF b
    <3> QED
      BY <2>2, <3>1
  <2> HIDE DEF b
  <2>4. SetsInv(d, Done(b))
    <3>1. Done(b).at = "done" /\ Done(b).q = f.q /\ Done(b).zone = f.zone /\ Done(b).resp = b.resp
      BY <2>3, DoneOf
    <3> QED
      BY <1>6, <2>3, <3>1 DEF SetsInv
  <2>5. SetsInv(d, WithGlue(b, match))
    <3> DEFINE g == WithGlue(b, match)
    <3>1. g.at \in {"done", "glue"} /\ g.q = f.q /\ g.zone = f.zone /\ g.resp = b.resp
      BY <1>2, <2>3, WithGlueOf
    <3> HIDE DEF g
    <3>2. SetsInv(d, g)
      BY <1>6, <2>3, <3>1 DEF SetsInv
    <3> QED
      BY <3>2 DEF g
  <2> QED
    BY <2>1, <2>4, <2>5
<1>9. CASE ~alias /\ match = << >>
  <2> DEFINE g == TryWildcard(f, up)
  <2>1. MatchStep(d, f) = g
    BY <1>9 DEF MatchStep, up
  <2>2. g.q = f.q /\ g.zone = f.zone /\ g.name = up /\ g.resp = f.resp
    BY <1>1, <1>3, TryWildcardOf
  <2> HIDE DEF g
  <2> QED
    BY <1>3, <2>1, <2>2, SameSets
<1> QED
  BY <1>7, <1>8, <1>9

LEMMA WildCnameStepSets ==
  ASSUME NEW d \in Databases, NEW f, CallInv(d, f), SetsInv(d, f), f.at = "wildcname"
  PROVE  SetsInv(d, WildCnameStep(d, f))
<1> DEFINE cname == Lookup(d, f.zone, Wildcard(f.name), "CNAME")
           wild == IF f.found = << >> THEN cname ELSE f.found
           synth == [i \in DOMAIN wild |-> [wild[i] EXCEPT !.name = f.q.qname]]
           up == Parent(f.name)
           a == AddAnswers(f, synth)
<1>1. /\ f \in Frames /\ f.q.qname \in Name /\ f.name \in Name
      /\ f.resp.answers \in Seq(Rec) /\ f.found \in Seq(Rec)
      /\ Lists(f.found, At(d, f.zone, Wildcard(f.name), f.q.qtype))
      /\ WholeSets(d, f.zone, f.q, f.resp.answers) /\ IsSubdomainOf(f.q.qname, f.name)
  BY ChasingFacts, FrameFields DEF Chasing, CallInv, DenialInv, SetsInv
<1>2. Lists(cname, At(d, f.zone, Wildcard(f.name), "CNAME")) /\ cname \in Seq(Rec)
  BY LookupLists
<1>3. WildCnameStep(d, f) = IF wild # << >> THEN Done(a)
                            ELSE IF f.name \in {f.zone, Root} THEN [f EXCEPT !.at = "exists"]
                            ELSE TryWildcard(f, up)
  BY DEF WildCnameStep
<1> HIDE DEF cname
<1>4. /\ wild \in Seq(Rec)
      /\ Lists(wild, At(d, f.zone, Wildcard(f.name), f.q.qtype))
           \/ Lists(wild, At(d, f.zone, Wildcard(f.name), "CNAME"))
  BY <1>1, <1>2
<1> HIDE DEF wild
<1>5. WholeSets(d, f.zone, f.q, synth)
  BY <1>1, <1>4, SynthIsWhole
<1>6. synth \in Seq(Rec)
  <2>0. ASSUME NEW rr \in Rec PROVE [rr EXCEPT !.name = f.q.qname] \in Rec
    BY <1>1 DEF Rec, RRs
  <2>1. \A i \in DOMAIN wild : [wild[i] EXCEPT !.name = f.q.qname] \in Rec
    BY <1>4, <2>0
  <2>2. Len(wild) \in Nat /\ DOMAIN wild = 1 .. Len(wild)
    BY <1>4
  <2>3. synth = [i \in 1 .. Len(wild) |-> synth[i]] /\ \A i \in 1 .. Len(wild) : synth[i] \in Rec
    BY <2>1, <2>2
  <2> HIDE DEF synth
  <2> QED
    BY <2>2, <2>3, IsASeq
<1> HIDE DEF synth
<1>7. /\ Done(a).at = "done" /\ Done(a).q = f.q /\ Done(a).zone = f.zone
      /\ Done(a).resp.answers = f.resp.answers \o synth
  <2>1. a \in Frames /\ a.q = f.q /\ a.zone = f.zone /\ a.resp.answers = f.resp.answers \o synth
    BY <1>1, <1>6, AddAnswersOf
  <2> HIDE DEF a
  <2> QED
    BY <2>1, DoneOf
<1>8. SetsInv(d, Done(a))
  <2>1. WholeSets(d, f.zone, f.q, f.resp.answers \o synth)
    BY <1>1, <1>5, <1>6, MoreSets
  <2> HIDE DEF a
  <2> QED
    BY <1>7, <2>1 DEF SetsInv
<1>9. SetsInv(d, [f EXCEPT !.at = "exists"])
  <2> DEFINE g == [f EXCEPT !.at = "exists"]
  <2>1. g.at = "exists" /\ g.q = f.q /\ g.zone = f.zone /\ g.resp = f.resp
    BY <1>1 DEF Frames
  <2> HIDE DEF g
  <2>2. SetsInv(d, g)
    BY <2>1, SameSets
  <2> QED
    BY <2>2 DEF g
<1>10. ASSUME f.name # Root PROVE SetsInv(d, TryWildcard(f, up))
  <2> DEFINE g == TryWildcard(f, up)
  <2>1. up \in Name /\ IsSubdomainOf(f.q.qname, up)
    BY <1>1, <1>10, ParentOfName
  <2> HIDE DEF up
  <2>2. g.q = f.q /\ g.zone = f.zone /\ g.name = up /\ g.resp = f.resp
    BY <1>1, <2>1, TryWildcardOf
  <2> HIDE DEF g
  <2>3. SetsInv(d, g)
    BY <2>1, <2>2, SameSets
  <2> QED
    BY <2>3 DEF g
<1> QED
  BY <1>3, <1>8, <1>9, <1>10

LEMMA CutStepSets ==
  ASSUME NEW d \in Databases, NEW f, CallInv(d, f), f.at = "cut"
  PROVE  SetsInv(d, CutStep(d, f))
<1> DEFINE r == [EmptyResponse EXCEPT !.aa = TRUE]
           h == [f EXCEPT !.resp = r]
           hinfo == <<Hinfo(f.q.qname)>>
           a == AddAnswers(h, hinfo)
           toCut == [f EXCEPT !.name = FindDelegation(d, f.zone, f.q.qname), !.at = "referral"]
           chase == [h EXCEPT !.at = "cname"]
<1>1. f \in Frames /\ f.resp = EmptyResponse /\ f.q.qname \in Name
  BY FrameFields DEF CallInv, ControlInv
<1>2. r \in Responses /\ r.answers = << >>
  BY EmptyResponseFields DEF Responses
<1>3. h = [f EXCEPT !.resp.aa = TRUE]
  BY <1>1 DEF Frames
<1> HIDE DEF r
<1>4. h \in Frames /\ h.resp = r /\ h.q = f.q
  BY <1>1, <1>2 DEF Frames
<1> HIDE DEF h
<1>5. /\ toCut.at = "referral" /\ toCut.resp.answers = << >>
      /\ chase.at = "cname" /\ chase.resp.answers = << >>
  BY <1>1, <1>2, <1>4, EmptyResponseFields DEF Frames
<1>6. CutStep(d, f) \in {toCut, chase} \/ (CutStep(d, f) = Done(a) /\ f.q.qtype = "ANY")
  BY <1>3 DEF CutStep
<1> HIDE DEF toCut, chase
<1>7. ASSUME NEW g, g.resp.answers = << >>, g.at \in {"referral", "cname"} PROVE SetsInv(d, g)
  <2>1. DOMAIN << >> = {}
    OBVIOUS
  <2> QED
    BY <1>7, <2>1 DEF SetsInv, WholeSets
<1>8. ASSUME f.q.qtype = "ANY" PROVE SetsInv(d, Done(a))
  <2>1. hinfo \in Seq(Rec) /\ \A i \in DOMAIN hinfo : hinfo[i] = Hinfo(f.q.qname)
    <3>1. Hinfo(f.q.qname) \in Rec
      BY <1>1 DEF Hinfo, Rec, RRs, Types, Root, Name
    <3> QED
      BY <3>1
  <2>2. << >> \o hinfo = hinfo
    OBVIOUS
  <2> HIDE DEF hinfo
  <2>3. a \in Frames /\ a.q = f.q /\ a.resp.answers = hinfo
    <3>1. a \in Frames /\ a.q = h.q /\ a.resp.answers = h.resp.answers \o hinfo
      BY <1>4, <2>1, AddAnswersOf
    <3> HIDE DEF a
    <3> QED
      BY <1>2, <1>4, <2>2, <3>1
  <2> HIDE DEF a
  <2>4. Done(a).at = "done" /\ Done(a).q = f.q /\ Done(a).resp.answers = hinfo
    BY <2>3, DoneOf
  <2>5. WholeSets(d, Done(a).zone, f.q, hinfo)
    BY <1>8, <2>1 DEF WholeSets, OfWholeSet
  <2> QED
    BY <2>4, <2>5 DEF SetsInv
<1> QED
  BY <1>5, <1>6, <1>7, <1>8

LEMMA StepSets ==
  ASSUME NEW d \in Databases, NEW f, CallInv(d, f), SetsInv(d, f), f.at # "done"
  PROVE  SetsInv(d, Step(d, f))
<1>1. /\ f \in Frames /\ f.at \in Calls \ {"done"} /\ f.resp \in Responses
      /\ f.at \in {"zone", "cut", "referral"} => f.resp = EmptyResponse
      /\ f.todo # << >> <=> f.at = "glue"
  BY FrameFields DEF CallInv, ControlInv, Frames
<1>2. ASSUME NEW g, g.resp.answers = << >>, g.at \notin {"wild", "wildcname"} PROVE SetsInv(d, g)
  <2>1. DOMAIN << >> = {}
    OBVIOUS
  <2> QED
    BY <1>2, <2>1 DEF SetsInv, WholeSets
<1>3. CASE f.at = "zone"
  <2> DEFINE g == ZoneStep(d, f)
  <2>1. g.resp.answers = << >> /\ g.at \in {"done", "cut"}
    BY <1>1, <1>3, EmptyResponseFields DEF ZoneStep, Done, Frames, Responses
  <2> HIDE DEF g
  <2>2. SetsInv(d, g)
    BY <1>2, <2>1
  <2> QED
    BY <1>3, <2>2 DEF Step, g
<1>4. CASE f.at = "cut"
  BY <1>4, CutStepSets DEF Step
<1>5. CASE f.at = "referral"
  <2> DEFINE ns == Lookup(d, f.zone, f.name, "NS")
             h == [f EXCEPT !.resp.authority = @ \o ns]
             g == WithGlue(h, ns)
  <2>1. h.resp.answers = << >>
    BY <1>1, <1>5, EmptyResponseFields DEF Frames, Responses
  <2>2. g.resp = h.resp /\ g.at \in {"done", "glue"}
    BY <1>1 DEF WithGlue, Done, Frames, Responses
  <2>3. Step(d, f) = g
    BY <1>5 DEF Step, ReferralStep
  <2> HIDE DEF g, h
  <2> QED
    BY <1>2, <2>1, <2>2, <2>3
<1>6. CASE f.at = "glue"
  <2> DEFINE g == GlueStep(d, f)
  <2>1. g.q = f.q /\ g.zone = f.zone /\ g.resp.answers = f.resp.answers /\ g.at \in {"glue", "done"}
    BY <1>1, <1>6 DEF GlueStep, Done, Frames, Responses
  <2>2. Step(d, f) = g
    BY <1>6 DEF Step
  <2> HIDE DEF g
  <2> QED
    BY <2>1, <2>2, SameSets
<1>7. CASE f.at = "cname"
  <2> DEFINE g == CnameStep(d, f)
  <2>1. g.q = f.q /\ g.zone = f.zone /\ g.resp = f.resp /\ g.at = "match"
    BY <1>1 DEF CnameStep, Frames
  <2>2. Step(d, f) = g
    BY <1>7 DEF Step
  <2> HIDE DEF g
  <2> QED
    BY <2>1, <2>2, SameSets
<1>8. CASE f.at = "match"
  BY <1>8, MatchStepSets DEF Step
<1>9. CASE f.at = "wild"
  <2> DEFINE g == WildStep(d, f)
  <2>1. g.q = f.q /\ g.zone = f.zone /\ g.resp = f.resp /\ g.name = f.name
    BY <1>1 DEF WildStep, Frames
  <2>2. Step(d, f) = g
    BY <1>9 DEF Step
  <2>3. IsSubdomainOf(f.q.qname, f.name)
    BY <1>9 DEF SetsInv
  <2> HIDE DEF g
  <2> QED
    BY <2>1, <2>2, <2>3, SameSets
<1>10. CASE f.at = "wildcname"
  BY <1>10, WildCnameStepSets DEF Step
<1>11. CASE f.at = "exists"
  <2> DEFINE g == ExistsStep(d, f)
  <2>1. g.q = f.q /\ g.zone = f.zone /\ g.resp.answers = f.resp.answers /\ g.at = "soa"
    BY <1>1 DEF ExistsStep, Frames, Responses
  <2>2. Step(d, f) = g
    BY <1>11 DEF Step
  <2> HIDE DEF g
  <2> QED
    BY <2>1, <2>2, SameSets
<1>12. CASE f.at = "soa"
  <2> DEFINE g == SoaStep(d, f)
  <2>1. g.q = f.q /\ g.zone = f.zone /\ g.resp.answers = f.resp.answers /\ g.at = "done"
    BY <1>1 DEF SoaStep, Done, Frames, Responses
  <2>2. Step(d, f) = g
    BY <1>12 DEF Step
  <2> HIDE DEF g
  <2> QED
    BY <2>1, <2>2, SameSets
<1> QED
  BY <1>1, <1>3, <1>4, <1>5, <1>6, <1>7, <1>8, <1>9, <1>10, <1>11, <1>12 DEF Calls

-----------------------------------------------------------------------------
(* The theorems.                                                           *)

\* At every point of a call what it has found and answered so far is what the
\* zone holds (engine.cpp:280-381).
THEOREM AnswerInvariant == Spec => []AnswerInv
<1>1. Init => AnswerInv
  <2>1. ASSUME NEW question \in Questions, NEW d PROVE SetsInv(d, Start(question))
    <3>1. Start(question).resp.answers = << >> /\ Start(question).at = "zone" /\ DOMAIN << >> = {}
      BY DEF Start, EmptyResponse
    <3> QED
      BY <3>1 DEF SetsInv, WholeSets
  <2> QED
    BY <2>1, StartInv DEF Init, AnswerInv
<1>2. AnswerInv /\ [Next]_vars => AnswerInv'
  <2> SUFFICES ASSUME AnswerInv, [Next]_vars PROVE AnswerInv'
    OBVIOUS
  <2>1. CASE Next
    <3>1. frame.at # "done" /\ frame' = Step(db, frame) /\ db' = db
      BY <2>1 DEF Next, Call
    <3>2. db \in Databases /\ CallInv(db, frame) /\ SetsInv(db, frame)
      BY DEF AnswerInv
    <3>3. CallInv(db, Step(db, frame)) /\ SetsInv(db, Step(db, frame))
      BY <3>1, <3>2, StepInv, StepSets
    <3> QED
      BY <3>1, <3>2, <3>3 DEF AnswerInv
  <2>2. CASE UNCHANGED vars
    BY <2>2 DEF vars, AnswerInv
  <2> QED
    BY <2>1, <2>2
<1> QED
  BY <1>1, <1>2, PTL DEF Spec

\* What the zone gives away is what the referral's rule says.
LEMMA CutsAreDelegations ==
  ASSUME AnswerInv, frame.resp.rcode # "REFUSED", frame.at = "done"
  PROVE  Delegated <=> GivenAway(db, frame)
<1> DEFINE zone == frame.zone
           qname == frame.q.qname
           rrs == ToSet(ListZone(db, zone))
<1>1. zone \in Name /\ qname \in Name /\ IsSubdomainOf(qname, zone) /\ db \in Databases
  BY FrameFields DEF AnswerInv, CallInv, ControlInv
<1>2. \A rr \in rrs : rr.name \in Name
  BY <1>1, ZoneRecords
<1>3. ASSUME NEW rr \in rrs, IsSubdomainOf(qname, rr.name)
      PROVE  (rr.name # zone /\ IsSubdomainOf(rr.name, zone)) <=> Len(rr.name) > Len(zone)
  <2> DEFINE n == rr.name
  <2>1. n \in Name
    BY <1>2
  <2> HIDE DEF n, zone, qname
  <2>2. IsSubdomainOf(qname, n)
    BY <1>3 DEF n
  <2>3. (IsSubdomainOf(n, zone) <=> Len(n) >= Len(zone)) /\ (Len(n) = Len(zone) => n = zone)
        /\ Len(n) \in Nat /\ Len(zone) \in Nat
    BY <1>1, <2>1, <2>2, AboveEachOther
  <2>4. (n # zone /\ IsSubdomainOf(n, zone)) <=> Len(n) > Len(zone)
    BY <2>3
  <2> QED
    BY <2>4 DEF n
<1>4. DelegationsAbove = Cuts(db, zone, qname)
  BY <1>3 DEF DelegationsAbove, Cuts, Records, q
<1> QED
  BY <1>4 DEF Delegated, GivenAway, q

\* A question is referred exactly when delegations of the zone take its name
\* away, with the name servers and the glue that the zone has; a question that is
\* not gets the AA bit (engine.cpp:292-309, addGlue).
THEOREM ReferralsFollowTheZone == Spec => []ReferralsAreExact
<1>1. AnswerInv => ReferralsAreExact
  <2> SUFFICES ASSUME AnswerInv, frame.at = "done", frame.resp.rcode # "REFUSED"
               PROVE  /\ frame.resp.aa <=> ~Delegated
                      /\ ~frame.resp.aa =>
                           /\ frame.resp.answers = << >>
                           /\ frame.resp.authority # << >>
                           /\ \A i \in DOMAIN frame.resp.authority :
                                /\ frame.resp.authority[i].type = "NS"
                                /\ IsSubdomainOf(frame.q.qname, frame.resp.authority[i].name)
                                /\ \A rr \in RecordsAt(frame.resp.authority[i].target, "A") :
                                     InZone(rr.name, frame.zone) => rr \in ToSet(frame.resp.additional)
                           /\ \A i \in DOMAIN frame.resp.additional :
                                \E j \in DOMAIN frame.resp.authority :
                                  frame.resp.additional[i].name = frame.resp.authority[j].target
    BY DEF ReferralsAreExact, Returned, resp, q
  <2>1. /\ frame.resp.aa <=> ~GivenAway(db, frame)
        /\ ~frame.resp.aa => Referral(db, frame)
        /\ frame.todo = << >>
    BY DEF AnswerInv, CallInv, ControlInv, ReferralInv
  <2>2. Delegated <=> GivenAway(db, frame)
    BY CutsAreDelegations
  <2>3. \A t : /\ RecordsAt(t, "A") = At(db, frame.zone, t, "A")
               /\ \A rr \in RecordsAt(t, "A") : rr.name = t
    BY DEF RecordsAt, Records, At
  <2>4. \A k : k \notin DOMAIN frame.todo
    BY <2>1
  <2> QED
    BY <2>1, <2>2, <2>3, <2>4 DEF Referral
<1> QED
  BY <1>1, AnswerInvariant, PTL

\* What a negative answer denies is not in the zone: no record of the type and no
\* alias at the name or at a wildcard that covers it, and with NXDOMAIN nothing
\* at the name or below it (engine.cpp:355-381).
THEOREM DenialsFollowTheZone == Spec => []DenialsAreTrue
<1>1. AnswerInv => DenialsAreTrue
  <2> SUFFICES ASSUME AnswerInv, frame.at = "done", frame.resp.rcode # "REFUSED",
                      frame.resp.aa, frame.resp.answers = << >>
               PROVE  /\ RecordsAt(frame.q.qname, frame.q.qtype) = {}
                      /\ RecordsAt(frame.q.qname, "CNAME") = {}
                      /\ \A w \in WildcardOwners :
                           RecordsAt(w, frame.q.qtype) \cup RecordsAt(w, "CNAME") = {}
                      /\ (frame.resp.rcode = "NXDOMAIN")
                           <=> \A rr \in Records : ~IsSubdomainOf(rr.name, frame.q.qname)
    BY DEF DenialsAreTrue, Returned, resp, q
  <2>1. /\ Denied(db, frame)
        /\ (frame.resp.rcode = "NXDOMAIN") <=> ~NameExists(db, frame.zone, frame.q.qname)
        /\ db \in Databases
    BY DEF AnswerInv, CallInv, DenialInv
  <2>2. \A n, t : RecordsAt(n, t) = At(db, frame.zone, n, t)
    BY DEF RecordsAt, Records, At
  <2>3. NameExists(db, frame.zone, frame.q.qname)
          <=> \E rr \in Records : IsSubdomainOf(rr.name, frame.q.qname)
    BY DEF NameExists, Records, ToSet
  <2>4. ASSUME NEW w \in WildcardOwners
        PROVE  \E p \in Above(frame) : w = Wildcard(p)
    <3>1. \A rr \in Records : rr.name \in Name /\ Parent(rr.name) \in Name
      BY <2>1, ZoneRecords, ParentOfName DEF Records
    <3> QED
      BY <3>1 DEF WildcardOwners, Above, q
  <2> QED
    BY <2>1, <2>2, <2>3, <2>4 DEF Denied, NothingAt
<1> QED
  BY <1>1, AnswerInvariant, PTL

\* A wildcard's parent is the name it is the wildcard of.
LEMMA ParentOfWildcard ==
  ASSUME NEW p \in Name
  PROVE  Parent(Wildcard(p)) = p
<1>0. PICK c : c = Wildcard(p)
  OBVIOUS
<1> DEFINE U == STRING \cup {Star}
<1>1. p \in Seq(U) /\ Star \in U
  BY SeqMonotonic DEF Name
<1> HIDE DEF U
<1>2. c \in Seq(U) /\ Len(c) = Len(p) + 1 /\ \A i \in 1 .. Len(p) : c[i + 1] = p[i]
  BY <1>0, <1>1 DEF Wildcard
<1>3. Len(p) \in Nat /\ Len(c) # 0
  BY <1>1, <1>2
<1>4. Parent(c) = SubSeq(c, 2, Len(c))
  BY <1>2, <1>3 DEF Parent, Root
<1>5. SubSeq(c, 2, Len(c)) = p
  BY <1>1, <1>2, <1>3
<1> QED
  BY <1>0, <1>4, <1>5

\* The answers are one chain from the name asked for, of whole sets of records of
\* the zone or of wildcards that cover the name, and none comes with NXDOMAIN
\* (engine.cpp:320-368).
THEOREM AnswersAreChained == Spec => []AnswersFormAChain
<1>1. AnswerInv => AnswersFormAChain
  <2> SUFFICES ASSUME AnswerInv, NEW i \in DOMAIN resp.answers PROVE AnswersForItsSet(resp.answers[i])
    BY DEF AnswerInv, CallInv, ChainInv, Chained, AnswersFormAChain, Returned, resp, q
  <2>0. PICK rr : rr = resp.answers[i]
    OBVIOUS
  <2>1. OfWholeSet(db, frame.zone, q, resp.answers, rr)
    BY <2>0 DEF AnswerInv, SetsInv, WholeSets, resp, q
  <2>2. \A n, t : RecordsAt(n, t) = At(db, frame.zone, n, t) /\ At(db, frame.zone, n, t) \subseteq Records
    BY DEF RecordsAt, At, Records
  <2>3. CASE rr \in At(db, frame.zone, rr.name, rr.type) /\ At(db, frame.zone, rr.name, rr.type) \subseteq ToSet(resp.answers)
    BY <2>0, <2>2, <2>3 DEF AnswersForItsSet
  <2>4. ASSUME NEW p \in Name, NEW t, NEW w \in At(db, frame.zone, Wildcard(p), t),
               IsSubdomainOf(q.qname, p), rr = Synth(w, q.qname),
               \A v \in At(db, frame.zone, Wildcard(p), t) : Synth(v, q.qname) \in ToSet(resp.answers)
        PROVE  AnswersForItsSet(rr)
    <3>1. w.name = Wildcard(p) /\ w.type = t /\ w \in Records
      BY <2>2, <2>4 DEF At
    <3>2. CoversQname(w.name)
      BY <2>4, <3>1, ParentOfWildcard DEF CoversQname
    <3> QED
      BY <2>2, <2>4, <3>1, <3>2 DEF AnswersForItsSet, Synthesized, Synth
  <2>5. CASE q.qtype = "ANY" /\ rr = Hinfo(q.qname)
    BY <2>0, <2>5 DEF AnswersForItsSet
  <2> QED
    BY <2>0, <2>1, <2>3, <2>4, <2>5 DEF OfWholeSet
<1> QED
  BY <1>1, AnswerInvariant, PTL

-----------------------------------------------------------------------------
(* Decoding a name, cell by cell.                                          *)

\* Where decodeName may be: the pointers it has followed, and a position.
Ats == (0 .. MaxJumps + 1) \X Nat

\* What decodeName makes of a place, if read says what it makes of the next one.
Rule(in, read, at) ==
  LET jumps == at[1]
      pos   == at[2]
  IN  IF jumps > MaxJumps \/ pos \notin DOMAIN in THEN Failed
      ELSE LET cell == in[pos]
               rest == IF cell.kind = "pointer" THEN read[<<jumps + 1, cell.to>>]
                                                ELSE read[<<jumps, pos + 1>>]
           IN  CASE cell.kind = "end" -> [ok |-> TRUE, name |-> Root, next |-> pos + 1]
                 [] cell.kind = "label" /\ rest.ok ->
                      [rest EXCEPT !.name = <<cell.label>> \o @]
                 [] cell.kind = "pointer" /\ rest.ok -> [rest EXCEPT !.next = pos + 1]
                 [] OTHER -> Failed

Reading(in, read) == read = [at \in Ats |-> Rule(in, read, at)]
Reader(in) == CHOOSE read : Reading(in, read)

\* A message on the wire: pointers are offsets.
IsSeq(s) == \E S : s \in Seq(S)
IsWire(in) ==
  /\ IsSeq(in)
  /\ Len(in) \in Nat /\ DOMAIN in = 1 .. Len(in)
  /\ \A p \in DOMAIN in : in[p].kind = "pointer" => in[p].to \in Nat

\* read is right from a place on: after more jumps, or as many and further on.
RightFrom(in, read, jumps, pos) ==
  /\ read = [at \in Ats |-> read[at]]
  /\ \A k \in 0 .. MaxJumps + 1, p \in Nat :
       k > jumps \/ (k = jumps /\ p >= pos) => read[<<k, p>>] = Rule(in, read, <<k, p>>)

\* DecodeName is the reader's answer for its offset, before any pointer.
LEMMA DecodeNameReads ==
  ASSUME NEW in, NEW offset
  PROVE  DecodeName(in, offset) = Reader(in)[<<0, offset>>]
BY Zenon DEF DecodeName, Reader, Reading, Rule, Ats

\* Too many pointers, or a place outside the message.
LEMMA NothingBeyond ==
  ASSUME NEW in, NEW read, NEW k, NEW p, k > MaxJumps \/ p \notin DOMAIN in
  PROVE  Rule(in, read, <<k, p>>) = Failed
BY DEF Rule

\* The rule looks at the next position and at places after one more jump.
LEMMA RuleIsLocal ==
  ASSUME NEW in, IsWire(in), NEW read, NEW other, NEW k \in 0 .. MaxJumps + 1, NEW p \in Nat,
         k <= MaxJumps => /\ read[<<k, p + 1>>] = other[<<k, p + 1>>]
                          /\ \A z \in Nat : read[<<k + 1, z>>] = other[<<k + 1, z>>]
  PROVE  Rule(in, read, <<k, p>>) = Rule(in, other, <<k, p>>)
<1>1. CASE k > MaxJumps \/ p \notin DOMAIN in
  BY <1>1 DEF Rule
<1>2. CASE k <= MaxJumps /\ p \in DOMAIN in
  <2>1. in[p].kind = "pointer" => in[p].to \in Nat
    BY <1>2 DEF IsWire
  <2> DEFINE Rest(f) == IF in[p].kind = "pointer" THEN f[<<k + 1, in[p].to>>] ELSE f[<<k, p + 1>>]
  <2>2. Rest(read) = Rest(other)
    BY <1>2, <2>1
  <2>3. \A f : Rule(in, f, <<k, p>>) =
          CASE in[p].kind = "end" -> [ok |-> TRUE, name |-> Root, next |-> p + 1]
            [] in[p].kind = "label" /\ Rest(f).ok -> [Rest(f) EXCEPT !.name = <<in[p].label>> \o @]
            [] in[p].kind = "pointer" /\ Rest(f).ok -> [Rest(f) EXCEPT !.next = p + 1]
            [] OTHER -> Failed
    <3>1. ~(k > MaxJumps \/ p \notin DOMAIN in)
      BY <1>2, CodecAssumption
    <3> QED
      BY <3>1, Zenon DEF Rule
  <2> HIDE DEF Rest
  <2> QED
    BY <2>2, <2>3, Zenon
<1> QED
  BY <1>1, <1>2, CodecAssumption

\* A reader that is right behind a position can be made right from it on.
LEMMA OneMorePosition ==
  ASSUME NEW in, IsWire(in), NEW jumps \in 0 .. MaxJumps + 1, NEW pos \in Nat,
         NEW read, RightFrom(in, read, jumps, pos + 1)
  PROVE  \E other : RightFrom(in, other, jumps, pos)
<1> DEFINE here == Rule(in, read, <<jumps, pos>>)
           other == [at \in Ats |-> IF at = <<jumps, pos>> THEN here ELSE read[at]]
<1>1. \A k \in 0 .. MaxJumps + 1, p \in Nat :
        other[<<k, p>>] = IF k = jumps /\ p = pos THEN here ELSE read[<<k, p>>]
  <2> HIDE DEF here
  <2> QED
    BY DEF Ats
<1>2. other = [at \in Ats |-> other[at]]
  OBVIOUS
<1> HIDE DEF other, here
<1>3. ASSUME NEW k \in 0 .. MaxJumps + 1, NEW p \in Nat, k > jumps \/ (k = jumps /\ p >= pos)
      PROVE  other[<<k, p>>] = Rule(in, other, <<k, p>>)
  <2>1. Rule(in, other, <<k, p>>) = Rule(in, read, <<k, p>>)
    <3>1. k <= MaxJumps => /\ other[<<k, p + 1>>] = read[<<k, p + 1>>]
                           /\ \A z \in Nat : other[<<k + 1, z>>] = read[<<k + 1, z>>]
      BY <1>1, <1>3, CodecAssumption
    <3> QED
      BY <3>1, RuleIsLocal
  <2>2. CASE k = jumps /\ p = pos
    BY <1>1, <2>1, <2>2 DEF here
  <2>3. CASE ~(k = jumps /\ p = pos)
    <3>1. k > jumps \/ (k = jumps /\ p >= pos + 1)
      BY <1>3, <2>3
    <3> QED
      BY <1>1, <2>1, <2>3, <3>1 DEF RightFrom
  <2> QED
    BY <2>2, <2>3
<1>4. RightFrom(in, other, jumps, pos)
  BY <1>2, <1>3 DEF RightFrom
<1> QED
  BY <1>4

\* Behind the message nothing can be read.
LEMMA OneMoreRow ==
  ASSUME NEW in, IsWire(in), NEW jumps \in 0 .. MaxJumps,
         NEW read, RightFrom(in, read, jumps + 1, 0)
  PROVE  \E other : RightFrom(in, other, jumps, Len(in) + 1)
<1> DEFINE other == [at \in Ats |-> IF at[1] = jumps /\ at[2] > Len(in) THEN Failed ELSE read[at]]
<1>1. \A k \in 0 .. MaxJumps + 1, p \in Nat :
        other[<<k, p>>] = IF k = jumps /\ p > Len(in) THEN Failed ELSE read[<<k, p>>]
  BY DEF Ats
<1>2. other = [at \in Ats |-> other[at]]
  OBVIOUS
<1> HIDE DEF other
<1>3. ASSUME NEW k \in 0 .. MaxJumps + 1, NEW p \in Nat,
             k > jumps \/ (k = jumps /\ p >= Len(in) + 1)
      PROVE  other[<<k, p>>] = Rule(in, other, <<k, p>>)
  <2>1. CASE k = jumps
    <3>1. p > Len(in) /\ p \notin DOMAIN in
      BY <1>3, <2>1 DEF IsWire
    <3> QED
      BY <1>1, <2>1, <3>1 DEF Rule
  <2>2. CASE k # jumps
    <3>1. k > jumps /\ k >= jumps + 1 /\ (k = jumps + 1 => p >= 0)
      BY <1>3, <2>2
    <3>2. k <= MaxJumps => /\ other[<<k, p + 1>>] = read[<<k, p + 1>>]
                           /\ \A z \in Nat : other[<<k + 1, z>>] = read[<<k + 1, z>>]
      BY <1>1, <3>1, CodecAssumption
    <3>3. Rule(in, other, <<k, p>>) = Rule(in, read, <<k, p>>)
      BY <3>2, RuleIsLocal
    <3>4. read[<<k, p>>] = Rule(in, read, <<k, p>>)
      BY <3>1 DEF RightFrom
    <3> QED
      BY <1>1, <2>2, <3>3, <3>4
  <2> QED
    BY <2>1, <2>2
<1>4. RightFrom(in, other, jumps, Len(in) + 1)
  BY <1>2, <1>3 DEF RightFrom
<1> QED
  BY <1>4

\* A reader that is right after one more pointer can be made right for a whole row.
LEMMA WholeRow ==
  ASSUME NEW in, IsWire(in), NEW jumps \in 0 .. MaxJumps,
         \E read : RightFrom(in, read, jumps, Len(in) + 1)
  PROVE  \E read : RightFrom(in, read, jumps, 0)
<1> DEFINE n == Len(in) + 1
           Done_ == {m \in Nat : m <= n => \E read : RightFrom(in, read, jumps, n - m)}
<1>0. n \in Nat
  BY DEF IsWire
<1> HIDE DEF n
<1>1. 0 \in Done_
  BY <1>0 DEF n
<1>2. ASSUME NEW m \in Nat, m \in Done_ PROVE m + 1 \in Done_
  <2>1. SUFFICES ASSUME m + 1 <= n PROVE \E read : RightFrom(in, read, jumps, n - (m + 1))
    OBVIOUS
  <2>2. PICK read : RightFrom(in, read, jumps, n - m)
    BY <1>0, <1>2, <2>1
  <2>3. n - (m + 1) \in Nat /\ (n - (m + 1)) + 1 = n - m
    BY <1>0, <2>1
  <2>4. jumps \in 0 .. MaxJumps + 1
    BY CodecAssumption
  <2> QED
    BY <2>2, <2>3, <2>4, OneMorePosition
<1>3. n \in Done_
  <2> HIDE DEF Done_
  <2> QED
    BY <1>0, <1>1, <1>2, NatsBySteps
<1> QED
  BY <1>0, <1>3

\* The table that decodeName computes exists, and is what the rule says.
LEMMA ReaderRule ==
  ASSUME NEW in, IsWire(in), NEW k \in 0 .. MaxJumps + 1, NEW p \in Nat
  PROVE  Reader(in)[<<k, p>>] = Rule(in, Reader(in), <<k, p>>)
<1> DEFINE n == MaxJumps + 1
           Rows == {m \in Nat : m <= n => \E read : RightFrom(in, read, n - m, 0)}
<1>0. n \in Nat
  BY CodecAssumption
<1>1. 0 \in Rows
  <2> DEFINE read == [at \in Ats |-> Failed]
  <2>1. \A j \in 0 .. MaxJumps + 1, z \in Nat : read[<<j, z>>] = Failed
    BY DEF Ats
  <2>2. read = [at \in Ats |-> read[at]]
    OBVIOUS
  <2> HIDE DEF read
  <2>3. ASSUME NEW j \in 0 .. MaxJumps + 1, NEW z \in Nat,
               j > n - 0 \/ (j = n - 0 /\ z >= 0)
        PROVE  read[<<j, z>>] = Rule(in, read, <<j, z>>)
    <3>1. j > MaxJumps
      BY <2>3, CodecAssumption
    <3> QED
      BY <2>1, <3>1, NothingBeyond
  <2>4. RightFrom(in, read, n - 0, 0)
    BY <2>2, <2>3 DEF RightFrom
  <2> QED
    BY <2>4
<1>2. ASSUME NEW m \in Nat, m \in Rows PROVE m + 1 \in Rows
  <2>1. SUFFICES ASSUME m + 1 <= n PROVE \E read : RightFrom(in, read, n - (m + 1), 0)
    OBVIOUS
  <2>2. PICK read : RightFrom(in, read, n - m, 0)
    BY <1>0, <1>2, <2>1
  <2>3. n - (m + 1) \in 0 .. MaxJumps /\ (n - (m + 1)) + 1 = n - m
    BY <1>0, <2>1, CodecAssumption
  <2> HIDE DEF n
  <2> QED
    BY <2>2, <2>3, OneMoreRow, WholeRow
<1>3. n \in Rows
  <2> HIDE DEF Rows, n
  <2> QED
    BY <1>0, <1>1, <1>2, NatsBySteps
<1>4. PICK read : RightFrom(in, read, 0, 0)
  BY <1>0, <1>3
<1>5. Reading(in, read)
  <2>1. \A at \in Ats : /\ at[1] \in 0 .. MaxJumps + 1 /\ at[2] \in Nat
                        /\ at = <<at[1], at[2]>>
    BY DEF Ats
  <2>2. ASSUME NEW at \in Ats PROVE read[at] = Rule(in, read, at)
    <3>1. at[1] > 0 \/ (at[1] = 0 /\ at[2] >= 0)
      BY <2>1
    <3> QED
      BY <1>4, <2>1, <3>1 DEF RightFrom
  <2>3. read = [at \in Ats |-> read[at]]
    BY <1>4 DEF RightFrom
  <2> QED
    BY <2>2, <2>3, Zenon DEF Reading
<1>6. Reading(in, Reader(in))
  BY <1>5, Zenon DEF Reader
<1>7. <<k, p>> \in Ats
  BY DEF Ats
<1> QED
  BY <1>6, <1>7, Zenon DEF Reading

\* What one cell says.
LEMMA EndSays ==
  ASSUME NEW in, IsWire(in), NEW k \in 0 .. MaxJumps, NEW p \in DOMAIN in, in[p] = End
  PROVE  Reader(in)[<<k, p>>] = [ok |-> TRUE, name |-> Root, next |-> p + 1]
<1>1. p \in Nat /\ k \in 0 .. MaxJumps + 1 /\ ~(k > MaxJumps \/ p \notin DOMAIN in)
  BY CodecAssumption DEF IsWire
<1>2. in[p].kind = "end"
  BY DEF End
<1>3. \A read : Rule(in, read, <<k, p>>) = [ok |-> TRUE, name |-> Root, next |-> p + 1]
  <2>1. "end" # "label" /\ "end" # "pointer"
    OBVIOUS
  <2> QED
    BY <1>1, <1>2, <2>1, Zenon DEF Rule
<1> QED
  BY <1>1, <1>3, ReaderRule

\* A label stands before what is read behind it.
LEMMA LabelSays ==
  ASSUME NEW in, IsWire(in), NEW k \in 0 .. MaxJumps, NEW p \in DOMAIN in, NEW label,
         in[p] = Label(label)
  PROVE  LET rest == Reader(in)[<<k, p + 1>>]
         IN  Reader(in)[<<k, p>>] =
               IF rest.ok THEN [rest EXCEPT !.name = <<label>> \o @] ELSE Failed
<1>1. p \in Nat /\ k \in 0 .. MaxJumps + 1 /\ ~(k > MaxJumps \/ p \notin DOMAIN in)
  BY CodecAssumption DEF IsWire
<1>2. in[p].kind = "label" /\ in[p].label = label
  BY DEF Label
<1>3. \A read : Rule(in, read, <<k, p>>) =
                  IF read[<<k, p + 1>>].ok
                  THEN [read[<<k, p + 1>>] EXCEPT !.name = <<label>> \o @] ELSE Failed
  <2>1. "label" # "end" /\ "label" # "pointer"
    OBVIOUS
  <2> QED
    BY <1>1, <1>2, <2>1, Zenon DEF Rule
<1>4. Reader(in)[<<k, p>>] = Rule(in, Reader(in), <<k, p>>)
  BY <1>1, ReaderRule
<1> QED
  BY <1>3, <1>4, Zenon

\* A pointer is read where it leads to, and the name ends behind the pointer.
LEMMA PointerSays ==
  ASSUME NEW in, IsWire(in), NEW k \in 0 .. MaxJumps, NEW p \in DOMAIN in, NEW to \in Nat,
         to <= MaxOffset, in[p] = Pointer(to)
  PROVE  LET rest == Reader(in)[<<k + 1, to>>]
         IN  Reader(in)[<<k, p>>] =
               IF rest.ok THEN [rest EXCEPT !.next = p + 1] ELSE Failed
<1>1. p \in Nat /\ k \in 0 .. MaxJumps + 1 /\ ~(k > MaxJumps \/ p \notin DOMAIN in)
  BY CodecAssumption DEF IsWire
<1>2. in[p].kind = "pointer" /\ in[p].to = to
  <2>1. to % (MaxOffset + 1) = to
    BY CodecAssumption
  <2> QED
    BY <2>1 DEF Pointer
<1>3. \A read : Rule(in, read, <<k, p>>) =
                  IF read[<<k + 1, to>>].ok
                  THEN [read[<<k + 1, to>>] EXCEPT !.next = p + 1] ELSE Failed
  <2>1. "pointer" # "end" /\ "pointer" # "label"
    OBVIOUS
  <2> QED
    BY <1>1, <1>2, <2>1, Zenon DEF Rule
<1>4. Reader(in)[<<k, p>>] = Rule(in, Reader(in), <<k, p>>)
  BY <1>1, ReaderRule
<1> QED
  BY <1>3, <1>4, Zenon

\* in begins as out does, but for the header.
Carries(in, out) == Len(out) <= Len(in) /\ \A p \in 2 .. Len(out) : in[p] = out[p]

\* At p is a name that takes j pointers, wherever more is written behind it; a
\* decoder goes on at nx.
Reads(out, p, name, j, nx) ==
  /\ p \in 2 .. Len(out) /\ j \in Nat /\ nx \in Nat
  /\ \A in, k : IsWire(in) /\ Carries(in, out) /\ k \in 0 .. MaxJumps + 1 =>
       Reader(in)[<<k, p>>] =
         IF k + j > MaxJumps THEN Failed ELSE [ok |-> TRUE, name |-> name, next |-> nx]

\* After too many pointers nothing is read.
LEMMA TooFar ==
  ASSUME NEW in, IsWire(in), NEW k \in 0 .. MaxJumps + 1, k > MaxJumps, NEW p \in Nat
  PROVE  Reader(in)[<<k, p>>] = Failed
BY ReaderRule, NothingBeyond

\* A position of out is one of in.
LEMMA CarriedCells ==
  ASSUME NEW in, NEW out, IsWire(in), IsWire(out), Carries(in, out), NEW p \in 2 .. Len(out)
  PROVE  p \in Nat /\ p \in DOMAIN in /\ in[p] = out[p]
BY DEF IsWire, Carries

\* The end of a name is read in every message that carries it; so are the next two.
LEMMA ReadsEnd ==
  ASSUME NEW out, IsWire(out), NEW p \in 2 .. Len(out), out[p] = End
  PROVE  Reads(out, p, Root, 0, p + 1)
<1>1. ASSUME NEW in, NEW k, IsWire(in), Carries(in, out), k \in 0 .. MaxJumps + 1
      PROVE  Reader(in)[<<k, p>>] =
               IF k + 0 > MaxJumps THEN Failed ELSE [ok |-> TRUE, name |-> Root, next |-> p + 1]
  <2>1. p \in Nat /\ p \in DOMAIN in /\ in[p] = End
    BY <1>1, CarriedCells
  <2>2. CASE k > MaxJumps
    BY <1>1, <2>1, <2>2, TooFar, CodecAssumption
  <2>3. CASE k <= MaxJumps
    <3>1. k \in 0 .. MaxJumps /\ ~(k + 0 > MaxJumps)
      BY <1>1, <2>3, CodecAssumption
    <3> QED
      BY <1>1, <2>1, <3>1, EndSays
  <2> QED
    BY <1>1, <2>2, <2>3, CodecAssumption
<1>2. p + 1 \in Nat /\ 0 \in Nat
  BY DEF IsWire
<1> QED
  BY <1>1, <1>2 DEF Reads

\* A label before a name that is read.
LEMMA ReadsLabel ==
  ASSUME NEW out, IsWire(out), NEW p \in 2 .. Len(out), NEW label, NEW name, NEW j, NEW nx,
         out[p] = Label(label), Reads(out, p + 1, name, j, nx)
  PROVE  Reads(out, p, <<label>> \o name, j, nx)
<1>1. ASSUME NEW in, NEW k, IsWire(in), Carries(in, out), k \in 0 .. MaxJumps + 1
      PROVE  Reader(in)[<<k, p>>] =
               IF k + j > MaxJumps THEN Failed
               ELSE [ok |-> TRUE, name |-> <<label>> \o name, next |-> nx]
  <2>1. p \in Nat /\ p \in DOMAIN in /\ in[p] = Label(label)
    BY <1>1, CarriedCells
  <2>2. Reader(in)[<<k, p + 1>>] =
          IF k + j > MaxJumps THEN Failed ELSE [ok |-> TRUE, name |-> name, next |-> nx]
    BY <1>1 DEF Reads
  <2>3. CASE k > MaxJumps
    <3>1. k + j > MaxJumps
      BY <1>1, <2>3, CodecAssumption DEF Reads
    <3> QED
      BY <1>1, <2>1, <2>3, <3>1, TooFar
  <2>4. CASE k <= MaxJumps
    <3>1. k \in 0 .. MaxJumps
      BY <1>1, <2>4, CodecAssumption
    <3> DEFINE rest == Reader(in)[<<k, p + 1>>]
    <3>2. Reader(in)[<<k, p>>] = IF rest.ok THEN [rest EXCEPT !.name = <<label>> \o @] ELSE Failed
      BY <1>1, <2>1, <3>1, LabelSays, Zenon
    <3> HIDE DEF rest
    <3>3. CASE k + j > MaxJumps
      BY <2>2, <3>2, <3>3 DEF rest, Failed
    <3>4. CASE ~(k + j > MaxJumps)
      <4>1. rest = [ok |-> TRUE, name |-> name, next |-> nx]
        BY <2>2, <3>4 DEF rest
      <4> QED
        BY <3>2, <3>4, <4>1
    <3> QED
      BY <3>3, <3>4
  <2> QED
    BY <1>1, <2>3, <2>4, CodecAssumption
<1>2. j \in Nat /\ nx \in Nat
  BY DEF Reads
<1> QED
  BY <1>1, <1>2 DEF Reads

\* A pointer to a name that is read: one pointer more.
LEMMA ReadsPointer ==
  ASSUME NEW out, IsWire(out), NEW p \in 2 .. Len(out), NEW to, to <= MaxOffset, NEW name,
         NEW j, NEW nx, out[p] = Pointer(to), Reads(out, to, name, j, nx)
  PROVE  Reads(out, p, name, j + 1, p + 1)
<1>0. to \in Nat /\ j \in Nat /\ nx \in Nat /\ p \in Nat
  BY DEF Reads, IsWire
<1>1. ASSUME NEW in, NEW k, IsWire(in), Carries(in, out), k \in 0 .. MaxJumps + 1
      PROVE  Reader(in)[<<k, p>>] =
               IF k + (j + 1) > MaxJumps THEN Failed
               ELSE [ok |-> TRUE, name |-> name, next |-> p + 1]
  <2>1. p \in Nat /\ p \in DOMAIN in /\ in[p] = Pointer(to)
    BY <1>1, CarriedCells
  <2>3. CASE k > MaxJumps
    <3>1. k + (j + 1) > MaxJumps
      BY <1>0, <1>1, <2>3, CodecAssumption
    <3> QED
      BY <1>1, <2>1, <2>3, <3>1, TooFar
  <2>4. CASE k <= MaxJumps
    <3>1. k \in 0 .. MaxJumps /\ k + 1 \in 0 .. MaxJumps + 1
      BY <1>1, <2>4, CodecAssumption
    <3> DEFINE rest == Reader(in)[<<k + 1, to>>]
    <3>2. Reader(in)[<<k, p>>] = IF rest.ok THEN [rest EXCEPT !.next = p + 1] ELSE Failed
      BY <1>0, <1>1, <2>1, <3>1, PointerSays, Zenon
    <3>3. rest = IF (k + 1) + j > MaxJumps THEN Failed
                 ELSE [ok |-> TRUE, name |-> name, next |-> nx]
      BY <1>1, <3>1 DEF Reads
    <3>4. (k + 1) + j > MaxJumps <=> k + (j + 1) > MaxJumps
      BY <1>0, <3>1, CodecAssumption
    <3> HIDE DEF rest
    <3>5. CASE (k + 1) + j > MaxJumps
      BY <3>2, <3>3, <3>4, <3>5 DEF Failed
    <3>6. CASE ~((k + 1) + j > MaxJumps)
      <4>1. rest = [ok |-> TRUE, name |-> name, next |-> nx]
        BY <3>3, <3>6
      <4> QED
        BY <3>2, <3>4, <3>6, <4>1
    <3> QED
      BY <3>5, <3>6
  <2> QED
    BY <1>1, <2>3, <2>4, CodecAssumption
<1>2. j + 1 \in Nat /\ p + 1 \in Nat
  BY <1>0
<1> DEFINE more == j + 1
           after == p + 1
<1> HIDE DEF more, after
<1>3. ASSUME NEW in, NEW k, IsWire(in), Carries(in, out), k \in 0 .. MaxJumps + 1
      PROVE  Reader(in)[<<k, p>>] =
               IF k + more > MaxJumps THEN Failed
               ELSE [ok |-> TRUE, name |-> name, next |-> after]
  BY <1>1, <1>3 DEF more, after
<1>4. Reads(out, p, name, more, after)
  BY <1>2, <1>3 DEF Reads, more, after
<1> QED
  BY <1>4 DEF more, after

\* Nothing that is written behind a name changes it.
LEMMA ReadsStill ==
  ASSUME NEW out, NEW more, IsWire(out), IsWire(more), Carries(more, out),
         NEW p, NEW name, NEW j, NEW nx, Reads(out, p, name, j, nx)
  PROVE  Reads(more, p, name, j, nx)
<1>1. ASSUME NEW in, IsWire(in), Carries(in, more) PROVE Carries(in, out)
  BY <1>1 DEF Carries, IsWire
<1>2. p \in 2 .. Len(more)
  BY DEF Reads, Carries, IsWire
<1> QED
  BY <1>1, <1>2 DEF Reads

-----------------------------------------------------------------------------
(* Suffixes of names.                                                      *)

\* A suffix is a name above the whole.
LEMMA SuffixOf ==
  ASSUME NEW name \in Name, NEW i \in 1 .. Len(name) + 1
  PROVE  /\ Suffix(name, i) \in Name
         /\ Len(Suffix(name, i)) = Len(name) - i + 1
         /\ \A k \in 1 .. Len(name) - i + 1 : Suffix(name, i)[k] = name[i + k - 1]
         /\ IsSubdomainOf(name, Suffix(name, i))
<1>1. Len(name) \in Nat
  BY DEF Name
<1>2. /\ Suffix(name, i) \in Name
      /\ Len(Suffix(name, i)) = Len(name) - i + 1
      /\ \A k \in 1 .. Len(name) - i + 1 : Suffix(name, i)[k] = name[i + k - 1]
  BY <1>1, SubSeqProperties DEF Name, Suffix
<1> QED
  BY <1>1, <1>2 DEF IsSubdomainOf

\* The longest and the shortest suffix.
LEMMA SuffixWhole ==
  ASSUME NEW name \in Name
  PROVE  Suffix(name, 1) = name /\ Suffix(name, Len(name) + 1) = Root
<1>1. Len(name) \in Nat
  BY DEF Name
<1>2. Suffix(name, 1) = name
  <2>1. Suffix(name, 1) \in Seq(STRING) /\ Len(Suffix(name, 1)) = Len(name)
    BY <1>1, SuffixOf DEF Name
  <2>2. \A k \in 1 .. Len(name) : Suffix(name, 1)[k] = name[k]
    BY <1>1, SuffixOf
  <2> QED
    BY <2>1, <2>2, SeqEqual DEF Name
<1>3. Suffix(name, Len(name) + 1) \in Seq(STRING) /\ Len(Suffix(name, Len(name) + 1)) = 0
  BY <1>1, SuffixOf DEF Name
<1> QED
  BY <1>2, <1>3, EmptySeq DEF Root

\* A suffix is its first label and the next suffix.
LEMMA SuffixLonger ==
  ASSUME NEW name \in Name, NEW i \in 1 .. Len(name)
  PROVE  Suffix(name, i) = <<name[i]>> \o Suffix(name, i + 1)
<1> DEFINE rest == Suffix(name, i + 1)
           both == <<name[i]>> \o rest
<1>1. Len(name) \in Nat /\ name[i] \in STRING
  BY DEF Name
<1>2. /\ rest \in Seq(STRING) /\ Len(rest) = Len(name) - i
      /\ \A k \in 1 .. Len(name) - i : rest[k] = name[i + k]
  BY <1>1, SuffixOf DEF Name
<1>3. <<name[i]>> \in Seq(STRING) /\ Len(<<name[i]>>) = 1 /\ <<name[i]>>[1] = name[i]
  BY <1>1
<1> HIDE DEF rest
<1>4. /\ both \in Seq(STRING) /\ Len(both) = 1 + Len(rest)
      /\ both[1] = name[i] /\ \A k \in 2 .. Len(name) - i + 1 : both[k] = rest[k - 1]
  <2> DEFINE first == <<name[i]>>
  <2> HIDE DEF first
  <2>1. first \in Seq(STRING) /\ Len(first) = 1 /\ first[1] = name[i]
    BY <1>3 DEF first
  <2>2. /\ first \o rest \in Seq(STRING) /\ Len(first \o rest) = 1 + Len(rest)
        /\ \A k \in 1 .. 1 + Len(rest) :
             (first \o rest)[k] = IF k <= 1 THEN first[k] ELSE rest[k - 1]
    <3>1. /\ first \o rest \in Seq(STRING) /\ Len(first \o rest) = Len(first) + Len(rest)
          /\ \A k \in 1 .. Len(first) + Len(rest) :
               (first \o rest)[k] = IF k <= Len(first) THEN first[k] ELSE rest[k - Len(first)]
      BY <1>2, <2>1, ConcatProperties, Zenon
    <3> HIDE DEF first
    <3> DEFINE all == first \o rest
    <3> HIDE DEF all
    <3>2. /\ all \in Seq(STRING) /\ Len(all) = Len(first) + Len(rest)
          /\ \A k \in 1 .. Len(first) + Len(rest) :
               all[k] = IF k <= Len(first) THEN first[k] ELSE rest[k - Len(first)]
      BY <3>1 DEF all
    <3>3. /\ all \in Seq(STRING) /\ Len(all) = 1 + Len(rest)
          /\ \A k \in 1 .. 1 + Len(rest) : all[k] = IF k <= 1 THEN first[k] ELSE rest[k - 1]
      BY <2>1, <3>2
    <3> QED
      BY <3>3 DEF all
  <2>3. (first \o rest)[1] = name[i]
    BY <1>1, <1>2, <2>1, <2>2
  <2>4. \A k \in 2 .. Len(name) - i + 1 : (first \o rest)[k] = rest[k - 1]
    BY <1>1, <1>2, <2>2
  <2> QED
    BY <2>2, <2>3, <2>4 DEF first
<1>5. /\ Suffix(name, i) \in Seq(STRING) /\ Len(Suffix(name, i)) = Len(name) - i + 1
      /\ \A k \in 1 .. Len(name) - i + 1 : Suffix(name, i)[k] = name[i + k - 1]
  BY <1>1, SuffixOf DEF Name
<1> HIDE DEF both
<1>6. ASSUME NEW k \in 1 .. Len(name) - i + 1 PROVE both[k] = Suffix(name, i)[k]
  <2>1. CASE k = 1
    BY <1>1, <1>4, <1>5, <2>1
  <2>2. CASE k # 1
    <3>1. k \in 2 .. Len(name) - i + 1 /\ k - 1 \in 1 .. Len(name) - i
      BY <1>1, <2>2
    <3>2. i + (k - 1) = i + k - 1
      BY <3>1
    <3> QED
      BY <1>2, <1>4, <1>5, <3>1, <3>2
  <2> QED
    BY <2>1, <2>2
<1>7. Suffix(name, i) = both
  BY <1>1, <1>2, <1>4, <1>5, <1>6, SeqEqual
<1> QED
  BY <1>7 DEF both, rest

\* Labels before a place where the rest of a name is.
LEMMA ReadsLabels ==
  ASSUME NEW name \in Name, NEW written \in 0 .. Len(name), NEW out, IsWire(out),
         NEW z \in 2 .. Len(out), z - written >= 2, NEW j, NEW nx,
         Reads(out, z, Suffix(name, written + 1), j, nx),
         \A i \in 1 .. written : out[z - written + i - 1] = Label(name[i])
  PROVE  \A i \in 1 .. written + 1 : Reads(out, z - written + i - 1, Suffix(name, i), j, nx)
<1>0. Len(name) \in Nat /\ written \in Nat /\ z \in Nat
  BY DEF Name, IsWire
<1> DEFINE Good == {m \in Nat : m <= written =>
                      Reads(out, z - m, Suffix(name, written + 1 - m), j, nx)}
<1>1. 0 \in Good
  BY <1>0
<1>2. ASSUME NEW m \in Nat, m \in Good PROVE m + 1 \in Good
  <2>1. SUFFICES ASSUME m + 1 <= written
                 PROVE  Reads(out, z - (m + 1), Suffix(name, written + 1 - (m + 1)), j, nx)
    OBVIOUS
  <2> DEFINE i == written - m
  <2>2. i \in 1 .. written /\ i \in 1 .. Len(name) /\ z - (m + 1) = z - written + i - 1
    BY <1>0, <2>1
  <2>3. /\ z - (m + 1) \in 2 .. Len(out) /\ (z - (m + 1)) + 1 = z - m
        /\ written + 1 - (m + 1) = i /\ written + 1 - m = i + 1
    <3>1. Len(out) \in Nat
      BY DEF IsWire
    <3>2. z - (m + 1) >= 2 /\ z - (m + 1) <= Len(out) /\ z - (m + 1) \in Int
      BY <1>0, <2>1, <3>1
    <3>3. (z - (m + 1)) + 1 = z - m /\ written + 1 - (m + 1) = i /\ written + 1 - m = i + 1
      BY <1>0
    <3> QED
      BY <3>1, <3>2, <3>3
  <2>4. out[z - (m + 1)] = Label(name[i])
    BY <2>2
  <2>5. Reads(out, z - m, Suffix(name, i + 1), j, nx)
    BY <1>0, <1>2, <2>1, <2>3
  <2> HIDE DEF i
  <2>6. Reads(out, z - (m + 1), <<name[i]>> \o Suffix(name, i + 1), j, nx)
    BY <2>3, <2>4, <2>5, ReadsLabel
  <2> QED
    BY <2>2, <2>3, <2>6, SuffixLonger
<1>3. ASSUME NEW i \in 1 .. written + 1
      PROVE  Reads(out, z - written + i - 1, Suffix(name, i), j, nx)
  <2>1. /\ written + 1 - i \in Nat /\ written + 1 - i <= written
        /\ z - (written + 1 - i) = z - written + i - 1
        /\ written + 1 - (written + 1 - i) = i
    BY <1>0
  <2>2. written + 1 - i \in Good
    <3> HIDE DEF Good
    <3> QED
      BY <1>1, <1>2, <2>1, NatsBySteps
  <2> QED
    BY <2>1, <2>2
<1> QED
  BY <1>3

\* all is one sequence followed by another.
Joined(all, out, more) == all = out \o more

\* The length and the members of two sequences behind each other.
LEMMA SeqsConcat ==
  ASSUME NEW s, NEW t, NEW u, Joined(u, s, t), IsSeq(s), IsSeq(t)
  PROVE  /\ IsSeq(u) /\ Len(s) \in Nat /\ Len(t) \in Nat
         /\ Len(u) = Len(s) + Len(t) /\ DOMAIN u = 1 .. Len(s) + Len(t)
         /\ \A k \in 1 .. Len(s) : u[k] = s[k]
         /\ \A k \in 1 .. Len(t) : u[Len(s) + k] = t[k]
<1>1. PICK S, T : s \in Seq(S) /\ t \in Seq(T)
  BY DEF IsSeq
<1> DEFINE U == S \cup T
<1>2. s \in Seq(U) /\ t \in Seq(U)
  BY <1>1, SeqMonotonic
<1> HIDE DEF U
<1>3. /\ s \o t \in Seq(U) /\ Len(s \o t) = Len(s) + Len(t)
      /\ \A i \in 1 .. Len(s) + Len(t) : (s \o t)[i] = IF i <= Len(s) THEN s[i] ELSE t[i - Len(s)]
  BY <1>2, ConcatProperties, Zenon
<1>4. Len(s) \in Nat /\ Len(t) \in Nat /\ DOMAIN (s \o t) = 1 .. Len(s \o t)
  BY <1>2, <1>3, LenProperties
<1>5. /\ Len(u) = Len(s) + Len(t)
      /\ \A i \in 1 .. Len(s) + Len(t) : u[i] = IF i <= Len(s) THEN s[i] ELSE t[i - Len(s)]
  BY <1>3 DEF Joined
<1>6. /\ \A k \in 1 .. Len(s) : u[k] = s[k]
      /\ \A k \in 1 .. Len(t) : u[Len(s) + k] = t[k]
  BY <1>4, <1>5
<1>7. IsSeq(u)
  BY <1>3 DEF Joined, IsSeq
<1> QED
  BY <1>3, <1>4, <1>6, <1>7 DEF Joined

\* Names above a name are its suffixes.
LEMMA SuffixesOnly ==
  ASSUME NEW a \in Name, NEW t \in Name, IsSubdomainOf(a, t)
  PROVE  /\ Len(a) - Len(t) + 1 \in 1 .. Len(a) + 1
         /\ t = Suffix(a, Len(a) - Len(t) + 1)
<1> DEFINE i == Len(a) - Len(t) + 1
<1>1. Len(a) \in Nat /\ Len(t) \in Nat /\ Len(a) >= Len(t)
  BY DEF Name, IsSubdomainOf
<1>2. i \in 1 .. Len(a) + 1 /\ Len(a) - i + 1 = Len(t)
  BY <1>1
<1> HIDE DEF i
<1>3. /\ Suffix(a, i) \in Name /\ Len(Suffix(a, i)) = Len(t)
      /\ IsSubdomainOf(a, Suffix(a, i))
  BY <1>2, SuffixOf
<1>4. t = Suffix(a, i)
  BY <1>3, AboveEachOther
<1> QED
  BY <1>2, <1>4 DEF i

-----------------------------------------------------------------------------
(* Shared names, and chains of them.                                       *)

\* The common ancestor of two names is the deepest name above both.
LEMMA CommonAncestorIs ==
  ASSUME NEW a \in Name, NEW b \in Name, NEW s \in Name, IsSubdomainOf(a, s), IsSubdomainOf(b, s),
         \A t \in Name : IsSubdomainOf(a, t) /\ IsSubdomainOf(b, t) => Len(t) <= Len(s)
  PROVE  CommonAncestor(a, b) = s
<1> DEFINE names == {n \in {Suffix(a, i) : i \in 1 .. Len(a) + 1} : IsSubdomainOf(b, n)}
<1>1. s \in names
  BY SuffixesOnly
<1>2. \A n \in names : n \in Name /\ IsSubdomainOf(a, n) /\ IsSubdomainOf(b, n)
  BY SuffixOf
<1>3. CommonAncestor(a, b) = Deepest(names)
  BY DEF CommonAncestor
<1> HIDE DEF names
<1>4. \A n \in names : Len(n) <= Len(s)
  BY <1>2
<1>5. Deepest(names) \in names /\ \A n \in names : Len(n) <= Len(Deepest(names))
  BY <1>1, <1>4, Zenon DEF Deepest
<1>6. Len(Deepest(names)) = Len(s)
  <2>1. Len(Deepest(names)) \in Nat /\ Len(s) \in Nat
    BY <1>2, <1>5 DEF Name
  <2> QED
    BY <1>1, <1>4, <1>5, <2>1
<1> QED
  BY <1>2, <1>3, <1>5, <1>6, AboveEachOther

\* Names above each other, shared by the names N, and all of them above s.
Chain(C, N, s, j) ==
  /\ C \subseteq Shared(N) \cap Name /\ IsFiniteSet(C) /\ Cardinality(C) = j /\ Nested(C)
  /\ \A c \in C : IsSubdomainOf(s, c)

\* s itself is none of them.
ChainAbove(C, N, s, j) == Chain(C, N, s, j) /\ \A c \in C : Len(c) < Len(s)

\* What some names share is shared by more of them.
LEMMA SharedByMore ==
  ASSUME NEW N, NEW M, N \subseteq M
  PROVE  /\ Shared(N) \subseteq Shared(M)
         /\ \A C, s, j : Chain(C, N, s, j) => Chain(C, M, s, j)
         /\ \A C, s, j : ChainAbove(C, N, s, j) => ChainAbove(C, M, s, j)
<1>1. Shared(N) \subseteq Shared(M)
  BY DEF Shared
<1>2. \A C, s, j : Chain(C, N, s, j) => Chain(C, M, s, j)
  BY <1>1 DEF Chain
<1> QED
  BY <1>1, <1>2 DEF ChainAbove

\* No name is a chain of its own.
LEMMA NoChain ==
  ASSUME NEW N, NEW s
  PROVE  Chain({}, N, s, 0) /\ ChainAbove({}, N, s, 0)
BY FS_EmptySet DEF Chain, ChainAbove, Nested

\* A shared name below a chain makes it longer.
LEMMA ChainWith ==
  ASSUME NEW N, NEW s \in Name, s \in Shared(N), NEW j \in Nat, NEW C, ChainAbove(C, N, s, j)
  PROVE  Chain(C \cup {s}, N, s, j + 1)
<1>1. s \notin C
  BY DEF ChainAbove, Name
<1>2. IsFiniteSet(C \cup {s}) /\ Cardinality(C \cup {s}) = j + 1
  BY <1>1, FS_AddElement DEF ChainAbove, Chain
<1>3. IsSubdomainOf(s, s)
  BY BelowItself
<1>4. C \cup {s} \subseteq Shared(N) \cap Name
  BY DEF ChainAbove, Chain
<1>5. \A c \in C \cup {s} : IsSubdomainOf(s, c)
  BY <1>3 DEF ChainAbove, Chain
<1>6. Nested(C \cup {s})
  BY <1>5 DEF ChainAbove, Chain, Nested
<1> QED
  BY <1>2, <1>4, <1>5, <1>6 DEF Chain

\* What is above a name is above the names below it.
LEMMA ChainOfLonger ==
  ASSUME NEW N, NEW s \in Name, NEW t \in Name, IsSubdomainOf(t, s), NEW j, NEW C, Chain(C, N, s, j)
  PROVE  /\ Chain(C, N, t, j)
         /\ Len(s) < Len(t) => ChainAbove(C, N, t, j)
<1>1. ASSUME NEW c \in C PROVE IsSubdomainOf(t, c) /\ Len(c) <= Len(s)
  <2>1. c \in Name /\ IsSubdomainOf(s, c)
    BY DEF Chain
  <2>2. /\ Len(c) \in Nat /\ Len(s) \in Nat /\ Len(t) \in Nat
        /\ Len(c) <= Len(s) /\ Len(s) <= Len(t)
        /\ \A i \in 1 .. Len(c) : s[Len(s) - Len(c) + i] = c[i]
        /\ \A i \in 1 .. Len(s) : t[Len(t) - Len(s) + i] = s[i]
    BY <2>1 DEF IsSubdomainOf, Name
  <2>3. ASSUME NEW i \in 1 .. Len(c) PROVE t[Len(t) - Len(c) + i] = c[i]
    <3> DEFINE k == Len(s) - Len(c) + i
    <3>1. k \in 1 .. Len(s) /\ Len(t) - Len(s) + k = Len(t) - Len(c) + i
      BY <2>2
    <3>2. s[k] = c[i]
      BY <2>2
    <3> HIDE DEF k
    <3> QED
      BY <2>2, <3>1, <3>2
  <2> QED
    BY <2>2, <2>3 DEF IsSubdomainOf
<1>2. Chain(C, N, t, j)
  BY <1>1 DEF Chain
<1>3. ASSUME Len(s) < Len(t), NEW c \in C PROVE Len(c) < Len(t)
  <2>1. c \in Name
    BY DEF Chain
  <2> QED
    BY <1>1, <1>3, <2>1 DEF Name
<1> QED
  BY <1>2, <1>3 DEF ChainAbove

-----------------------------------------------------------------------------
(* Encoding a name.                                                        *)

\* The numbers have least members.
LEMMA LeastNumber ==
  ASSUME NEW S \in SUBSET Nat, S # {}
  PROVE  Min(S) \in S /\ \A x \in S : Min(S) <= x
<1>1. PICK m \in S : \A k \in S : ~(<<k, m>> \in OpToRel(<, Nat))
  <2>1. IsWellFoundedOn(OpToRel(<, Nat), Nat)
    BY NatLessThanWellFounded
  <2> QED
    BY <2>1, WFMin
<1>2. ASSUME NEW x \in S PROVE m <= x
  <2>1. x \in Nat /\ m \in Nat
    OBVIOUS
  <2>2. ~(x < m)
    <3>1. ~(<<x, m>> \in OpToRel(<, Nat))
      BY <1>1
    <3> QED
      BY <2>1, <3>1 DEF OpToRel
  <2> QED
    BY <2>1, <2>2
<1> QED
  BY <1>2, Zenon DEF Min

\* What EncodeName calls known, written, last and fresh.
Known(w, name) == {i \in DOMAIN name : Suffix(name, i) \in DOMAIN w.compression}
Labels(w, name) == IF Known(w, name) = {} THEN Len(name) ELSE Min(Known(w, name)) - 1
LastCell(w, name) ==
  IF Known(w, name) = {} THEN End ELSE Pointer(w.compression[Suffix(name, Labels(w, name) + 1)])
Fresh(w, name) == Remembered(w, name, Labels(w, name))

\* What is remembered of a name that was written can be read, over as many
\* pointers as it has shared names above it; and so are all longer names that
\* this one ends with.
Recalls(w, N, s) ==
  /\ s \in Name /\ s # Root /\ w.compression[s] <= MaxOffset
  /\ \E j, nx, C : Reads(w.out, w.compression[s], s, j, nx) /\ ChainAbove(C, N, s, j)
  /\ \E a \in N :
       /\ IsSubdomainOf(a, s)
       /\ \A t \in Name : IsSubdomainOf(a, t) /\ Len(t) >= Len(s) => t \in DOMAIN w.compression

\* The names N have been written.
Remembers(w, N) ==
  /\ w = [out |-> w.out, compression |-> w.compression]
  /\ IsWire(w.out) /\ Len(w.out) >= 1 /\ N \subseteq Name
  /\ \A s \in DOMAIN w.compression : Recalls(w, N, s)

\* How many labels are written, and what is known of the rest.
LEMMA KnownOrNot ==
  ASSUME NEW w, NEW name \in Name
  PROVE  /\ Labels(w, name) \in 0 .. Len(name) /\ Len(name) \in Nat
         /\ \A i \in 1 .. Labels(w, name) : Suffix(name, i) \notin DOMAIN w.compression
         /\ Known(w, name) = {} => Labels(w, name) = Len(name)
         /\ Known(w, name) # {} => /\ Labels(w, name) < Len(name)
                                   /\ Suffix(name, Labels(w, name) + 1) \in DOMAIN w.compression
<1>1. DOMAIN name = 1 .. Len(name) /\ Len(name) \in Nat
  BY DEF Name
<1>2. CASE Known(w, name) = {}
  BY <1>1, <1>2 DEF Known, Labels
<1>3. CASE Known(w, name) # {}
  <2> DEFINE least == Min(Known(w, name))
  <2>1. Known(w, name) \subseteq 1 .. Len(name)
    BY <1>1 DEF Known
  <2>2. least \in Known(w, name) /\ \A x \in Known(w, name) : least <= x
    BY <1>3, <2>1, LeastNumber
  <2>3. Labels(w, name) = least - 1
    BY <1>3 DEF Labels
  <2> HIDE DEF least
  <2>4. least \in 1 .. Len(name) /\ Suffix(name, least) \in DOMAIN w.compression
    BY <2>1, <2>2 DEF Known
  <2>5. ASSUME NEW i \in 1 .. least - 1 PROVE Suffix(name, i) \notin DOMAIN w.compression
    <3>1. i \in DOMAIN name /\ i \notin Known(w, name)
      BY <1>1, <2>2, <2>4
    <3> QED
      BY <3>1 DEF Known
  <2>6. Labels(w, name) + 1 = least
    BY <2>3, <2>4
  <2> QED
    BY <1>1, <1>3, <2>3, <2>4, <2>5, <2>6
<1> QED
  BY <1>2, <1>3

\* EncodeName in the words used here.
LEMMA EncodeNameIs ==
  ASSUME NEW w, NEW name
  PROVE  EncodeName(w, name) =
           [out |-> w.out \o [i \in 1 .. Labels(w, name) |-> Label(name[i])] \o <<LastCell(w, name)>>,
            compression |-> [s \in DOMAIN w.compression \cup Fresh(w, name) |->
                               IF s \in Fresh(w, name) THEN Len(w.out) + Len(name) - Len(s) + 1
                                                       ELSE w.compression[s]]]
BY Zenon DEF EncodeName, Labels, LastCell, Fresh, Known

\* A part of a message is one, and with more behind it.
AreCells(more) ==
  /\ IsSeq(more)
  /\ \A k \in 1 .. Len(more) : more[k].kind = "pointer" => more[k].to \in Nat

\* Cells appended to a part of a message make a longer part.
LEMMA WireGrows ==
  ASSUME NEW out, NEW more, NEW all, Joined(all, out, more), IsWire(out), AreCells(more)
  PROVE  /\ IsWire(all) /\ Carries(all, out)
         /\ Len(out) \in Nat /\ Len(more) \in Nat /\ Len(all) = Len(out) + Len(more)
         /\ \A p \in 1 .. Len(out) : all[p] = out[p]
         /\ \A k \in 1 .. Len(more) : all[Len(out) + k] = more[k]
<1>1. IsSeq(out) /\ Len(out) \in Nat /\ DOMAIN out = 1 .. Len(out)
  BY DEF IsWire
<1>2. /\ IsSeq(all) /\ Len(more) \in Nat
      /\ Len(all) = Len(out) + Len(more) /\ DOMAIN all = 1 .. Len(out) + Len(more)
      /\ \A k \in 1 .. Len(out) : all[k] = out[k]
      /\ \A k \in 1 .. Len(more) : all[Len(out) + k] = more[k]
  BY <1>1, SeqsConcat DEF AreCells
<1>3. ASSUME NEW p \in DOMAIN all, all[p].kind = "pointer" PROVE all[p].to \in Nat
  <2>1. CASE p <= Len(out)
    BY <1>1, <1>2, <1>3, <2>1 DEF IsWire
  <2>2. CASE p > Len(out)
    <3>1. p - Len(out) \in 1 .. Len(more) /\ Len(out) + (p - Len(out)) = p
      BY <1>1, <1>2, <2>2
    <3>2. all[p] = more[p - Len(out)]
      BY <1>2, <3>1
    <3> QED
      BY <1>3, <3>1, <3>2 DEF AreCells
  <2> QED
    BY <1>1, <1>2, <2>1, <2>2
<1>4. IsWire(all)
  BY <1>1, <1>2, <1>3 DEF IsWire
<1>5. Carries(all, out)
  BY <1>1, <1>2 DEF Carries
<1> QED
  BY <1>1, <1>2, <1>4, <1>5

\* A sequence of one member.
LEMMA OneCell ==
  ASSUME NEW cell
  PROVE  IsSeq(<<cell>>) /\ Len(<<cell>>) = 1 /\ <<cell>>[1] = cell
<1>1. <<cell>> \in Seq({cell})
  OBVIOUS
<1> QED
  BY <1>1 DEF IsSeq

\* The labels of a name as cells.
LEMMA LabelCells ==
  ASSUME NEW n \in Nat, NEW name
  PROVE  LET cells == [i \in 1 .. n |-> Label(name[i])]
         IN  /\ IsSeq(cells) /\ Len(cells) = n
             /\ \A i \in 1 .. n : cells[i] = Label(name[i]) /\ cells[i].kind # "pointer"
<1> DEFINE cells == [i \in 1 .. n |-> Label(name[i])]
           S == {Label(name[i]) : i \in 1 .. n}
<1>1. cells \in [1 .. n -> S]
  OBVIOUS
<1>2. cells \in Seq(S)
  <2> HIDE DEF cells, S
  <2> QED
    BY <1>1, SeqDef
<1>3. Len(cells) = n
  <2>1. DOMAIN cells = 1 .. n /\ DOMAIN cells = 1 .. Len(cells) /\ Len(cells) \in Nat
    <3>1. DOMAIN cells = 1 .. n
      OBVIOUS
    <3> HIDE DEF cells, S
    <3> QED
      BY <1>2, <3>1, LenProperties
  <2> HIDE DEF cells
  <2> QED
    BY <2>1
<1>4. \A i \in 1 .. n : cells[i] = Label(name[i]) /\ cells[i].kind # "pointer"
  BY DEF Label
<1>5. IsSeq(cells)
  <2> HIDE DEF cells, S
  <2> QED
    BY <1>2 DEF IsSeq
<1> QED
  BY <1>3, <1>4, <1>5

\* The cells that a name becomes.
LEMMA EncodedCells ==
  ASSUME NEW w, IsWire(w.out), NEW name \in Name,
         LastCell(w, name).kind = "pointer" => LastCell(w, name).to \in Nat
  PROVE  LET out == EncodeName(w, name).out
             n   == Labels(w, name)
         IN  /\ IsWire(out) /\ Carries(out, w.out) /\ Len(w.out) \in Nat
             /\ Len(out) = Len(w.out) + n + 1
             /\ \A i \in 1 .. n : out[Len(w.out) + i] = Label(name[i])
             /\ out[Len(w.out) + n + 1] = LastCell(w, name)
<1> DEFINE n == Labels(w, name)
           cells == [i \in 1 .. n |-> Label(name[i])]
           last == LastCell(w, name)
           some == w.out \o cells
           out == some \o <<last>>
<1>1. EncodeName(w, name).out = out
  <2> DEFINE compression == [s \in DOMAIN w.compression \cup Fresh(w, name) |->
                               IF s \in Fresh(w, name) THEN Len(w.out) + Len(name) - Len(s) + 1
                                                       ELSE w.compression[s]]
  <2>1. EncodeName(w, name) = [out |-> out, compression |-> compression]
    BY EncodeNameIs
  <2> HIDE DEF compression, out
  <2> QED
    BY <2>1
<1>2. n \in Nat
  BY KnownOrNot
<1>3. /\ IsSeq(cells) /\ Len(cells) = n
      /\ \A i \in 1 .. n : cells[i] = Label(name[i]) /\ cells[i].kind # "pointer"
  BY <1>2, LabelCells
<1>4. IsSeq(<<last>>) /\ Len(<<last>>) = 1 /\ <<last>>[1] = last
  BY OneCell
<1>e. AreCells(cells)
  <2> HIDE DEF cells
  <2> QED
    BY <1>3 DEF AreCells
<1>d. Joined(some, w.out, cells)
  BY DEF Joined
<1> HIDE DEF n, cells, some
<1>5. /\ IsWire(some) /\ Carries(some, w.out) /\ Len(w.out) \in Nat /\ Len(some) = Len(w.out) + n
      /\ \A i \in 1 .. n : some[Len(w.out) + i] = Label(name[i])
  <2>1. /\ IsWire(some) /\ Carries(some, w.out) /\ Len(w.out) \in Nat
        /\ Len(some) = Len(w.out) + Len(cells)
        /\ \A i \in 1 .. Len(cells) : some[Len(w.out) + i] = cells[i]
    BY <1>d, <1>e, WireGrows, SMTT(30)
  <2> QED
    BY <1>3, <2>1
<1> DEFINE lasts == <<last>>
<1> HIDE DEF last, some, lasts
<1>6. IsSeq(lasts) /\ Len(lasts) = 1 /\ lasts[1] = last
  BY <1>4 DEF lasts
<1>7. last.kind = "pointer" => last.to \in Nat
  BY DEF last
<1>a. AreCells(lasts)
  BY <1>6, <1>7 DEF AreCells
<1>9. Joined(out, some, lasts)
  BY DEF lasts, Joined
<1> HIDE DEF out
<1>b. /\ IsWire(out) /\ Carries(out, some) /\ Len(out) = Len(some) + Len(lasts)
      /\ \A p \in 1 .. Len(some) : out[p] = some[p]
      /\ \A k \in 1 .. Len(lasts) : out[Len(some) + k] = lasts[k]
  BY <1>5, <1>a, <1>9, WireGrows, SMTT(30)
<1>8. /\ IsWire(out) /\ Carries(out, some) /\ Len(out) = Len(some) + 1
      /\ \A p \in 1 .. Len(some) : out[p] = some[p]
      /\ out[Len(some) + 1] = last
  BY <1>6, <1>b
<1>10. Carries(out, w.out)
  BY <1>5, <1>8, <1>9 DEF Carries
<1>11. ASSUME NEW i \in 1 .. n PROVE out[Len(w.out) + i] = Label(name[i])
  <2>1. Len(w.out) + i \in 1 .. Len(some)
    BY <1>2, <1>5
  <2> QED
    BY <1>5, <1>8, <2>1
<1> QED
  BY <1>1, <1>2, <1>5, <1>8, <1>9, <1>10, <1>11 DEF n, last

\* The last cell of a name points nowhere else than to an offset.
LEMMA LastIsCell ==
  ASSUME NEW w, NEW N, Remembers(w, N), NEW name \in Name
  PROVE  LastCell(w, name).kind = "pointer" => LastCell(w, name).to \in Nat
<1>1. CASE Known(w, name) = {}
  BY <1>1 DEF LastCell, End
<1>2. CASE Known(w, name) # {}
  <2> DEFINE tail == Suffix(name, Labels(w, name) + 1)
  <2>1. tail \in DOMAIN w.compression
    BY <1>2, KnownOrNot
  <2>2. LastCell(w, name) = Pointer(w.compression[tail])
    BY <1>2 DEF LastCell
  <2> HIDE DEF tail
  <2>3. w.compression[tail] \in Nat
    <3>1. Recalls(w, N, tail)
      BY <2>1 DEF Remembers
    <3>2. w.compression[tail] \in 2 .. Len(w.out)
      BY <3>1 DEF Recalls, Reads
    <3> QED
      BY <3>2
  <2>4. w.compression[tail] % (MaxOffset + 1) \in Nat
    BY <2>3, CodecAssumption
  <2> QED
    BY <2>2, <2>4 DEF Pointer
<1> QED
  BY <1>1, <1>2

\* What is behind the labels of a name that is written: nothing, or a pointer to
\* the longest part of it that is known, which another name shares.
LEMMA EncodedTail ==
  ASSUME NEW w, NEW N, Remembers(w, N), NEW name \in Name
  PROVE  LET out  == EncodeName(w, name).out
             n    == Labels(w, name)
             tail == Suffix(name, n + 1)
         IN  \E j, C : /\ Reads(out, Len(w.out) + n + 1, tail, j, Len(out) + 1)
                       /\ Chain(C, N \cup {name}, tail, j)
                       /\ DOMAIN w.compression = {} => j = 0
<1> DEFINE out == EncodeName(w, name).out
           n == Labels(w, name)
           tail == Suffix(name, n + 1)
           last == LastCell(w, name)
           M == N \cup {name}
<1>1. IsWire(w.out) /\ Len(w.out) >= 1 /\ N \subseteq Name
  BY DEF Remembers
<1>2. /\ n \in 0 .. Len(name) /\ Len(name) \in Nat
      /\ \A i \in 1 .. n : Suffix(name, i) \notin DOMAIN w.compression
      /\ Known(w, name) = {} => n = Len(name)
      /\ Known(w, name) # {} => n < Len(name) /\ tail \in DOMAIN w.compression
  BY KnownOrNot
<1>3. last.kind = "pointer" => last.to \in Nat
  BY LastIsCell
<1>4. /\ IsWire(out) /\ Carries(out, w.out) /\ Len(w.out) \in Nat
      /\ Len(out) = Len(w.out) + n + 1 /\ out[Len(w.out) + n + 1] = last
  BY <1>1, <1>3, EncodedCells
<1>5. tail \in Name /\ Len(tail) = Len(name) - n /\ IsSubdomainOf(name, tail)
  <2>1. n + 1 \in 1 .. Len(name) + 1 /\ Len(name) - (n + 1) + 1 = Len(name) - n
    BY <1>2
  <2> HIDE DEF n
  <2> QED
    BY <2>1, SuffixOf
<1> HIDE DEF out, n, tail, last
<1>6. Len(w.out) + n + 1 \in 2 .. Len(out) /\ Len(out) + 1 = (Len(w.out) + n + 1) + 1
  BY <1>1, <1>2, <1>4
<1>7. CASE Known(w, name) = {}
  <2>1. last = End /\ tail = Root
    <3>1. n = Len(name)
      BY <1>2, <1>7
    <3> QED
      BY <1>7, <3>1, SuffixWhole DEF last, LastCell, tail
  <2>2. Reads(out, Len(w.out) + n + 1, tail, 0, Len(out) + 1)
    BY <1>4, <1>6, <2>1, ReadsEnd
  <2>3. Chain({}, M, tail, 0)
    BY NoChain
  <2> QED
    BY <2>2, <2>3 DEF out, n, tail
<1>8. CASE Known(w, name) # {}
  <2>1. Recalls(w, N, tail) /\ tail \in DOMAIN w.compression /\ n < Len(name)
    BY <1>2, <1>8 DEF Remembers
  <2>2. PICK j, nx, C : Reads(w.out, w.compression[tail], tail, j, nx) /\ ChainAbove(C, N, tail, j)
    BY <2>1 DEF Recalls
  <2>3. PICK a \in N : /\ IsSubdomainOf(a, tail)
                       /\ \A t \in Name : IsSubdomainOf(a, t) /\ Len(t) >= Len(tail) => t \in DOMAIN w.compression
    BY <2>1 DEF Recalls
  <2>4. last = Pointer(w.compression[tail]) /\ w.compression[tail] <= MaxOffset
    BY <1>8, <2>1 DEF last, LastCell, Recalls, tail, n
  <2>5. Reads(out, w.compression[tail], tail, j, nx)
    BY <1>1, <1>4, <2>2, ReadsStill
  <2>6. Reads(out, Len(w.out) + n + 1, tail, j + 1, Len(out) + 1)
    BY <1>4, <1>6, <2>4, <2>5, ReadsPointer
  <2>7. tail \in Shared(M)
    <3>1. ASSUME NEW t \in Name, IsSubdomainOf(name, t), IsSubdomainOf(a, t)
          PROVE  Len(t) <= Len(tail)
      <4>1. SUFFICES ASSUME Len(t) > Len(tail) PROVE FALSE
        BY <1>5 DEF Name
      <4>2. t \in DOMAIN w.compression
        BY <1>5, <2>3, <3>1, <4>1 DEF Name
      <4>3. t = Suffix(name, Len(name) - Len(t) + 1)
        BY <3>1, SuffixesOnly
      <4>4. Len(name) - Len(t) + 1 \in 1 .. n
        <5>1. Len(t) \in Nat /\ Len(t) <= Len(name)
          BY <3>1 DEF IsSubdomainOf, Name
        <5> QED
          BY <1>2, <1>5, <4>1, <5>1
      <4> QED
        BY <1>2, <4>2, <4>3, <4>4
    <3>2. CommonAncestor(name, a) = tail
      BY <1>1, <1>5, <2>3, <3>1, CommonAncestorIs
    <3>3. tail # Root
      BY <2>1 DEF Recalls
    <3>4. name \in M /\ a \in M
      OBVIOUS
    <3> QED
      BY <3>2, <3>3, <3>4 DEF Shared
  <2>8. ChainAbove(C, M, tail, j)
    <3>1. N \subseteq M
      OBVIOUS
    <3> QED
      BY <2>2, <3>1, SharedByMore
  <2>9. Chain(C \cup {tail}, M, tail, j + 1)
    <3>1. j \in Nat
      BY <2>2 DEF Reads
    <3> HIDE DEF M
    <3> QED
      BY <1>5, <2>7, <2>8, <3>1, ChainWith
  <2>10. DOMAIN w.compression # {}
    BY <2>1
  <2> QED
    BY <2>6, <2>9, <2>10 DEF out, n, tail
<1> QED
  BY <1>7, <1>8

\* The name is written behind w: it can be read there, over as many pointers as
\* it has shared names, and over none when it is the first.
WrittenTo(w, v, N, name) ==
  \E j, C : /\ Reads(v.out, Len(w.out) + 1, name, j, Len(v.out) + 1)
            /\ Chain(C, N, name, j)
            /\ DOMAIN w.compression = {} => j = 0

\* A name that was written can be read, and nothing is forgotten.
LEMMA EncodedName ==
  ASSUME NEW w, NEW N, Remembers(w, N), NEW name \in Name,
         NEW v, v = EncodeName(w, name)
  PROVE  /\ Remembers(v, N \cup {name})
         /\ Carries(v.out, w.out) /\ Len(w.out) \in Nat /\ Len(v.out) > Len(w.out)
         /\ WrittenTo(w, v, N \cup {name}, name)
<1> DEFINE n == Labels(w, name)
           fresh == Fresh(w, name)
           M == N \cup {name}
           tail == Suffix(name, n + 1)
<1>1. IsWire(w.out) /\ Len(w.out) >= 1 /\ N \subseteq Name
  BY DEF Remembers
<1>2. /\ n \in 0 .. Len(name) /\ Len(name) \in Nat
      /\ \A i \in 1 .. n : Suffix(name, i) \notin DOMAIN w.compression
  BY KnownOrNot
<1>3. PICK j, C : /\ Reads(v.out, Len(w.out) + n + 1, tail, j, Len(v.out) + 1)
                  /\ Chain(C, M, tail, j)
                  /\ DOMAIN w.compression = {} => j = 0
  BY EncodedTail
<1>4. LastCell(w, name).kind = "pointer" => LastCell(w, name).to \in Nat
  BY LastIsCell
<1>5. /\ IsWire(v.out) /\ Carries(v.out, w.out) /\ Len(w.out) \in Nat
      /\ Len(v.out) = Len(w.out) + n + 1
      /\ \A i \in 1 .. n : v.out[Len(w.out) + i] = Label(name[i])
  BY <1>1, <1>4, EncodedCells
<1>6. v = [out |-> v.out, compression |-> v.compression]
      /\ v.compression = [s \in DOMAIN w.compression \cup fresh |->
                            IF s \in fresh THEN Len(w.out) + Len(name) - Len(s) + 1
                                           ELSE w.compression[s]]
  <2> DEFINE out == w.out \o [i \in 1 .. Labels(w, name) |-> Label(name[i])] \o <<LastCell(w, name)>>
             compression == [s \in DOMAIN w.compression \cup fresh |->
                               IF s \in fresh THEN Len(w.out) + Len(name) - Len(s) + 1
                                              ELSE w.compression[s]]
  <2>1. EncodeName(w, name) = [out |-> out, compression |-> compression]
    BY EncodeNameIs
  <2> HIDE DEF compression, out
  <2>2. v = [out |-> v.out, compression |-> v.compression] /\ v.compression = compression
    BY <2>1
  <2> QED
    BY <2>2 DEF compression
<1>7. DOMAIN v.compression = DOMAIN w.compression \cup fresh
  BY <1>6
<1>8. /\ \A s \in fresh : v.compression[s] = Len(w.out) + Len(name) - Len(s) + 1
      /\ \A s \in DOMAIN w.compression : s \notin fresh => v.compression[s] = w.compression[s]
  <2> HIDE DEF fresh
  <2> QED
    BY <1>6
<1>9. \A i \in 1 .. n + 1 : Reads(v.out, Len(w.out) + i, Suffix(name, i), j, Len(v.out) + 1)
  <2> DEFINE z == Len(w.out) + n + 1
  <2>1. z \in 2 .. Len(v.out) /\ z - n >= 2
    BY <1>1, <1>2, <1>5
  <2>2. \A i \in 1 .. n : v.out[z - n + i - 1] = Label(name[i])
    <3>1. \A i \in 1 .. n : z - n + i - 1 = Len(w.out) + i
      BY <1>2, <1>5
    <3> QED
      BY <1>5, <3>1
  <2>3. Reads(v.out, z, Suffix(name, n + 1), j, Len(v.out) + 1)
    BY <1>3
  <2> HIDE DEF z, n
  <2>4. \A i \in 1 .. n + 1 : Reads(v.out, z - n + i - 1, Suffix(name, i), j, Len(v.out) + 1)
    BY <1>2, <1>5, <2>1, <2>2, <2>3, ReadsLabels
  <2>5. \A i \in 1 .. n + 1 : z - n + i - 1 = Len(w.out) + i
    BY <1>2, <1>5 DEF z
  <2> QED
    BY <2>4, <2>5
<1> HIDE DEF n
<1>10. tail \in Name /\ Len(tail) = Len(name) - n /\ IsSubdomainOf(name, tail)
  <2>1. n + 1 \in 1 .. Len(name) + 1 /\ Len(name) - (n + 1) + 1 = Len(name) - n
    BY <1>2
  <2> QED
    BY <2>1, SuffixOf
<1>11. Reads(v.out, Len(w.out) + 1, name, j, Len(v.out) + 1)
  <2>1. 1 \in 1 .. n + 1
    BY <1>2
  <2> QED
    BY <1>9, <2>1, SuffixWhole
<1>12. Chain(C, M, name, j)
  BY <1>3, <1>10, ChainOfLonger
<1>13. ASSUME NEW s \in fresh PROVE Recalls(v, M, s)
  <2>1. PICK k \in 1 .. n : s = Suffix(name, k) /\ Len(w.out) + k <= MaxOffset
    BY DEF Fresh, Remembered, n
  <2>2. k \in 1 .. Len(name) + 1 /\ k \in 1 .. n + 1
    BY <1>2, <2>1
  <2>3. s \in Name /\ Len(s) = Len(name) - k + 1 /\ IsSubdomainOf(name, s)
    BY <2>1, <2>2, SuffixOf
  <2>4. s # Root /\ v.compression[s] = Len(w.out) + k /\ v.compression[s] <= MaxOffset
    <3>1. Len(s) # 0 /\ Len(Root) = 0
      BY <1>2, <2>3 DEF Root
    <3>2. Len(w.out) + Len(name) - Len(s) + 1 = Len(w.out) + k
      BY <1>2, <1>5, <2>3
    <3> QED
      BY <1>8, <2>1, <3>1, <3>2
  <2>5. Reads(v.out, v.compression[s], s, j, Len(v.out) + 1)
    BY <1>9, <2>1, <2>2, <2>4
  <2>6. ChainAbove(C, M, s, j)
    <3>1. Len(tail) < Len(s) /\ Len(s) >= Len(tail)
      BY <1>2, <1>10, <2>3
    <3>2. IsSubdomainOf(s, tail)
      BY <1>10, <2>3, <3>1, AboveEachOther
    <3> HIDE DEF tail
    <3> QED
      BY <1>3, <1>10, <2>3, <3>1, <3>2, ChainOfLonger
  <2>7. ASSUME NEW t \in Name, IsSubdomainOf(name, t), Len(t) >= Len(s)
        PROVE  t \in DOMAIN v.compression
    <3> DEFINE i == Len(name) - Len(t) + 1
    <3>1. t = Suffix(name, i) /\ i \in 1 .. Len(name) + 1
      BY <2>7, SuffixesOnly
    <3>2. Len(t) \in Nat
      BY DEF Name
    <3>3. i <= k
      BY <1>2, <2>3, <2>7, <3>2
    <3> HIDE DEF i
    <3>4. i \in 1 .. n /\ Len(w.out) + i <= MaxOffset
      BY <1>2, <1>5, <2>1, <3>1, <3>3, CodecAssumption
    <3>5. t \in fresh
      BY <3>1, <3>4 DEF Fresh, Remembered, n
    <3> QED
      BY <1>7, <3>5
  <2>8. name \in M
    OBVIOUS
  <2> QED
    BY <2>3, <2>4, <2>5, <2>6, <2>7, <2>8 DEF Recalls
<1>14. ASSUME NEW s \in DOMAIN w.compression, s \notin fresh PROVE Recalls(v, M, s)
  <2>1. Recalls(w, N, s) /\ v.compression[s] = w.compression[s]
    BY <1>8, <1>14 DEF Remembers
  <2>2. PICK i, nx, D : Reads(w.out, w.compression[s], s, i, nx) /\ ChainAbove(D, N, s, i)
    BY <2>1 DEF Recalls
  <2>3. Reads(v.out, v.compression[s], s, i, nx)
    BY <1>1, <1>5, <2>1, <2>2, ReadsStill
  <2>4. ChainAbove(D, M, s, i)
    <3>1. N \subseteq M
      OBVIOUS
    <3> QED
      BY <2>2, <3>1, SharedByMore
  <2>5. PICK a \in N : /\ IsSubdomainOf(a, s)
                       /\ \A t \in Name : IsSubdomainOf(a, t) /\ Len(t) >= Len(s) => t \in DOMAIN w.compression
    BY <2>1 DEF Recalls
  <2>6. a \in M /\ \A t \in Name : IsSubdomainOf(a, t) /\ Len(t) >= Len(s) => t \in DOMAIN v.compression
    BY <1>7, <2>5
  <2>7. s \in Name /\ s # Root /\ v.compression[s] <= MaxOffset
    BY <2>1 DEF Recalls
  <2> HIDE DEF M
  <2> QED
    BY <2>3, <2>4, <2>5, <2>6, <2>7 DEF Recalls
<1>15. Remembers(v, M)
  <2>1. Len(v.out) >= 1 /\ M \subseteq Name
    BY <1>1, <1>2, <1>5
  <2>2. \A s \in DOMAIN v.compression : Recalls(v, M, s)
    BY <1>7, <1>13, <1>14
  <2>3. v = [out |-> v.out, compression |-> v.compression]
    BY <1>6
  <2> HIDE DEF M
  <2> QED
    BY <1>5, <2>1, <2>2, <2>3 DEF Remembers
<1>16. Len(v.out) > Len(w.out)
  BY <1>2, <1>5
<1> QED
  BY <1>3, <1>5, <1>11, <1>12, <1>15, <1>16 DEF WrittenTo

-----------------------------------------------------------------------------
(* Folds: what a fold along a sequence computes, one member after the      *)
(* other.                                                                  *)

\* The operators that are folded along a sequence.
FoldStep(kind, in, acc, x) ==
  IF kind = "question" THEN PutQuestion(acc, x)
  ELSE IF kind = "record" THEN EncodeRr(acc, x)
  ELSE IF kind = "item" THEN DecodeItem(in, acc)
  ELSE PutAdditional(acc, x)

\* What FoldLeft makes of FoldStep: it takes away the last element of a set of positions.
Folds(it, kind, in, base, seq, S) ==
  it = [s \in SUBSET S |->
          IF s = {} THEN base
          ELSE FoldStep(kind, in, it[s \ {Max(s)}], seq[Max(s)])]

\* The same, position by position.
Stepwise(it, kind, in, base, seq, n) ==
  /\ it[1 .. 0] = base
  /\ \A i \in 1 .. n : it[1 .. i] = FoldStep(kind, in, it[1 .. i - 1], seq[i])

\* The last of the first n positions.
LEMMA MaxOfPositions ==
  ASSUME NEW m \in Nat, NEW s \in SUBSET (1 .. m), s # {}
  PROVE  Max(s) \in s /\ \A x \in s : Max(s) >= x
<1>1. \E x \in s : \A y \in s : x >= y
  <2> DEFINE Out == {k \in Nat : \A x \in s : x <= m - k}
             Has == {k \in Nat : k <= m => \/ \A x \in s : x <= m - k
                                           \/ \E x \in s : \A y \in s : x >= y}
  <2>1. 0 \in Has
    OBVIOUS
  <2>2. ASSUME NEW k \in Nat, k \in Has PROVE k + 1 \in Has
    <3>1. CASE m - k \in s
      BY <2>2, <3>1
    <3>2. CASE m - k \notin s
      BY <2>2, <3>2
    <3> QED
      BY <3>1, <3>2
  <2>3. m \in Has
    <3> HIDE DEF Has
    <3> QED
      BY <2>1, <2>2, NatsBySteps
  <2>4. \/ \A x \in s : x <= m - m
        \/ \E x \in s : \A y \in s : x >= y
    BY <2>3
  <2>5. PICK x : x \in s /\ x >= 1
    <3>1. \E x : x \in s
      BY Zenon
    <3> QED
      BY <3>1
  <2>6. ~ (x <= m - m)
    BY <2>5
  <2> QED
    BY <2>4, <2>5, <2>6
<1>2. Max(s) = CHOOSE x \in s : \A y \in s : x >= y
  BY DEF Max
<1> QED
  BY <1>1, <1>2

\* A fold has a function that computes it over the sets of positions.
LEMMA FoldsExists ==
  ASSUME NEW kind, NEW in, NEW base, NEW seq, NEW n \in Nat
  PROVE  \E it : Folds(it, kind, in, base, seq, 1 .. n)
<1> DEFINE Good == {m \in Nat : \E it : Folds(it, kind, in, base, seq, 1 .. m)}
<1>1. 0 \in Good
  <2>1. 1 .. 0 = {}
    OBVIOUS
  <2>2. Folds([s \in {{}} |-> base], kind, in, base, seq, 1 .. 0)
    BY <2>1, Zenon DEF Folds
  <2> QED
    BY <2>2
<1>2. ASSUME NEW m \in Nat, m \in Good PROVE m + 1 \in Good
  <2>1. PICK it : Folds(it, kind, in, base, seq, 1 .. m)
    BY <1>2
  <2> DEFINE Taken(s) == FoldStep(kind, in, it[s \ {m + 1}], seq[m + 1])
             g == [s \in SUBSET (1 .. m + 1) |-> IF m + 1 \in s THEN Taken(s) ELSE it[s]]
  <2>2. ASSUME NEW s \in SUBSET (1 .. m + 1)
        PROVE  g[s] = IF s = {} THEN base
                      ELSE FoldStep(kind, in, g[s \ {Max(s)}], seq[Max(s)])
    <3>1. CASE m + 1 \in s
      <4>1. Max(s) = m + 1
        <5>1. s # {} /\ m + 1 \in Nat
          BY <3>1
        <5>2. Max(s) \in s /\ Max(s) >= m + 1 /\ Max(s) \in 1 .. m + 1
          BY <3>1, <5>1, MaxOfPositions
        <5> QED
          BY <5>2
      <4>2. s \ {m + 1} \in SUBSET (1 .. m + 1) /\ m + 1 \notin s \ {m + 1} /\ s # {}
        BY <3>1
      <4>3. g[s \ {m + 1}] = it[s \ {m + 1}]
        BY <4>2, Zenon
      <4>4. g[s] = Taken(s)
        BY <3>1
      <4> HIDE DEF g
      <4> QED
        BY <4>1, <4>2, <4>3, <4>4
    <3>2. CASE m + 1 \notin s
      <4>1. s \in SUBSET (1 .. m)
        BY <3>2
      <4>2. it[s] = IF s = {} THEN base
                    ELSE FoldStep(kind, in, it[s \ {Max(s)}], seq[Max(s)])
        BY <2>1, <4>1, Zenon DEF Folds
      <4>3. \A r : r \in SUBSET (1 .. m + 1) /\ m + 1 \notin r => g[r] = it[r]
        BY Zenon
      <4>4. s \ {Max(s)} \in SUBSET (1 .. m + 1) /\ m + 1 \notin s \ {Max(s)}
        BY <3>2
      <4> HIDE DEF g
      <4> QED
        BY <3>2, <4>2, <4>3, <4>4
    <3> QED
      BY <3>1, <3>2
  <2>3. g = [s \in SUBSET (1 .. m + 1) |-> g[s]]
    OBVIOUS
  <2> HIDE DEF g
  <2>4. Folds(g, kind, in, base, seq, 1 .. m + 1)
    BY <2>2, <2>3, Zenon DEF Folds
  <2> QED
    BY <2>4
<1>3. n \in Good
  <2> HIDE DEF Good
  <2> QED
    BY <1>1, <1>2, NatsBySteps
<1> QED
  BY <1>3

\* A fold along a sequence, position by position.
LEMMA FoldsStepwise ==
  ASSUME NEW kind, NEW in, NEW base, NEW seq, NEW n \in Nat,
         NEW it, Folds(it, kind, in, base, seq, 1 .. n)
  PROVE  Stepwise(it, kind, in, base, seq, n)
<1>1. \A s \in SUBSET (1 .. n) :
        it[s] = IF s = {} THEN base
                ELSE FoldStep(kind, in, it[s \ {Max(s)}], seq[Max(s)])
  BY Zenon DEF Folds
<1>2. 1 .. 0 = {} /\ {} \in SUBSET (1 .. n)
  OBVIOUS
<1>3. ASSUME NEW i \in 1 .. n
      PROVE  it[1 .. i] = FoldStep(kind, in, it[1 .. i - 1], seq[i])
  <2>1. 1 .. i \in SUBSET (1 .. n) /\ i \in 1 .. i /\ 1 .. i # {}
    OBVIOUS
  <2>2. Max(1 .. i) = i
    <3>1. Max(1 .. i) \in 1 .. i /\ Max(1 .. i) >= i
      BY <2>1, MaxOfPositions
    <3> QED
      BY <3>1
  <2>3. (1 .. i) \ {i} = 1 .. i - 1
    OBVIOUS
  <2> QED
    BY <1>1, <2>1, <2>2, <2>3
<1> QED
  BY <1>1, <1>2, <1>3 DEF Stepwise

\* value is what n steps make of base, one by one.
Steps(f, kind, in, base, seq, n, value) ==
  /\ f[0] = base /\ f[n] = value
  /\ \A i \in 1 .. n : f[i] = FoldStep(kind, in, f[i - 1], seq[i])

\* A fold is a sequence of steps.
LEMMA StepsExist ==
  ASSUME NEW kind, NEW in, NEW base, NEW seq, NEW n \in Nat,
         NEW fold, Folds(fold, kind, in, base, seq, 1 .. n), NEW value, value = fold[1 .. n]
  PROVE  \E f : Steps(f, kind, in, base, seq, n, value)
<1> DEFINE f == [i \in 0 .. n |-> fold[1 .. i]]
<1>1. /\ fold[1 .. 0] = base
      /\ \A i \in 1 .. n : fold[1 .. i] = FoldStep(kind, in, fold[1 .. i - 1], seq[i])
  <2>1. Stepwise(fold, kind, in, base, seq, n)
    BY FoldsStepwise
  <2> QED
    BY <2>1, Zenon DEF Stepwise
<1>2. \A i \in 0 .. n : f[i] = fold[1 .. i]
  OBVIOUS
<1>3. 0 \in 0 .. n /\ n \in 0 .. n /\ \A i \in 1 .. n : i \in 0 .. n /\ i - 1 \in 0 .. n
  OBVIOUS
<1> HIDE DEF f
<1>4. Steps(f, kind, in, base, seq, n, value)
  BY <1>1, <1>2, <1>3 DEF Steps
<1> QED
  BY <1>4

\* Questions are written one after the other.
PutQuestions(base, seq) == FoldLeft(PutQuestion, base, seq)

\* Writing questions is one of these folds; so are the next three.
LEMMA QuestionSteps ==
  ASSUME NEW base, NEW seq, NEW n \in Nat, DOMAIN seq = 1 .. n
  PROVE  \E f : Steps(f, "question", 0, base, seq, n, PutQuestions(base, seq))
<1> DEFINE Fold(x) == x = [s \in SUBSET (1 .. n) |->
                           IF s = {} THEN base ELSE PutQuestion(x[s \ {Max(s)}], seq[Max(s)])]
           fold == CHOOSE x : Fold(x)
<1>1. PutQuestions(base, seq) = fold[1 .. n]
  BY Zenon DEF PutQuestions, FoldLeft, MapThenFoldSet
<1>2. \A x : Fold(x) <=> Folds(x, "question", 0, base, seq, 1 .. n)
  <2>1. \A acc, x : FoldStep("question", 0, acc, x) = PutQuestion(acc, x)
    BY DEF FoldStep
  <2> QED
    BY <2>1, Zenon DEF Folds
<1>3. Folds(fold, "question", 0, base, seq, 1 .. n)
  <2>1. \E x : Fold(x)
    BY <1>2, FoldsExists
  <2> HIDE DEF Fold
  <2> QED
    BY <1>2, <2>1
<1> HIDE DEF fold
<1> QED
  BY <1>1, <1>3, StepsExist

\* Records are written one after the other.
PutRecords(base, seq) == FoldLeft(EncodeRr, base, seq)

\* Writing records.
LEMMA RecordSteps ==
  ASSUME NEW base, NEW seq, NEW n \in Nat, DOMAIN seq = 1 .. n
  PROVE  \E f : Steps(f, "record", 0, base, seq, n, PutRecords(base, seq))
<1> DEFINE Fold(x) == x = [s \in SUBSET (1 .. n) |->
                           IF s = {} THEN base ELSE EncodeRr(x[s \ {Max(s)}], seq[Max(s)])]
           fold == CHOOSE x : Fold(x)
<1>1. PutRecords(base, seq) = fold[1 .. n]
  BY Zenon DEF PutRecords, FoldLeft, MapThenFoldSet
<1>2. \A x : Fold(x) <=> Folds(x, "record", 0, base, seq, 1 .. n)
  <2>1. \A acc, x : FoldStep("record", 0, acc, x) = EncodeRr(acc, x)
    BY DEF FoldStep
  <2> QED
    BY <2>1, Zenon DEF Folds
<1>3. Folds(fold, "record", 0, base, seq, 1 .. n)
  <2>1. \E x : Fold(x)
    BY <1>2, FoldsExists
  <2> HIDE DEF Fold
  <2> QED
    BY <1>2, <2>1
<1> HIDE DEF fold
<1> QED
  BY <1>1, <1>3, StepsExist

\* What was written is read one after the other.
ReadItems(in, base, seq) == FoldLeft(LAMBDA acc, k : DecodeItem(in, acc), base, seq)

\* Reading the items of a section.
LEMMA ItemSteps ==
  ASSUME NEW in, NEW base, NEW seq, NEW n \in Nat, DOMAIN seq = 1 .. n
  PROVE  \E f : Steps(f, "item", in, base, seq, n, ReadItems(in, base, seq))
<1> DEFINE Fold(x) == x = [s \in SUBSET (1 .. n) |->
                           IF s = {} THEN base ELSE DecodeItem(in, x[s \ {Max(s)}])]
           fold == CHOOSE x : Fold(x)
<1>1. ReadItems(in, base, seq) = fold[1 .. n]
  BY Zenon DEF ReadItems, FoldLeft, MapThenFoldSet
<1>2. \A x : Fold(x) <=> Folds(x, "item", in, base, seq, 1 .. n)
  <2>1. \A acc, x : FoldStep("item", in, acc, x) = DecodeItem(in, acc)
    BY DEF FoldStep
  <2> QED
    BY <2>1, Zenon DEF Folds
<1>3. Folds(fold, "item", in, base, seq, 1 .. n)
  <2>1. \E x : Fold(x)
    BY <1>2, FoldsExists
  <2> HIDE DEF Fold
  <2> QED
    BY <1>2, <2>1
<1> HIDE DEF fold
<1> QED
  BY <1>1, <1>3, StepsExist

\* Additional records are sorted one after the other.
PutAdditionals(base, seq) == FoldLeft(PutAdditional, base, seq)

\* Putting away additional records.
LEMMA AdditionalSteps ==
  ASSUME NEW base, NEW seq, NEW n \in Nat, DOMAIN seq = 1 .. n
  PROVE  \E f : Steps(f, "additional", 0, base, seq, n, PutAdditionals(base, seq))
<1> DEFINE Fold(x) == x = [s \in SUBSET (1 .. n) |->
                           IF s = {} THEN base ELSE PutAdditional(x[s \ {Max(s)}], seq[Max(s)])]
           fold == CHOOSE x : Fold(x)
<1>1. PutAdditionals(base, seq) = fold[1 .. n]
  BY Zenon DEF PutAdditionals, FoldLeft, MapThenFoldSet
<1>2. \A x : Fold(x) <=> Folds(x, "additional", 0, base, seq, 1 .. n)
  <2>1. \A acc, x : FoldStep("additional", 0, acc, x) = PutAdditional(acc, x)
    BY DEF FoldStep
  <2> QED
    BY <2>1, Zenon DEF Folds
<1>3. Folds(fold, "additional", 0, base, seq, 1 .. n)
  <2>1. \E x : Fold(x)
    BY <1>2, FoldsExists
  <2> HIDE DEF Fold
  <2> QED
    BY <1>2, <2>1
<1> HIDE DEF fold
<1> QED
  BY <1>1, <1>3, StepsExist

-----------------------------------------------------------------------------
(* Encoding a message.  items lists what is written: pairs of a name and   *)
(* what follows it.                                                        *)

NamesUpTo(items, k) == {items[i][1] : i \in 1 .. k}

\* Where the i-th item is: from behind the one before up to ends[i].
ItemAt(out, names, items, ends, jumps, i) ==
  /\ ends[i - 1] \in Nat /\ ends[i] \in 2 .. Len(out)
  /\ out[ends[i]] = Body(items[i][2])
  /\ Reads(out, ends[i - 1] + 1, items[i][1], jumps[i], ends[i])
  /\ \E C : Chain(C, names, items[i][1], jumps[i])
  /\ i = 1 => jumps[i] = 0

\* The first k items have been written.
LaidAt(w, items, k, ends, jumps) ==
  /\ Remembers(w, NamesUpTo(items, k))
  /\ k = 0 => DOMAIN w.compression = {}
  /\ ends[0] = 1 /\ ends[k] = Len(w.out)
  /\ \A i \in 1 .. k : ItemAt(w.out, NamesUpTo(items, k), items, ends, jumps, i)
Laid(w, items, k) == \E ends, jumps : LaidAt(w, items, k, ends, jumps)

\* What follows a name is appended.
LEMMA AppendedCell ==
  ASSUME NEW out, IsWire(out), NEW body
  PROVE  LET more == Append(out, Body(body))
         IN  /\ IsWire(more) /\ Carries(more, out) /\ Len(out) \in Nat
             /\ Len(more) = Len(out) + 1 /\ more[Len(out) + 1] = Body(body)
<1> DEFINE cell == Body(body)
           more == Append(out, cell)
<1>1. PICK S : out \in Seq(S)
  BY DEF IsWire, IsSeq
<1> DEFINE U == S \cup {cell}
<1>2. out \in Seq(U) /\ cell \in U
  BY <1>1, SeqMonotonic
<1> HIDE DEF U, cell
<1>3. /\ more \in Seq(U) /\ Len(more) = Len(out) + 1
      /\ \A i \in 1 .. Len(out) : more[i] = out[i]
      /\ more[Len(out) + 1] = cell
  BY <1>2, AppendProperties
<1>4. Len(out) \in Nat /\ DOMAIN out = 1 .. Len(out)
  BY DEF IsWire
<1>5. Len(more) \in Nat /\ DOMAIN more = 1 .. Len(more)
  BY <1>3, LenProperties
<1>6. cell.kind # "pointer"
  BY DEF cell, Body
<1> HIDE DEF more
<1>7. ASSUME NEW p \in DOMAIN more, more[p].kind = "pointer" PROVE more[p].to \in Nat
  <2>1. CASE p \in 1 .. Len(out)
    BY <1>3, <1>4, <1>7, <2>1 DEF IsWire
  <2>2. CASE p \notin 1 .. Len(out)
    <3>1. p = Len(out) + 1
      BY <1>3, <1>4, <1>5, <2>2
    <3> QED
      BY <1>3, <1>6, <1>7, <3>1
  <2> QED
    BY <2>1, <2>2
<1>8. IsSeq(more)
  BY <1>3 DEF IsSeq
<1>9. IsWire(more)
  BY <1>5, <1>7, <1>8 DEF IsWire
<1>10. Carries(more, out)
  BY <1>3, <1>4 DEF Carries
<1> QED
  BY <1>3, <1>4, <1>9, <1>10 DEF more, cell

\* What was remembered is still right when more was written, and of more names.
LEMMA RemembersStill ==
  ASSUME NEW w, NEW N, Remembers(w, N), NEW v, v = [out |-> v.out, compression |-> w.compression],
         IsWire(v.out), Carries(v.out, w.out), NEW M \in SUBSET Name, N \subseteq M
  PROVE  Remembers(v, M)
<1>1. v.compression = w.compression
  OBVIOUS
<1>2. IsWire(w.out) /\ Len(v.out) >= 1
  BY DEF Remembers, Carries, IsWire
<1>3. ASSUME NEW s \in DOMAIN w.compression PROVE Recalls(v, M, s)
  <2>1. Recalls(w, N, s)
    BY DEF Remembers
  <2>2. PICK j, nx, C : Reads(w.out, w.compression[s], s, j, nx) /\ ChainAbove(C, N, s, j)
    BY <2>1 DEF Recalls
  <2>3. Reads(v.out, w.compression[s], s, j, nx) /\ ChainAbove(C, M, s, j)
    BY <1>2, <2>2, ReadsStill, SharedByMore
  <2> QED
    BY <1>1, <2>1, <2>3 DEF Recalls
<1> QED
  BY <1>1, <1>2, <1>3 DEF Remembers

\* One more item.
LEMMA LaidMore ==
  ASSUME NEW w, NEW items, NEW k \in Nat, Laid(w, items, k),
         NEW v, Remembers(v, NamesUpTo(items, k + 1)), Carries(v.out, w.out),
         NEW j, NEW C, Reads(v.out, Len(w.out) + 1, items[k + 1][1], j, Len(v.out) + 1),
         Chain(C, NamesUpTo(items, k + 1), items[k + 1][1], j),
         DOMAIN w.compression = {} => j = 0
  PROVE  Laid(PutBody(v, items[k + 1][2]), items, k + 1)
<1> DEFINE body == items[k + 1][2]
           u == PutBody(v, body)
           N == NamesUpTo(items, k)
           M == NamesUpTo(items, k + 1)
<1>1. PICK ends, jumps : LaidAt(w, items, k, ends, jumps)
  BY DEF Laid
<1>2. u = [out |-> Append(v.out, Body(body)), compression |-> v.compression]
  BY SMTT(30) DEF PutBody, Remembers
<1>3. IsWire(v.out) /\ IsWire(w.out)
  BY <1>1 DEF LaidAt, Remembers
<1> HIDE DEF u, body, N, M
<1>4. /\ IsWire(u.out) /\ Carries(u.out, v.out) /\ Len(v.out) \in Nat
      /\ Len(u.out) = Len(v.out) + 1 /\ u.out[Len(v.out) + 1] = Body(body)
  BY <1>2, <1>3, AppendedCell
<1>5. u = [out |-> u.out, compression |-> v.compression] /\ M \subseteq Name /\ M \subseteq M
  BY <1>2 DEF Remembers, M
<1>6. Remembers(u, M)
  BY <1>4, <1>5, RemembersStill DEF M
<1>7. Carries(u.out, w.out) /\ Len(w.out) \in Nat /\ Len(w.out) <= Len(v.out) /\ Len(w.out) >= 1
  BY <1>1, <1>3, <1>4 DEF Carries, IsWire, LaidAt, Remembers
<1>8. N \subseteq M
  BY DEF N, M, NamesUpTo
<1> DEFINE after == [i \in 0 .. k + 1 |-> IF i = k + 1 THEN Len(u.out) ELSE ends[i]]
           taken == [i \in 1 .. k + 1 |-> IF i = k + 1 THEN j ELSE jumps[i]]
<1>9. /\ after[k + 1] = Len(u.out) /\ \A i \in 0 .. k : after[i] = ends[i]
      /\ taken[k + 1] = j /\ \A i \in 1 .. k : taken[i] = jumps[i]
  OBVIOUS
<1> HIDE DEF after, taken
<1>10. ASSUME NEW i \in 1 .. k PROVE ItemAt(u.out, M, items, after, taken, i)
  <2>1. ItemAt(w.out, N, items, ends, jumps, i)
    BY <1>1 DEF LaidAt, N
  <2>2. after[i - 1] = ends[i - 1] /\ after[i] = ends[i] /\ taken[i] = jumps[i]
    BY <1>9
  <2>3. ends[i] \in 2 .. Len(u.out) /\ u.out[ends[i]] = w.out[ends[i]]
    BY <1>4, <1>7, <2>1, SMTT(30) DEF ItemAt, Carries
  <2>4. Reads(u.out, ends[i - 1] + 1, items[i][1], jumps[i], ends[i])
    <3> DEFINE p == ends[i - 1] + 1
    <3>1. Reads(w.out, p, items[i][1], jumps[i], ends[i])
      BY <2>1 DEF ItemAt
    <3> HIDE DEF p
    <3>2. Reads(u.out, p, items[i][1], jumps[i], ends[i])
      BY <1>3, <1>4, <1>7, <3>1, ReadsStill
    <3> QED
      BY <3>2 DEF p
  <2>5. \E D : Chain(D, M, items[i][1], jumps[i])
    <3>1. PICK D : Chain(D, N, items[i][1], jumps[i])
      BY <2>1 DEF ItemAt
    <3>2. Chain(D, M, items[i][1], jumps[i])
      BY <1>8, <3>1, SharedByMore
    <3> QED
      BY <3>2
  <2> QED
    BY <2>1, <2>2, <2>3, <2>4, <2>5 DEF ItemAt
<1>11. ItemAt(u.out, M, items, after, taken, k + 1)
  <2>1. after[(k + 1) - 1] = Len(w.out) /\ after[k + 1] = Len(u.out) /\ taken[k + 1] = j
    BY <1>1, <1>9 DEF LaidAt
  <2>2. Reads(u.out, Len(w.out) + 1, items[k + 1][1], j, Len(v.out) + 1)
    BY <1>3, <1>4, ReadsStill
  <2>3. Len(u.out) \in 2 .. Len(u.out)
    BY <1>4, <1>7
  <2>4. k + 1 = 1 => j = 0
    BY <1>1 DEF LaidAt
  <2>5. Chain(C, M, items[k + 1][1], j)
    BY DEF M
  <2> QED
    BY <1>4, <1>7, <2>1, <2>2, <2>3, <2>4, <2>5 DEF ItemAt, body
<1>12. after[0] = 1
  BY <1>1, <1>9 DEF LaidAt
<1>13. LaidAt(u, items, k + 1, after, taken)
  <2>1. \A i \in 1 .. k + 1 : ItemAt(u.out, M, items, after, taken, i)
    BY <1>10, <1>11
  <2>2. k + 1 # 0
    OBVIOUS
  <2> QED
    BY <1>6, <1>9, <1>12, <2>1, <2>2 DEF LaidAt, M
<1> QED
  BY <1>13 DEF Laid, u, body

\* A name and what follows it.
LEMMA LaidName ==
  ASSUME NEW w, NEW items, NEW k \in Nat, Laid(w, items, k), items[k + 1][1] \in Name
  PROVE  Laid(PutBody(EncodeName(w, items[k + 1][1]), items[k + 1][2]), items, k + 1)
<1>0. PICK name, v, N : /\ name = items[k + 1][1] /\ name \in Name
                        /\ v = EncodeName(w, name) /\ N = NamesUpTo(items, k)
  OBVIOUS
<1>1. Remembers(w, N)
  BY <1>0 DEF Laid, LaidAt
<1>2. NamesUpTo(items, k + 1) = N \cup {name}
  <2>1. 1 .. k + 1 = (1 .. k) \cup {k + 1}
    OBVIOUS
  <2> QED
    BY <1>0, <2>1 DEF NamesUpTo
<1>3. Remembers(v, N \cup {name}) /\ Carries(v.out, w.out) /\ WrittenTo(w, v, N \cup {name}, name)
  BY <1>0, <1>1, EncodedName, Zenon
<1>4. PICK j, C : /\ Reads(v.out, Len(w.out) + 1, name, j, Len(v.out) + 1)
                  /\ Chain(C, N \cup {name}, name, j)
                  /\ DOMAIN w.compression = {} => j = 0
  BY <1>3 DEF WrittenTo
<1>5. Laid(PutBody(v, items[k + 1][2]), items, k + 1)
  BY <1>0, <1>2, <1>3, <1>4, LaidMore
<1> QED
  BY <1>0, <1>5

\* The same uncompressed.
LEMMA LaidUncompressed ==
  ASSUME NEW w, NEW items, NEW k \in Nat, Laid(w, items, k), items[k + 1][1] \in Name
  PROVE  Laid(PutBody([w EXCEPT !.out = @ \o EncodeUncompressed(items[k + 1][1])],
                      items[k + 1][2]), items, k + 1)
<1> DEFINE name == items[k + 1][1]
           n == Len(name)
           cells == [i \in 1 .. n |-> Label(name[i])]
           ends == <<End>>
           more == cells \o ends
           out == w.out \o more
           v == [w EXCEPT !.out = @ \o EncodeUncompressed(name)]
           N == NamesUpTo(items, k)
           M == NamesUpTo(items, k + 1)
<1>1. Remembers(w, N)
  BY DEF Laid, LaidAt
<1>2. M = N \cup {name} /\ N \subseteq Name /\ name \in Name
  <2>1. 1 .. k + 1 = (1 .. k) \cup {k + 1}
    OBVIOUS
  <2> QED
    BY <1>1, <2>1 DEF NamesUpTo, Remembers
<1>3. n \in Nat /\ DOMAIN name = 1 .. n
  BY <1>2 DEF Name
<1>4. EncodeUncompressed(name) = more
  BY <1>3 DEF EncodeUncompressed
<1>5. v = [out |-> out, compression |-> w.compression]
  <2>1. w = [out |-> w.out, compression |-> w.compression]
    BY <1>1 DEF Remembers
  <2>2. \A x : [w EXCEPT !.out = x] = [out |-> x, compression |-> w.compression]
    BY <2>1
  <2> HIDE DEF more, name, N
  <2> QED
    BY <1>4, <2>2, Zenon
<1>6. /\ IsSeq(cells) /\ Len(cells) = n
      /\ \A i \in 1 .. n : cells[i] = Label(name[i]) /\ cells[i].kind # "pointer"
  BY <1>3, LabelCells
<1>7. IsSeq(ends) /\ Len(ends) = 1 /\ ends[1] = End /\ End.kind # "pointer"
  BY OneCell DEF End
<1> HIDE DEF cells, ends
<1>8. /\ IsSeq(more) /\ Len(more) = n + 1
      /\ \A i \in 1 .. n : more[i] = Label(name[i]) /\ more[i].kind # "pointer"
      /\ more[n + 1] = End /\ more[n + 1].kind # "pointer"
  <2>0. Joined(more, cells, ends)
    BY DEF Joined
  <2> HIDE DEF more
  <2>1. /\ IsSeq(more) /\ Len(more) = Len(cells) + Len(ends)
        /\ \A i \in 1 .. Len(cells) : more[i] = cells[i]
        /\ \A i \in 1 .. Len(ends) : more[Len(cells) + i] = ends[i]
    BY <1>6, <1>7, <2>0, SeqsConcat, SMTT(30)
  <2> QED
    BY <1>3, <1>6, <1>7, <2>1
<1>9. AreCells(more)
  <2> HIDE DEF more
  <2>1. ASSUME NEW i \in 1 .. Len(more) PROVE more[i].kind # "pointer"
    <3>1. i \in 1 .. n \/ i = n + 1
      BY <1>3, <1>8
    <3> QED
      BY <1>8, <3>1
  <2> QED
    BY <1>8, <2>1 DEF AreCells
<1>10. Joined(out, w.out, more)
  BY DEF Joined
<1>11. IsWire(w.out) /\ Len(w.out) >= 1
  BY <1>1 DEF Remembers
<1>a. Len(more) = n + 1
  BY <1>8
<1>b. more[n + 1] = End
  BY <1>8
<1> HIDE DEF more, out, name, n
<1>12. /\ IsWire(out) /\ Carries(out, w.out) /\ Len(w.out) \in Nat
       /\ Len(out) = Len(w.out) + Len(more)
       /\ \A i \in 1 .. Len(more) : out[Len(w.out) + i] = more[i]
  <2>1. PICK old : old = w.out
    OBVIOUS
  <2>2. Joined(out, old, more) /\ IsWire(old) /\ AreCells(more)
    BY <1>9, <1>10, <1>11, <2>1, Zenon
  <2>3. IsWire(out) /\ Carries(out, old) /\ Len(old) \in Nat
    BY <2>2, WireGrows
  <2>4. Len(out) = Len(old) + Len(more)
    BY <2>2, WireGrows
  <2>5. \A i \in 1 .. Len(more) : out[Len(old) + i] = more[i]
    BY <2>2, WireGrows
  <2> QED
    BY <2>1, <2>3, <2>4, <2>5, Zenon
<1>c. PICK z : z = Len(w.out) + n + 1
  OBVIOUS
<1>13. /\ z \in 2 .. Len(out) /\ z - n >= 2 /\ z + 1 = Len(out) + 1 /\ out[z] = End
       /\ \A i \in 1 .. n : z - n + i - 1 = Len(w.out) + i
  <2>0. n \in Nat /\ Len(more) = n + 1 /\ Len(w.out) \in Nat
    BY <1>3, <1>a, <1>12
  <2>1. n + 1 \in 1 .. Len(more) /\ Len(w.out) + (n + 1) = z
    BY <1>c, <2>0
  <2>2. out[z] = End
    BY <1>b, <1>12, <2>1
  <2>3. Len(out) = z
    BY <1>c, <1>12, <2>0, SMTT(30)
  <2> QED
    BY <1>11, <1>c, <2>0, <2>2, <2>3, SMTT(30)
<1>14. \A i \in 1 .. n : out[z - n + i - 1] = Label(name[i])
  <2>1. \A i \in 1 .. n : i \in 1 .. Len(more)
    BY <1>3, <1>8
  <2> QED
    BY <1>8, <1>12, <1>13, <2>1
<1>15. Suffix(name, n + 1) = Root /\ Suffix(name, 1) = name
  BY <1>2, SuffixWhole DEF n
<1>16. Reads(out, z, Suffix(name, n + 1), 0, Len(out) + 1)
  BY <1>12, <1>13, <1>15, ReadsEnd
<1>17. Reads(out, Len(w.out) + 1, name, 0, Len(out) + 1)
  <2>1. n \in 0 .. Len(name) /\ 1 \in 1 .. n + 1
    BY <1>3 DEF n
  <2>2. \A i \in 1 .. n + 1 : Reads(out, z - n + i - 1, Suffix(name, i), 0, Len(out) + 1)
    BY <1>2, <1>12, <1>13, <1>14, <1>16, <2>1, ReadsLabels
  <2>3. z - n + 1 - 1 = Len(w.out) + 1
    BY <1>3, <1>c, <1>12
  <2>4. Reads(out, z - n + 1 - 1, Suffix(name, 1), 0, Len(out) + 1)
    BY <2>1, <2>2
  <2> QED
    BY <1>15, <2>3, <2>4
<1> HIDE DEF v
<1>18. v = [out |-> v.out, compression |-> w.compression] /\ v.out = out
  BY <1>5
<1>19. M \in SUBSET Name /\ N \subseteq M
  BY <1>2
<1> HIDE DEF M, N
<1>20. Remembers(v, M)
  BY <1>1, <1>12, <1>18, <1>19, RemembersStill
<1>21. Chain({}, M, name, 0)
  BY NoChain
<1>22. Laid(PutBody(v, items[k + 1][2]), items, k + 1)
  BY <1>12, <1>17, <1>18, <1>20, <1>21, LaidMore DEF M, name
<1> QED
  BY <1>22 DEF v, name

-----------------------------------------------------------------------------
(* Parts of sequences.                                                     *)

Prefix(s, n) == [i \in 1 .. n |-> s[i]]

\* The first members of a sequence are one.
LEMMA PrefixIsSeq ==
  ASSUME NEW s, NEW n \in Nat, NEW S, \A i \in 1 .. n : s[i] \in S
  PROVE  /\ Prefix(s, n) \in Seq(S) /\ Len(Prefix(s, n)) = n /\ DOMAIN Prefix(s, n) = 1 .. n
         /\ \A i \in 1 .. n : Prefix(s, n)[i] = s[i]
<1> DEFINE p == Prefix(s, n)
<1>1. p \in [1 .. n -> S] /\ DOMAIN p = 1 .. n /\ \A i \in 1 .. n : p[i] = s[i]
  BY DEF Prefix
<1> HIDE DEF p
<1>2. p \in Seq(S)
  BY <1>1, SeqDef
<1>3. Len(p) = n
  BY <1>1, <1>2, LenProperties
<1> QED
  BY <1>1, <1>2, <1>3 DEF p

\* Prefixes from the empty one to the whole, one member longer each.
LEMMA PrefixesGrow ==
  ASSUME NEW s, IsSeq(s)
  PROVE  /\ Len(s) \in Nat /\ DOMAIN s = 1 .. Len(s)
         /\ Prefix(s, 0) = << >> /\ Prefix(s, Len(s)) = s
         /\ \A n \in 0 .. Len(s) - 1 : Append(Prefix(s, n), s[n + 1]) = Prefix(s, n + 1)
<1>1. PICK S : s \in Seq(S)
  BY DEF IsSeq
<1>2. Len(s) \in Nat /\ DOMAIN s = 1 .. Len(s) /\ \A i \in 1 .. Len(s) : s[i] \in S
  BY <1>1, LenProperties, ElementOfSeq
<1>3. \A n \in 0 .. Len(s) : Prefix(s, n) \in Seq(S) /\ Len(Prefix(s, n)) = n
                             /\ \A i \in 1 .. n : Prefix(s, n)[i] = s[i]
  <2>1. ASSUME NEW n \in 0 .. Len(s)
        PROVE  Prefix(s, n) \in Seq(S) /\ Len(Prefix(s, n)) = n
               /\ \A i \in 1 .. n : Prefix(s, n)[i] = s[i]
    <3>1. n \in Nat /\ \A i \in 1 .. n : s[i] \in S
      BY <1>2
    <3> QED
      BY <3>1, PrefixIsSeq
  <2> QED
    BY <2>1
<1>4. Prefix(s, 0) = << >>
  <2> DEFINE p == Prefix(s, 0)
  <2>1. p \in Seq(S) /\ Len(p) = 0
    BY <1>2, <1>3
  <2> HIDE DEF p
  <2>2. p = << >>
    BY <2>1, EmptySeq
  <2> QED
    BY <2>2 DEF p
<1>5. Prefix(s, Len(s)) = s
  <2> DEFINE p == Prefix(s, Len(s))
  <2>1. p \in Seq(S) /\ Len(p) = Len(s) /\ \A i \in 1 .. Len(s) : p[i] = s[i]
    BY <1>2, <1>3
  <2> HIDE DEF p
  <2>2. p = s
    BY <1>1, <2>1, SeqEqual
  <2> QED
    BY <2>2 DEF p
<1>6. ASSUME NEW n \in 0 .. Len(s) - 1
      PROVE  Append(Prefix(s, n), s[n + 1]) = Prefix(s, n + 1)
  <2> DEFINE p == Prefix(s, n)
             t == Prefix(s, n + 1)
             e == s[n + 1]
             a == Append(p, e)
  <2>1. n \in 0 .. Len(s) /\ n + 1 \in 0 .. Len(s) /\ n + 1 \in 1 .. Len(s) /\ n \in Nat
    BY <1>2
  <2>2. p \in Seq(S) /\ Len(p) = n /\ \A i \in 1 .. n : p[i] = s[i]
    BY <1>3, <2>1
  <2>3. t \in Seq(S) /\ Len(t) = n + 1 /\ \A i \in 1 .. n + 1 : t[i] = s[i]
    BY <1>3, <2>1
  <2>4. e \in S
    BY <1>2, <2>1
  <2> HIDE DEF p, t, e
  <2>5. a \in Seq(S) /\ Len(a) = n + 1 /\ a[n + 1] = e /\ \A i \in 1 .. n : a[i] = p[i]
    BY <2>2, <2>4, AppendProperties
  <2>6. ASSUME NEW i \in 1 .. n + 1 PROVE a[i] = t[i]
    <3>1. i = n + 1 \/ i \in 1 .. n
      BY <2>1
    <3> QED
      BY <2>2, <2>3, <2>5, <3>1 DEF e
  <2> HIDE DEF a
  <2>7. a = t
    BY <2>3, <2>5, <2>6, SeqEqual
  <2> QED
    BY <2>7 DEF a, p, t, e
<1> QED
  BY <1>2, <1>4, <1>5, <1>6

-----------------------------------------------------------------------------
(* Messages.                                                               *)

ItemOf(rr) == <<rr.name, [rr EXCEPT !.name = Root]>>

\* A record is made of its name and the rest.
Fits(rr) == rr.name \in Name /\ Record(ItemOf(rr)) = rr
Plain(s) == IsSeq(s) /\ \A i \in DOMAIN s : Fits(s[i]) /\ ~IsTsig(s[i])

\* Messages that answer or ask one question, with a TSIG record or without one.
Sendable(m) ==
  /\ m = [tc |-> m.tc, rcode |-> m.rcode, aa |-> m.aa, questions |-> m.questions,
          answers |-> m.answers, authority |-> m.authority, additional |-> m.additional,
          tsig |-> m.tsig]
  /\ m.tc \in BOOLEAN
  /\ \E qname, qtype : qname \in Name /\ m.questions = <<[qname |-> qname, qtype |-> qtype]>>
  /\ Plain(m.answers) /\ Plain(m.authority) /\ Plain(m.additional)
  /\ m.tsig = << >> \/ \E rr : m.tsig = <<rr>> /\ Fits(rr) /\ IsTsig(rr)
  /\ m.tc => m.answers = << >> /\ m.authority = << >> /\ m.additional = << >> /\ m.tsig = << >>

Rest(m) == m.answers \o m.authority \o m.additional
An(m) == Len(m.answers)
Ns(m) == Len(m.authority)
Ar(m) == Len(m.additional)
Ts(m) == Len(m.tsig)
Count(m) == Len(Rest(m))
Size(m) == 1 + Count(m) + Ts(m)

\* What is written of a message.
ItemsOf(m) ==
  [k \in 1 .. Size(m) |->
     IF k = 1 THEN <<m.questions[1].qname, m.questions[1].qtype>>
     ELSE IF k <= 1 + Count(m) THEN ItemOf(Rest(m)[k - 1]) ELSE ItemOf(m.tsig[1])]

\* Three sequences behind each other.
LEMMA ThreeInOne ==
  ASSUME NEW a, NEW b, NEW c, IsSeq(a), IsSeq(b), IsSeq(c),
         NEW some, Joined(some, a, b), NEW all, Joined(all, some, c)
  PROVE  /\ Len(a) \in Nat /\ Len(b) \in Nat /\ Len(c) \in Nat /\ IsSeq(all)
         /\ Len(all) = Len(a) + Len(b) + Len(c) /\ DOMAIN all = 1 .. Len(a) + Len(b) + Len(c)
         /\ \A i \in 1 .. Len(a) : all[i] = a[i]
         /\ \A i \in 1 .. Len(b) : all[Len(a) + i] = b[i]
         /\ \A i \in 1 .. Len(c) : all[Len(a) + Len(b) + i] = c[i]
<1>2. /\ IsSeq(some) /\ Len(a) \in Nat /\ Len(b) \in Nat /\ Len(some) = Len(a) + Len(b)
      /\ \A i \in 1 .. Len(a) : some[i] = a[i]
      /\ \A i \in 1 .. Len(b) : some[Len(a) + i] = b[i]
  BY SeqsConcat
<1>a. IsSeq(some)
  BY <1>2
<1>3. /\ IsSeq(all) /\ Len(c) \in Nat
      /\ Len(all) = Len(some) + Len(c) /\ DOMAIN all = 1 .. Len(some) + Len(c)
      /\ \A i \in 1 .. Len(some) : all[i] = some[i]
      /\ \A i \in 1 .. Len(c) : all[Len(some) + i] = c[i]
  <2>1. /\ IsSeq(all) /\ Len(c) \in Nat /\ Len(all) = Len(some) + Len(c)
        /\ \A i \in 1 .. Len(some) : all[i] = some[i]
        /\ \A i \in 1 .. Len(c) : all[Len(some) + i] = c[i]
    BY <1>a, SeqsConcat
  <2>2. DOMAIN all = 1 .. Len(all)
    BY <2>1, PrefixesGrow
  <2> QED
    BY <2>1, <2>2
<1>4. \A i \in 1 .. Len(a) : i \in 1 .. Len(some)
  BY <1>2
<1>5. \A i \in 1 .. Len(b) : Len(a) + i \in 1 .. Len(some)
  BY <1>2
<1> QED
  BY <1>2, <1>3, <1>4, <1>5

\* Where the records of each section are among those that are written.
LEMMA RestIs ==
  ASSUME NEW m, Sendable(m)
  PROVE  /\ An(m) \in Nat /\ Ns(m) \in Nat /\ Ar(m) \in Nat /\ Ts(m) \in 0 .. 1
         /\ Count(m) \in Nat /\ Count(m) = An(m) + Ns(m) + Ar(m) /\ DOMAIN Rest(m) = 1 .. Count(m)
         /\ Size(m) \in Nat
         /\ \A i \in 1 .. An(m) : Rest(m)[i] = m.answers[i]
         /\ \A i \in 1 .. Ns(m) : Rest(m)[An(m) + i] = m.authority[i]
         /\ \A i \in 1 .. Ar(m) : Rest(m)[An(m) + Ns(m) + i] = m.additional[i]
         /\ \A i \in 1 .. Count(m) : Rest(m)[i].name \in Name
<1>1. PICK a, b, c, all, some :
        /\ a = m.answers /\ b = m.authority /\ c = m.additional /\ all = Rest(m)
        /\ Joined(some, a, b) /\ Joined(all, some, c)
  BY DEF Joined, Rest
<1>2. Plain(a) /\ Plain(b) /\ Plain(c)
  BY <1>1 DEF Sendable
<1>3. IsSeq(a) /\ IsSeq(b) /\ IsSeq(c) /\ Joined(some, a, b) /\ Joined(all, some, c)
  BY <1>1, <1>2 DEF Plain
<1>4. /\ Len(a) \in Nat /\ Len(b) \in Nat /\ Len(c) \in Nat
      /\ Len(all) = Len(a) + Len(b) + Len(c) /\ DOMAIN all = 1 .. Len(a) + Len(b) + Len(c)
      /\ \A i \in 1 .. Len(a) : all[i] = a[i]
      /\ \A i \in 1 .. Len(b) : all[Len(a) + i] = b[i]
      /\ \A i \in 1 .. Len(c) : all[Len(a) + Len(b) + i] = c[i]
  BY <1>3, ThreeInOne
<1>5. Ts(m) \in 0 .. 1
  <2>1. PICK t : t = m.tsig
    OBVIOUS
  <2>2. t = << >> \/ \E rr : t = <<rr>>
    BY <2>1 DEF Sendable
  <2>3. Len(t) \in 0 .. 1
    BY <2>2
  <2> QED
    BY <2>1, <2>3, Zenon DEF Ts
<1>6. /\ \A i \in 1 .. Len(a) : a[i].name \in Name
      /\ \A i \in 1 .. Len(b) : b[i].name \in Name
      /\ \A i \in 1 .. Len(c) : c[i].name \in Name
  <2>1. DOMAIN a = 1 .. Len(a) /\ DOMAIN b = 1 .. Len(b) /\ DOMAIN c = 1 .. Len(c)
    BY <1>3, PrefixesGrow
  <2> QED
    BY <1>2, <2>1 DEF Plain, Fits
<1>7. ASSUME NEW i \in 1 .. Len(all) PROVE all[i].name \in Name
  <2>1. CASE i \in 1 .. Len(a)
    BY <1>4, <1>6, <2>1
  <2>2. CASE i \in Len(a) + 1 .. Len(a) + Len(b)
    <3>1. i - Len(a) \in 1 .. Len(b) /\ Len(a) + (i - Len(a)) = i
      BY <1>4, <2>2
    <3>2. all[i] = b[i - Len(a)]
      BY <1>4, <3>1
    <3> QED
      BY <1>6, <3>1, <3>2
  <2>3. CASE i \in Len(a) + Len(b) + 1 .. Len(a) + Len(b) + Len(c)
    <3> DEFINE j == i - (Len(a) + Len(b))
    <3>1. j \in 1 .. Len(c) /\ Len(a) + Len(b) + j = i
      BY <1>4, <2>3
    <3> HIDE DEF j
    <3>2. all[i] = c[j]
      BY <1>4, <3>1
    <3> QED
      BY <1>6, <3>1, <3>2
  <2> QED
    BY <1>4, <2>1, <2>2, <2>3
<1>8. An(m) = Len(a) /\ Ns(m) = Len(b) /\ Ar(m) = Len(c) /\ Count(m) = Len(all)
  BY <1>1, Zenon DEF An, Ns, Ar, Count
<1>9. Size(m) \in Nat
  BY <1>4, <1>5, <1>8 DEF Size
<1>10. /\ An(m) \in Nat /\ Ns(m) \in Nat /\ Ar(m) \in Nat
       /\ Count(m) \in Nat /\ Count(m) = An(m) + Ns(m) + Ar(m)
  BY <1>4, <1>8
<1>11. DOMAIN Rest(m) = 1 .. Count(m)
  BY <1>1, <1>4, <1>8
<1>12. \A i \in 1 .. An(m) : Rest(m)[i] = m.answers[i]
  BY <1>1, <1>4, <1>8, Zenon
<1>13. \A i \in 1 .. Ns(m) : Rest(m)[An(m) + i] = m.authority[i]
  BY <1>1, <1>4, <1>8, Zenon
<1>14. \A i \in 1 .. Ar(m) : Rest(m)[An(m) + Ns(m) + i] = m.additional[i]
  BY <1>1, <1>4, <1>8, Zenon
<1>15. \A i \in 1 .. Count(m) : Rest(m)[i].name \in Name
  BY <1>1, <1>7, <1>8, Zenon
<1> QED
  BY <1>5, <1>9, <1>10, <1>11, <1>12, <1>13, <1>14, <1>15

\* What is written: the question, the records and the TSIG record.
LEMMA ItemsAre ==
  ASSUME NEW m, Sendable(m)
  PROVE  /\ Ts(m) \in 0 .. 1 /\ Count(m) \in Nat /\ Size(m) = 1 + Count(m) + Ts(m)
         /\ ItemsOf(m)[1] = <<m.questions[1].qname, m.questions[1].qtype>>
         /\ \A i \in 1 .. Count(m) : ItemsOf(m)[1 + i] = ItemOf(Rest(m)[i])
         /\ m.tsig = << >> => Ts(m) = 0
         /\ m.tsig # << >> => Ts(m) = 1 /\ ItemsOf(m)[1 + Count(m) + 1] = ItemOf(m.tsig[1])
         /\ \A k \in 1 .. Size(m) : ItemsOf(m)[k][1] \in Name
                                    /\ ItemsOf(m)[k] = <<ItemsOf(m)[k][1], ItemsOf(m)[k][2]>>
<1> DEFINE rest == Rest(m)
           n == Count(m)
           l == Ts(m)
           s == Size(m)
           items == ItemsOf(m)
           first == <<m.questions[1].qname, m.questions[1].qtype>>
           last == ItemOf(m.tsig[1])
<1>1. n \in Nat /\ l \in 0 .. 1 /\ \A i \in 1 .. n : rest[i].name \in Name
  BY RestIs
<1>a. s = 1 + n + l
  BY DEF Size
<1>2. items = [k \in 1 .. s |->
                 IF k = 1 THEN first ELSE IF k <= 1 + n THEN ItemOf(rest[k - 1]) ELSE last]
  BY Zenon DEF ItemsOf
<1>3. m.questions[1].qname \in Name
  BY DEF Sendable
<1>4. m.tsig = << >> => l = 0
  BY DEF Ts
<1>5. m.tsig # << >> => l = 1 /\ m.tsig[1].name \in Name
  <2> SUFFICES ASSUME m.tsig # << >> PROVE l = 1 /\ m.tsig[1].name \in Name
    OBVIOUS
  <2>1. PICK rr : m.tsig = <<rr>> /\ Fits(rr)
    BY DEF Sendable
  <2> QED
    BY <2>1 DEF Ts, Fits
<1>6. \A rr : ItemOf(rr)[1] = rr.name /\ ItemOf(rr) = <<ItemOf(rr)[1], ItemOf(rr)[2]>>
  BY DEF ItemOf
<1>7. first[1] = m.questions[1].qname /\ first = <<first[1], first[2]>>
  OBVIOUS
<1> HIDE DEF rest, n, items, first, last, l, s
<1>8. 1 \in 1 .. s /\ n \in Nat /\ l \in 0 .. 1 /\ s = 1 + n + l
  BY <1>1, <1>a
<1>9. \A k \in 1 .. s : items[k] = IF k = 1 THEN first
                                   ELSE IF k <= 1 + n THEN ItemOf(rest[k - 1]) ELSE last
  BY <1>2
<1>10. items[1] = first
  BY <1>8, <1>9
<1>11. ASSUME NEW i \in 1 .. n PROVE items[1 + i] = ItemOf(rest[i])
  <2>1. 1 + i \in 1 .. s /\ 1 + i # 1 /\ 1 + i <= 1 + n /\ (1 + i) - 1 = i
    BY <1>8
  <2> QED
    BY <1>9, <2>1
<1>12. ASSUME l = 1 PROVE items[1 + n + 1] = last
  <2>1. 1 + n + 1 \in 1 .. s /\ 1 + n + 1 # 1 /\ ~(1 + n + 1 <= 1 + n)
    BY <1>8, <1>12
  <2> QED
    BY <1>9, <2>1
<1>13. ASSUME NEW k \in 1 .. s
       PROVE  items[k][1] \in Name /\ items[k] = <<items[k][1], items[k][2]>>
  <2>1. CASE k = 1
    BY <1>3, <1>7, <1>10, <2>1
  <2>2. CASE k \in 2 .. n + 1
    <3>1. k - 1 \in 1 .. n /\ 1 + (k - 1) = k
      BY <1>8, <2>2
    <3>2. items[k] = ItemOf(rest[k - 1])
      BY <1>11, <3>1
    <3>3. rest[k - 1].name \in Name
      BY <1>1, <3>1
    <3> QED
      BY <1>6, <3>2, <3>3
  <2>3. CASE k > n + 1
    <3>1. l = 1 /\ k = 1 + n + 1
      BY <1>8, <2>3
    <3>2. m.tsig # << >>
      BY <1>4, <3>1
    <3> QED
      BY <1>5, <1>6, <1>12, <3>1, <3>2 DEF last
  <2> QED
    BY <1>8, <2>1, <2>2, <2>3
<1> QED
  BY <1>4, <1>5, <1>8, <1>10, <1>11, <1>12, <1>13 DEF rest, n, items, first, last, l, s

\* After the header nothing is laid out yet.
LEMMA LaidFromHeader ==
  ASSUME NEW x, NEW items
  PROVE  Laid(Cleared(x), items, 0)
<1> DEFINE header == Body("header")
           out == <<header>>
           w == Cleared(x)
           ends == [i \in {0} |-> 1]
<1>1. w = [out |-> out, compression |-> << >>]
  BY DEF Cleared
<1>2. header.kind # "pointer"
  BY DEF Body
<1> HIDE DEF header, w, out
<1>3. IsSeq(out) /\ Len(out) = 1 /\ out[1] = header
  BY OneCell DEF out
<1>4. DOMAIN out = 1 .. 1
  BY <1>3, PrefixesGrow
<1>5. IsWire(out)
  BY <1>2, <1>3, <1>4 DEF IsWire
<1>6. w.out = out /\ w.compression = << >> /\ w = [out |-> w.out, compression |-> w.compression]
  BY <1>1
<1>7. NamesUpTo(items, 0) = {}
  BY DEF NamesUpTo
<1>8. DOMAIN w.compression = {}
  BY <1>6
<1>9. Remembers(w, {})
  BY <1>3, <1>5, <1>6, <1>8 DEF Remembers
<1>10. ends[0] = 1 /\ \A i \in 1 .. 0 : FALSE
  OBVIOUS
<1> HIDE DEF ends
<1>11. LaidAt(w, items, 0, ends, << >>)
  BY <1>3, <1>6, <1>7, <1>8, <1>9, <1>10 DEF LaidAt
<1> QED
  BY <1>11 DEF Laid, w

\* The question is the first item.
LEMMA QuestionLaid ==
  ASSUME NEW m, Sendable(m), NEW x
  PROVE  Laid(WriteQuestions(Cleared(x), m), ItemsOf(m), 1)
<1> DEFINE w == Cleared(x)
           items == ItemsOf(m)
           question == m.questions[1]
<1>1. PICK qname, qtype : m.questions = <<[qname |-> qname, qtype |-> qtype]>>
  BY DEF Sendable
<1>2. DOMAIN m.questions = 1 .. 1
  BY <1>1
<1>3. PICK f : Steps(f, "question", 0, w, m.questions, 1, PutQuestions(w, m.questions))
  <2> DEFINE qs == m.questions
  <2>1. DOMAIN qs = 1 .. 1 /\ 1 \in Nat
    BY <1>2
  <2> HIDE DEF w, qs
  <2>2. \E f : Steps(f, "question", 0, w, qs, 1, PutQuestions(w, qs))
    BY <2>1, QuestionSteps
  <2> QED
    BY <2>2 DEF qs
<1>4. f[1] = PutBody(EncodeName(w, question.qname), question.qtype)
  <2> HIDE DEF w
  <2>1. 1 \in 1 .. 1 /\ 1 - 1 = 0
    OBVIOUS
  <2>2. f[0] = w /\ \A i \in 1 .. 1 : f[i] = FoldStep("question", 0, f[i - 1], m.questions[i])
    BY <1>3 DEF Steps
  <2>3. f[1] = FoldStep("question", 0, f[0], m.questions[1])
    BY <2>1, <2>2
  <2>4. f[1] = PutQuestion(f[0], m.questions[1])
    BY <2>3 DEF FoldStep
  <2> QED
    BY <2>2, <2>4, Zenon DEF PutQuestion
<1>5. items[1] = <<question.qname, question.qtype>> /\ items[1][1] \in Name
  <2>1. /\ Size(m) = 1 + Count(m) + Ts(m) /\ Ts(m) \in 0 .. 1 /\ Count(m) \in Nat
        /\ items[1] = <<question.qname, question.qtype>>
        /\ \A k \in 1 .. Size(m) : items[k][1] \in Name
    BY ItemsAre
  <2>2. 1 \in 1 .. Size(m)
    BY <2>1
  <2> QED
    BY <2>1, <2>2
<1>6. Laid(w, items, 0)
  BY LaidFromHeader
<1>7. f[1] = WriteQuestions(w, m)
  BY <1>3, Zenon DEF Steps, WriteQuestions, PutQuestions
<1> HIDE DEF w, items, question
<1>8. items[1][1] = question.qname /\ items[1][2] = question.qtype
  BY <1>5
<1>9. items[0 + 1][1] \in Name
  BY <1>5
<1>10. Laid(PutBody(EncodeName(w, items[0 + 1][1]), items[0 + 1][2]), items, 0 + 1)
  BY <1>6, <1>9, LaidName
<1>11. Laid(PutBody(EncodeName(w, items[1][1]), items[1][2]), items, 1)
  BY <1>10
<1>12. Laid(f[1], items, 1)
  BY <1>4, <1>8, <1>11
<1> QED
  BY <1>7, <1>12 DEF w, items

\* The records follow it.
LEMMA RecordsLaid ==
  ASSUME NEW m, Sendable(m), NEW w, Laid(w, ItemsOf(m), 1)
  PROVE  Laid(WriteRecords(w, m), ItemsOf(m), Size(m))
<1> DEFINE items == ItemsOf(m)
           rest == Rest(m)
           n == Count(m)
<1>1. /\ n \in Nat /\ DOMAIN rest = 1 .. n
      /\ \A i \in 1 .. n : items[1 + i] = ItemOf(rest[i]) /\ items[1 + i][1] \in Name
  <2>1. DOMAIN rest = 1 .. n
    BY RestIs
  <2>2. /\ n \in Nat /\ Size(m) = 1 + n + Ts(m) /\ Ts(m) \in 0 .. 1
        /\ \A i \in 1 .. n : items[1 + i] = ItemOf(rest[i])
        /\ \A k \in 1 .. Size(m) : items[k][1] \in Name
    BY ItemsAre
  <2> HIDE DEF n, rest, items
  <2>3. \A i \in 1 .. n : 1 + i \in 1 .. Size(m)
    BY <2>2
  <2> QED
    BY <2>1, <2>2, <2>3
<1>2. PICK f : /\ f[0] = w /\ f[n] = PutRecords(w, rest)
               /\ \A i \in 1 .. n : f[i] = EncodeRr(f[i - 1], rest[i])
  <2>1. n \in Nat /\ DOMAIN rest = 1 .. n
    BY <1>1
  <2> HIDE DEF rest, n
  <2>2. PICK f : Steps(f, "record", 0, w, rest, n, PutRecords(w, rest))
    BY <2>1, RecordSteps
  <2>3. /\ f[0] = w /\ f[n] = PutRecords(w, rest)
        /\ \A i \in 1 .. n : f[i] = EncodeRr(f[i - 1], rest[i])
    <3>1. \A acc, rr : FoldStep("record", 0, acc, rr) = EncodeRr(acc, rr)
      BY DEF FoldStep
    <3> QED
      BY <2>2, <3>1, Zenon DEF Steps
  <2> QED
    BY <2>3
<1> HIDE DEF items, rest, n
<1>3. ASSUME NEW v, NEW rr PROVE EncodeRr(v, rr) = PutBody(EncodeName(v, ItemOf(rr)[1]), ItemOf(rr)[2])
  <2>1. ItemOf(rr)[1] = rr.name /\ ItemOf(rr)[2] = [rr EXCEPT !.name = Root]
    BY DEF ItemOf
  <2> QED
    BY <2>1, Zenon DEF EncodeRr
<1> DEFINE Good == {i \in Nat : i <= n => Laid(f[i], items, 1 + i)}
<1>4. 0 \in Good
  BY <1>2 DEF items
<1>5. ASSUME NEW i \in Nat, i \in Good PROVE i + 1 \in Good
  <2> SUFFICES ASSUME i + 1 <= n PROVE Laid(f[i + 1], items, 1 + (i + 1))
    OBVIOUS
  <2>1. i + 1 \in 1 .. n /\ (i + 1) - 1 = i /\ 1 + i = i + 1 /\ i <= n
    BY <1>1
  <2>2. Laid(f[i], items, i + 1)
    BY <1>5, <2>1
  <2>3. f[i + 1] = EncodeRr(f[i], rest[i + 1])
    BY <1>2, <2>1
  <2> DEFINE k == i + 1
  <2>4. k \in Nat
    OBVIOUS
  <2>5. items[k + 1] = ItemOf(rest[k]) /\ items[k + 1][1] \in Name
    <3>1. 1 + k = k + 1
      OBVIOUS
    <3> QED
      BY <1>1, <2>1, <3>1
  <2>6. f[k] = PutBody(EncodeName(f[i], items[k + 1][1]), items[k + 1][2])
    BY <1>3, <2>3, <2>5
  <2>7. 1 + (i + 1) = k + 1 /\ Laid(f[i], items, k)
    BY <2>2
  <2> HIDE DEF k
  <2>8. Laid(PutBody(EncodeName(f[i], items[k + 1][1]), items[k + 1][2]), items, k + 1)
    BY <2>4, <2>5, <2>7, LaidName
  <2>9. Laid(f[k], items, k + 1)
    BY <2>6, <2>8
  <2> QED
    BY <2>7, <2>9 DEF k
<1>6. Nat \subseteq Good
  <2> HIDE DEF Good
  <2> QED
    BY <1>4, <1>5, NatsBySteps
<1>7. Laid(f[n], items, 1 + n)
  BY <1>1, <1>6
<1> DEFINE records == f[n]
           tsig == m.tsig[1]
<1>8. WriteRecords(w, m) = IF m.tsig = << >> THEN records ELSE EncodeTsig(records, tsig)
  BY <1>2, Zenon DEF WriteRecords, PutRecords, rest, Rest
<1>9. /\ Size(m) = 1 + n + Ts(m)
      /\ m.tsig = << >> => Ts(m) = 0
      /\ m.tsig # << >> => Ts(m) = 1 /\ items[1 + n + 1] = ItemOf(tsig)
                           /\ items[1 + n + 1][1] \in Name
  <2>1. /\ Size(m) = 1 + n + Ts(m) /\ n \in Nat
        /\ m.tsig = << >> => Ts(m) = 0
        /\ m.tsig # << >> => Ts(m) = 1 /\ items[1 + n + 1] = ItemOf(tsig)
        /\ \A k \in 1 .. Size(m) : items[k][1] \in Name
    BY ItemsAre DEF items, rest, n
  <2>2. m.tsig # << >> => 1 + n + 1 \in 1 .. Size(m)
    BY <2>1
  <2> QED
    BY <2>1, <2>2
<1>10. CASE m.tsig = << >>
  <2>1. WriteRecords(w, m) = records /\ Size(m) = 1 + n
    BY <1>1, <1>8, <1>9, <1>10
  <2> QED
    BY <1>7, <2>1 DEF items
<1>11. CASE m.tsig # << >>
  <2> DEFINE k == 1 + n
  <2>1. /\ Size(m) = k + 1 /\ k \in Nat /\ items[k + 1][1] \in Name
        /\ items[k + 1] = ItemOf(tsig)
    BY <1>1, <1>9, <1>11
  <2>2. items[k + 1][1] = tsig.name /\ items[k + 1][2] = [tsig EXCEPT !.name = Root]
    <3> HIDE DEF tsig, k
    <3> QED
      BY <2>1 DEF ItemOf
  <2> HIDE DEF k, tsig, records
  <2>3. EncodeTsig(records, tsig) =
          PutBody([records EXCEPT !.out = @ \o EncodeUncompressed(items[k + 1][1])], items[k + 1][2])
    BY <2>2, Zenon DEF EncodeTsig
  <2>4. Laid(records, items, k)
    BY <1>7 DEF k, records
  <2>5. Laid(PutBody([records EXCEPT !.out = @ \o EncodeUncompressed(items[k + 1][1])],
                     items[k + 1][2]), items, k + 1)
    BY <2>1, <2>4, LaidUncompressed
  <2>6. Laid(WriteRecords(w, m), items, k + 1)
    BY <1>8, <1>11, <2>3, <2>5
  <2> QED
    BY <2>1, <2>6 DEF items
<1> QED
  BY <1>10, <1>11

-----------------------------------------------------------------------------
(* Decoding a message.                                                     *)

\* The first n names take few enough pointers.
Short(jumps, n) == \A i \in 1 .. n : jumps[i] <= MaxJumps

\* What has been read of a section, which begins behind an item: the first k.
AsRead(s, section, ends, jumps, from, k) ==
  /\ s = [ok |-> s.ok, next |-> s.next, items |-> s.items] /\ s.ok \in BOOLEAN
  /\ s.ok <=> Short(jumps, from + k)
  /\ s.ok => s.next = ends[from + k] + 1 /\ s.items = Prefix(section, k)

\* in is out with another header.
SameBut(in, out) == IsWire(out) /\ IsWire(in) /\ Carries(in, out) /\ Len(in) = Len(out)

HasItem(out, names, items, ends, jumps, i) ==
  ItemAt(out, names, items, ends, jumps, i) /\ items[i] = <<items[i][1], items[i][2]>>

Ready(s, ends, i) == s.ok = TRUE /\ s.next = ends[i - 1] + 1

\* t is s with one item more, if its name can be read.
WithItem(t, s, items, ends, jumps, i) ==
  /\ jumps[i] > MaxJumps => t = [s EXCEPT !.ok = FALSE]
  /\ ~(jumps[i] > MaxJumps) =>
       t = [ok |-> TRUE, next |-> ends[i] + 1, items |-> Append(s.items, items[i])]

\* An item that was laid out is read back, unless its name takes too many pointers.
LEMMA ItemRead ==
  ASSUME NEW out, NEW in, SameBut(in, out), NEW names, NEW items, NEW ends, NEW jumps, NEW i,
         HasItem(out, names, items, ends, jumps, i), NEW s, Ready(s, ends, i)
  PROVE  WithItem(DecodeItem(in, s), s, items, ends, jumps, i)
<1>0. /\ IsWire(out) /\ IsWire(in) /\ Carries(in, out) /\ Len(in) = Len(out)
      /\ ItemAt(out, names, items, ends, jumps, i)
      /\ items[i] = <<items[i][1], items[i][2]>>
      /\ s.ok = TRUE /\ s.next = ends[i - 1] + 1
  BY Zenon DEF SameBut, HasItem, Ready
<1> DEFINE d == DecodeName(in, s.next)
           j == jumps[i]
           next == ends[i]
<1>1. /\ s.next \in 2 .. Len(out) /\ j \in Nat
      /\ Reader(in)[<<0, s.next>>] =
           IF 0 + j > MaxJumps THEN Failed ELSE [ok |-> TRUE, name |-> items[i][1], next |-> next]
  <2>1. Reads(out, s.next, items[i][1], j, next)
    BY <1>0 DEF ItemAt
  <2>2. 0 \in 0 .. MaxJumps + 1
    BY CodecAssumption
  <2> QED
    BY <1>0, <2>1, <2>2 DEF Reads
<1>2. d = IF j > MaxJumps THEN Failed ELSE [ok |-> TRUE, name |-> items[i][1], next |-> next]
  <2>1. s.next \in Nat
    BY <1>0, <1>1 DEF IsWire
  <2>2. d = Reader(in)[<<0, s.next>>]
    BY <2>1, DecodeNameReads
  <2>3. 0 + j > MaxJumps <=> j > MaxJumps
    BY <1>1
  <2> QED
    BY <1>1, <2>2, <2>3
<1>3. next \in 2 .. Len(out) /\ in[next] = out[next] /\ out[next] = Body(items[i][2])
  BY <1>0 DEF ItemAt, Carries
<1>4. ~(next > Len(in)) /\ in[next].body = items[i][2]
  BY <1>0, <1>3 DEF Body, IsWire
<1>5. CASE j > MaxJumps
  <2>1. ~d.ok
    BY <1>2, <1>5 DEF Failed
  <2> HIDE DEF d, j, next
  <2> QED
    BY <1>5, <2>1, Zenon DEF DecodeItem, d, j, WithItem
<1>6. CASE ~(j > MaxJumps)
  <2>1. d.ok /\ d.name = items[i][1] /\ d.next = next
    BY <1>2, <1>6
  <2>2. <<d.name, in[d.next].body>> = items[i]
    BY <1>0, <1>4, <2>1
  <2>3. ~(d.next > Len(in)) /\ d.next + 1 = next + 1
    BY <1>4, <2>1
  <2> HIDE DEF d, j, next
  <2>4. DecodeItem(in, s) =
          IF ~s.ok \/ ~d.ok THEN [s EXCEPT !.ok = FALSE]
          ELSE IF d.next > Len(in) THEN [s EXCEPT !.ok = FALSE]
          ELSE [ok |-> TRUE, next |-> d.next + 1,
                items |-> Append(s.items, <<d.name, in[d.next].body>>)]
    BY Zenon DEF DecodeItem, d
  <2>5. DecodeItem(in, s) = [ok |-> TRUE, next |-> next + 1, items |-> Append(s.items, items[i])]
    BY <1>0, <2>1, <2>2, <2>3, <2>4, Zenon
  <2> QED
    BY <1>6, <2>5, Zenon DEF j, next, WithItem
<1> QED
  BY <1>5, <1>6, Zenon

\* A section is read one item further.
LEMMA NextRead ==
  ASSUME NEW out, NEW in, SameBut(in, out),
         NEW names, NEW items, NEW ends, NEW jumps, NEW from \in Nat, NEW k \in Nat,
         HasItem(out, names, items, ends, jumps, from + k + 1),
         NEW section, IsSeq(section), k < Len(section), section[k + 1] = items[from + k + 1],
         NEW s, AsRead(s, section, ends, jumps, from, k)
  PROVE  AsRead(DecodeItem(in, s), section, ends, jumps, from, k + 1)
<1> DEFINE i == from + k + 1
           t == DecodeItem(in, s)
<1>1. i \in Nat /\ i = from + (k + 1) /\ i - 1 = from + k
  OBVIOUS
<1>2. Short(jumps, i) <=> Short(jumps, from + k) /\ jumps[i] <= MaxJumps
  <2>1. 1 .. i = (1 .. from + k) \cup {i}
    OBVIOUS
  <2> HIDE DEF i
  <2> QED
    BY <2>1 DEF Short
<1>3. jumps[i] \in Nat
  BY DEF HasItem, ItemAt, Reads
<1>4. s = [ok |-> s.ok, next |-> s.next, items |-> s.items] /\ s.ok \in BOOLEAN
  BY DEF AsRead
<1>5. CASE ~s.ok
  <2>1. t = [s EXCEPT !.ok = FALSE]
    BY <1>5, Zenon DEF DecodeItem
  <2>2. t = [ok |-> FALSE, next |-> s.next, items |-> s.items]
    <3> HIDE DEF t
    <3> QED
      BY <1>4, <2>1
  <2>3. ~Short(jumps, from + k)
    BY <1>5 DEF AsRead
  <2> HIDE DEF i, t
  <2>4. ~Short(jumps, i)
    BY <1>2, <2>3
  <2> QED
    BY <1>1, <2>2, <2>4 DEF AsRead, t
<1>6. CASE s.ok
  <2>1. s.ok = TRUE /\ s.next = ends[i - 1] + 1 /\ s.items = Prefix(section, k)
        /\ Short(jumps, from + k)
    BY <1>1, <1>6 DEF AsRead
  <2>2. HasItem(out, names, items, ends, jumps, i) /\ section[k + 1] = items[i]
    OBVIOUS
  <2> HIDE DEF i
  <2>6. Ready(s, ends, i)
    BY <2>1 DEF Ready
  <2>7. WithItem(t, s, items, ends, jumps, i)
    BY <2>2, <2>6, ItemRead
  <2> HIDE DEF t
  <2>3. /\ jumps[i] > MaxJumps => t = [s EXCEPT !.ok = FALSE]
        /\ ~(jumps[i] > MaxJumps) =>
             t = [ok |-> TRUE, next |-> ends[i] + 1, items |-> Append(s.items, items[i])]
    BY <2>7, Zenon DEF WithItem
  <2>4. CASE jumps[i] > MaxJumps
    <3>1. t = [ok |-> FALSE, next |-> s.next, items |-> s.items]
      BY <1>4, <2>3, <2>4
    <3>2. ~Short(jumps, i)
      BY <1>2, <1>3, <2>4, CodecAssumption
    <3> QED
      BY <1>1, <3>1, <3>2 DEF AsRead, t
  <2>5. CASE ~(jumps[i] > MaxJumps)
    <3>1. t = [ok |-> TRUE, next |-> ends[i] + 1, items |-> Append(s.items, items[i])]
      BY <2>3, <2>5
    <3>2. Short(jumps, i)
      BY <1>2, <1>3, <2>1, <2>5, CodecAssumption
    <3>3. Append(s.items, items[i]) = Prefix(section, k + 1)
      <4>1. k \in 0 .. Len(section) - 1
        BY PrefixesGrow
      <4>2. Append(Prefix(section, k), section[k + 1]) = Prefix(section, k + 1)
        BY <4>1, PrefixesGrow
      <4> QED
        BY <2>1, <2>2, <4>2, Zenon
    <3> QED
      BY <1>1, <3>1, <3>2, <3>3 DEF AsRead, t
  <2> QED
    BY <2>4, <2>5
<1> QED
  BY <1>4, <1>5, <1>6

Section(items, from, n) == [i \in 1 .. n |-> items[from + i]]

\* The length and the members of a section.
LEMMA SectionIs ==
  ASSUME NEW items, NEW from \in Nat, NEW n \in Nat
  PROVE  LET s == Section(items, from, n)
         IN  /\ IsSeq(s) /\ Len(s) = n /\ DOMAIN s = 1 .. n
             /\ \A i \in 1 .. n : s[i] = items[from + i]
<1> DEFINE s == Section(items, from, n)
           S == {items[from + i] : i \in 1 .. n}
<1>1. DOMAIN s = 1 .. n /\ \A i \in 1 .. n : s[i] = items[from + i] /\ s[i] \in S
  BY DEF Section
<1>2. Prefix(s, n) = s
  BY DEF Section, Prefix
<1> HIDE DEF s, S
<1>3. Prefix(s, n) \in Seq(S) /\ Len(Prefix(s, n)) = n
  BY <1>1, PrefixIsSeq
<1> QED
  BY <1>1, <1>2, <1>3 DEF IsSeq, s

\* A section is read item by item.
LEMMA SectionRead ==
  ASSUME NEW out, NEW in, SameBut(in, out),
         NEW names, NEW items, NEW ends, NEW jumps, NEW total \in Nat,
         \A i \in 1 .. total : HasItem(out, names, items, ends, jumps, i),
         NEW from \in Nat, NEW n \in Nat, from + n <= total,
         NEW s, NEW before, NEW first, NEW m, AsRead(s, before, ends, jumps, first, m), first + m = from
  PROVE  AsRead(ReadN(in, s, n), Section(items, from, n), ends, jumps, from, n)
<1> DEFINE section == Section(items, from, n)
<1>a. IsSeq(section) /\ Len(section) = n /\ \A i \in 1 .. n : section[i] = items[from + i]
  BY SectionIs
<1>b. \A i \in from + 1 .. from + n : HasItem(out, names, items, ends, jumps, i)
  OBVIOUS
<1> HIDE DEF section
<1> DEFINE base == [s EXCEPT !.items = << >>]
           seq == [i \in 1 .. n |-> i]
<1>1. base = [ok |-> s.ok, next |-> s.next, items |-> << >>]
  BY DEF AsRead
<1>2. DOMAIN seq = 1 .. n
  OBVIOUS
<1>3. ReadN(in, s, n) = ReadItems(in, base, seq)
  BY Zenon DEF ReadN, ReadItems
<1> HIDE DEF base, seq
<1>4. PICK f : Steps(f, "item", in, base, seq, n, ReadItems(in, base, seq))
  BY <1>2, ItemSteps
<1>5. /\ f[0] = base /\ f[n] = ReadItems(in, base, seq)
      /\ \A i \in 1 .. n : f[i] = DecodeItem(in, f[i - 1])
  <2>1. \A acc, x : FoldStep("item", in, acc, x) = DecodeItem(in, acc)
    BY DEF FoldStep
  <2> QED
    BY <1>4, <2>1, Zenon DEF Steps
<1> DEFINE Good == {k \in Nat : k <= n => AsRead(f[k], section, ends, jumps, from, k)}
<1>6. 0 \in Good
  <2>1. Prefix(section, 0) = << >>
    BY <1>a, PrefixesGrow
  <2>2. from + 0 = from
    OBVIOUS
  <2>3. AsRead(base, section, ends, jumps, from, 0)
    BY <1>1, <2>1, <2>2 DEF AsRead
  <2> QED
    BY <1>5, <2>3
<1>7. ASSUME NEW k \in Nat, k \in Good PROVE k + 1 \in Good
  <2> SUFFICES ASSUME k + 1 <= n PROVE AsRead(f[k + 1], section, ends, jumps, from, k + 1)
    OBVIOUS
  <2>1. k + 1 \in 1 .. n /\ (k + 1) - 1 = k /\ k <= n /\ k < Len(section)
        /\ from + k + 1 \in from + 1 .. from + n /\ from + (k + 1) = from + k + 1
    BY <1>a
  <2>2. f[k + 1] = DecodeItem(in, f[k])
    BY <1>5, <2>1
  <2>3. AsRead(f[k], section, ends, jumps, from, k)
    BY <1>7, <2>1
  <2>4. /\ HasItem(out, names, items, ends, jumps, from + k + 1)
        /\ section[k + 1] = items[from + k + 1] /\ IsSeq(section)
    <3>1. section[k + 1] = items[from + (k + 1)]
      BY <1>a, <2>1
    <3> QED
      BY <1>a, <1>b, <2>1, <3>1
  <2>5. AsRead(DecodeItem(in, f[k]), section, ends, jumps, from, k + 1)
    BY <2>1, <2>3, <2>4, NextRead
  <2> QED
    BY <2>2, <2>5
<1>8. Nat \subseteq Good
  <2> HIDE DEF Good
  <2> QED
    BY <1>6, <1>7, NatsBySteps
<1>9. AsRead(f[n], section, ends, jumps, from, n)
  BY <1>8
<1> QED
  BY <1>3, <1>5, <1>9 DEF section

-----------------------------------------------------------------------------
(* A message and what is read of it.                                       *)

QuestionsOf(s) == [i \in DOMAIN s |-> Question(s[i])]
RecordsOf(s) == [i \in DOMAIN s |-> Record(s[i])]
With(m, additional, tsig) ==
  [tc |-> m.tc, rcode |-> m.rcode, aa |-> m.aa, questions |-> m.questions,
   answers |-> m.answers, authority |-> m.authority, additional |-> additional, tsig |-> tsig]

\* Records are put together again from their names and the rest.
LEMMA RecordsBack ==
  ASSUME NEW rrs, Plain(rrs), NEW s, DOMAIN s = 1 .. Len(rrs),
         \A i \in 1 .. Len(rrs) : s[i] = ItemOf(rrs[i])
  PROVE  RecordsOf(s) = rrs
<1>1. Len(rrs) \in Nat /\ DOMAIN rrs = 1 .. Len(rrs) /\ Prefix(rrs, Len(rrs)) = rrs
  BY PrefixesGrow DEF Plain
<1>2. \A i \in 1 .. Len(rrs) : Record(s[i]) = rrs[i]
  BY <1>1 DEF Plain, Fits
<1>3. RecordsOf(s) = [i \in 1 .. Len(rrs) |-> rrs[i]]
  BY <1>2 DEF RecordsOf
<1> QED
  BY <1>1, <1>3 DEF Prefix

Longer(s, e) == Append(s, e)

\* A TSIG record is kept apart.
LEMMA PutsAside ==
  ASSUME NEW m, NEW additional, NEW tsig, NEW rr, IsTsig(rr)
  PROVE  PutAdditional(With(m, additional, tsig), rr) = With(m, additional, <<rr>>)
<1> DEFINE w == With(m, additional, tsig)
           one == <<rr>>
<1> HIDE DEF one
<1>1. [w EXCEPT !.tsig = one] = With(m, additional, one)
  BY DEF With
<1> HIDE DEF w
<1> QED
  BY <1>1, Zenon DEF PutAdditional, w, one

\* Any other record is appended to the additional section.
LEMMA PutsLast ==
  ASSUME NEW m, NEW additional, NEW tsig, NEW rr, ~IsTsig(rr), NEW more, more = Longer(additional, rr),
         NEW w, w = With(m, additional, tsig)
  PROVE  PutAdditional(w, rr) = With(m, more, tsig)
<1>1. w.additional = additional
  BY DEF With
<1>2. [w EXCEPT !.additional = Append(@, rr)] = [w EXCEPT !.additional = more]
  <2>1. Append(w.additional, rr) = more
    BY <1>1, Zenon DEF Longer
  <2> QED
    BY <2>1, Zenon
<1>3. [w EXCEPT !.additional = more] = With(m, more, tsig)
  BY DEF With
<1> QED
  BY <1>2, <1>3, Zenon DEF PutAdditional

\* The additional records, and a TSIG record behind them, find their places.
LEMMA SortedOut ==
  ASSUME NEW m, Sendable(m), NEW seq, DOMAIN seq = 1 .. Ar(m) + Ts(m),
         \A i \in 1 .. Ar(m) : seq[i] = m.additional[i],
         Ts(m) = 1 => seq[Ar(m) + 1] = m.tsig[1]
  PROVE  PutAdditionals(With(m, << >>, << >>), seq) = m
<1> DEFINE base == With(m, << >>, << >>)
           n == Ar(m)
           l == Ts(m)
           N == n + l
<1>1. n \in Nat /\ l \in 0 .. 1
  BY RestIs
<1>2. /\ m.tsig = << >> => l = 0
      /\ m.tsig # << >> => l = 1
  BY ItemsAre
<1>3. PICK add : add = m.additional /\ Plain(add) /\ n = Len(add)
  BY DEF Sendable, Ar
<1>4. /\ Prefix(add, 0) = << >> /\ Prefix(add, n) = add /\ DOMAIN add = 1 .. n
      /\ \A i \in 0 .. n - 1 : Append(Prefix(add, i), add[i + 1]) = Prefix(add, i + 1)
  BY <1>3, PrefixesGrow DEF Plain
<1>5. \A i \in 1 .. n : seq[i] = add[i]
  BY <1>3
<1>6. \A i \in 1 .. n : ~IsTsig(add[i])
  BY <1>3, <1>4 DEF Plain
<1> HIDE DEF base, n, l, N
<1>7. PICK f : Steps(f, "additional", 0, base, seq, N, PutAdditionals(base, seq))
  <2>1. N \in Nat /\ DOMAIN seq = 1 .. N
    BY <1>1 DEF N, n, l
  <2> QED
    BY <2>1, AdditionalSteps
<1>8. /\ f[0] = base /\ f[N] = PutAdditionals(base, seq)
      /\ \A i \in 1 .. N : f[i] = PutAdditional(f[i - 1], seq[i])
  <2>1. \A acc, x : FoldStep("additional", 0, acc, x) = PutAdditional(acc, x)
    BY DEF FoldStep
  <2> QED
    BY <1>7, <2>1, Zenon DEF Steps
<1> DEFINE Good == {i \in Nat : i <= n => f[i] = With(m, Prefix(add, i), << >>)}
<1>10. 0 \in Good
  BY <1>4, <1>8 DEF base
<1>11. ASSUME NEW i \in Nat, i \in Good PROVE i + 1 \in Good
  <2> SUFFICES ASSUME i + 1 <= n PROVE f[i + 1] = With(m, Prefix(add, i + 1), << >>)
    OBVIOUS
  <2>1. i + 1 \in 1 .. n /\ i + 1 \in 1 .. N /\ (i + 1) - 1 = i /\ i <= n /\ i \in 0 .. n - 1
    BY <1>1 DEF N
  <2>2. f[i] = With(m, Prefix(add, i), << >>)
    BY <1>11, <2>1
  <2>3. f[i + 1] = PutAdditional(f[i], add[i + 1])
    BY <1>5, <1>8, <2>1
  <2>4. ~IsTsig(add[i + 1])
    BY <1>6, <2>1
  <2>5. f[i + 1] = With(m, Append(Prefix(add, i), add[i + 1]), << >>)
    <3>1. PICK x, rr, none, more, w :
            /\ x = Prefix(add, i) /\ rr = add[i + 1] /\ none = << >>
            /\ more = Longer(x, rr) /\ w = With(m, x, none)
      OBVIOUS
    <3>2. ~IsTsig(rr)
      BY <2>4, <3>1
    <3>3. PutAdditional(w, rr) = With(m, more, none)
      BY <3>1, <3>2, PutsLast
    <3>4. f[i] = w
      BY <2>2, <3>1
    <3>5. more = Append(Prefix(add, i), add[i + 1])
      BY <3>1, Zenon DEF Longer
    <3> QED
      BY <2>3, <3>1, <3>3, <3>4, <3>5
  <2>6. Append(Prefix(add, i), add[i + 1]) = Prefix(add, i + 1)
    BY <1>4, <2>1
  <2> QED
    BY <2>5, <2>6
<1>12. Nat \subseteq Good
  <2> HIDE DEF Good
  <2> QED
    BY <1>10, <1>11, NatsBySteps
<1>13. f[n] = With(m, add, << >>)
  BY <1>1, <1>4, <1>12
<1>14. m = With(m, add, m.tsig)
  BY <1>3 DEF Sendable, With
<1>15. CASE m.tsig = << >>
  <2>1. N = n
    BY <1>1, <1>2, <1>15 DEF N
  <2> QED
    BY <1>8, <1>13, <1>14, <1>15, <2>1 DEF base
<1>16. CASE m.tsig # << >>
  <2>1. N = n + 1 /\ N \in 1 .. N /\ N - 1 = n /\ l = 1
    BY <1>1, <1>2, <1>16 DEF N
  <2>2. PICK rr : m.tsig = <<rr>> /\ IsTsig(rr)
    BY <1>16 DEF Sendable
  <2>3. seq[N] = rr
    <3>1. seq[n + 1] = m.tsig[1]
      BY <2>1 DEF n, l
    <3>2. m.tsig[1] = rr
      BY <2>2
    <3> QED
      BY <2>1, <3>1, <3>2
  <2>4. f[N] = PutAdditional(f[n], rr)
    BY <1>8, <2>1, <2>3
  <2>5. f[N] = With(m, add, <<rr>>)
    BY <1>13, <2>2, <2>4, PutsAside
  <2> QED
    BY <1>8, <1>14, <2>2, <2>5 DEF base
<1> QED
  BY <1>15, <1>16

AtStart == [ok |-> TRUE, next |-> 2, items |-> << >>]

\* What is decoded, but for the additional records.
ReadSoFar(h, qd, an, ns) ==
  [tc |-> h.tc, rcode |-> h.rcode, aa |-> h.aa,
   questions |-> QuestionsOf(qd.items), answers |-> RecordsOf(an.items),
   authority |-> RecordsOf(ns.items), additional |-> << >>, tsig |-> << >>]

\* The sections of a message in, read in order.
ReadAll(in, h, qd, an, ns, ar) ==
  /\ h = in[1].body /\ qd = ReadN(in, AtStart, h.count.qd)
  /\ an = ReadN(in, qd, h.count.an) /\ ns = ReadN(in, an, h.count.ns)
  /\ ar = ReadN(in, ns, h.count.ar)

\* What becomes of them.
Decoded(h, qd, an, ns, ar) ==
  IF ~ar.ok THEN Failed
  ELSE [ok |-> TRUE, msg |-> PutAdditionals(ReadSoFar(h, qd, an, ns), RecordsOf(ar.items))]

\* DecodeMessage in the words used here.
LEMMA DecodeMessageIs ==
  ASSUME NEW in, NEW h, NEW qd, NEW an, NEW ns, NEW ar, ReadAll(in, h, qd, an, ns, ar)
  PROVE  DecodeMessage(in) = Decoded(h, qd, an, ns, ar)
BY Zenon DEF DecodeMessage, PutAdditionals, Each, QuestionsOf, RecordsOf, ReadSoFar, AtStart, ReadAll,
             Decoded

HasItems(s, items, from, n) ==
  s.ok /\ DOMAIN s.items = 1 .. n /\ \A i \in 1 .. n : s.items[i] = items[from + i]

\* The items of a section, if all of it was read.
LEMMA SectionItems ==
  ASSUME NEW items, NEW ends, NEW jumps, NEW from \in Nat, NEW n \in Nat, NEW s,
         AsRead(s, Section(items, from, n), ends, jumps, from, n),
         NEW total \in Nat, from + n <= total, Short(jumps, total)
  PROVE  HasItems(s, items, from, n)
<1>1. Short(jumps, from + n)
  BY DEF Short
<1>2. IsSeq(Section(items, from, n)) /\ Len(Section(items, from, n)) = n
  BY SectionIs
<1>3. s.items = Prefix(Section(items, from, n), n)
  BY <1>1 DEF AsRead
<1>4. Prefix(Section(items, from, n), n) = Section(items, from, n)
  BY <1>2, PrefixesGrow
<1>5. /\ DOMAIN Section(items, from, n) = 1 .. n
      /\ \A i \in 1 .. n : Section(items, from, n)[i] = items[from + i]
  BY SectionIs
<1>6. s.ok
  BY <1>1 DEF AsRead
<1> QED
  BY <1>3, <1>4, <1>5, <1>6 DEF HasItems

\* What is written is read again: all of it, or nothing at all if some name takes
\* too many pointers.
LEMMA WrittenIsRead ==
  ASSUME NEW m, Sendable(m), NEW w, NEW ends, NEW jumps,
         LaidAt(w, ItemsOf(m), Size(m), ends, jumps), NEW in,
         in = [w.out EXCEPT ![1] = Body([tc |-> m.tc, rcode |-> m.rcode, aa |-> m.aa,
                                         count |-> Counts(m, m.tc)])]
  PROVE  DecodeMessage(in) = IF Short(jumps, Size(m)) THEN [ok |-> TRUE, msg |-> m] ELSE Failed
<1> DEFINE items == ItemsOf(m)
           h == [tc |-> m.tc, rcode |-> m.rcode, aa |-> m.aa, count |-> Counts(m, m.tc)]
           header == Body(h)
           out == w.out
           names == NamesUpTo(items, Size(m))
           la == An(m)
           ln == Ns(m)
           ld == Ar(m)
           lt == Ts(m)
<1>1. /\ la \in Nat /\ ln \in Nat /\ ld \in Nat /\ lt \in 0 .. 1
      /\ Count(m) = la + ln + ld /\ Size(m) = 1 + Count(m) + lt
  BY RestIs, ItemsAre
<1>2. SameBut(in, out) /\ in[1].body = h
  <2>1. IsWire(out) /\ Len(out) >= 1 /\ in = [out EXCEPT ![1] = header]
    BY DEF LaidAt, Remembers
  <2>2. header.kind = "body" /\ header.body = h
    BY DEF Body
  <2> HIDE DEF out, header, h
  <2>3. PICK S : out \in Seq(S)
    BY <2>1 DEF IsWire, IsSeq
  <2> DEFINE U == S \cup {header}
  <2>4. out \in Seq(U) /\ header \in U
    BY <2>3, SeqMonotonic
  <2> HIDE DEF U
  <2>5. /\ in \in Seq(U) /\ Len(in) = Len(out) /\ DOMAIN in = DOMAIN out
        /\ in[1] = header /\ \A p \in DOMAIN out : p # 1 => in[p] = out[p]
    <3>1. Len(out) \in Nat /\ DOMAIN out = 1 .. Len(out) /\ 1 \in DOMAIN out
      BY <2>1 DEF IsWire
    <3>2. in \in Seq(U) /\ Len(in) = Len(out)
      <4>1. 1 \in 1 .. Len(out)
        BY <3>1
      <4>2. [out EXCEPT ![1] = header] \in Seq(U) /\ Len([out EXCEPT ![1] = header]) = Len(out)
        BY <2>4, <4>1, ExceptSeq
      <4> QED
        BY <2>1, <4>2
    <3>3. DOMAIN in = DOMAIN out /\ in[1] = header /\ \A p \in DOMAIN out : p # 1 => in[p] = out[p]
      BY <2>1, <3>1
    <3> QED
      BY <3>2, <3>3
  <2>6. IsWire(in)
    <3>1. IsSeq(in) /\ Len(in) \in Nat /\ DOMAIN in = 1 .. Len(in)
      BY <2>1, <2>5 DEF IsSeq, IsWire
    <3>2. ASSUME NEW p \in DOMAIN in, in[p].kind = "pointer" PROVE in[p].to \in Nat
      <4>1. p # 1
        BY <2>2, <2>5, <3>2
      <4> QED
        BY <2>1, <2>5, <3>2, <4>1 DEF IsWire
    <3> QED
      BY <3>1, <3>2 DEF IsWire
  <2>7. Carries(in, out)
    <3>1. Len(out) \in Nat /\ DOMAIN out = 1 .. Len(out)
      BY <2>1 DEF IsWire
    <3>2. \A p \in 2 .. Len(out) : p \in DOMAIN out /\ p # 1
      BY <3>1
    <3> QED
      BY <2>5, <3>1, <3>2 DEF Carries
  <2> QED
    BY <2>1, <2>2, <2>5, <2>6, <2>7 DEF SameBut
<1>3. \A i \in 1 .. Size(m) : HasItem(out, names, items, ends, jumps, i)
  BY ItemsAre DEF LaidAt, HasItem
<1>4. ends[0] = 1
  BY DEF LaidAt
<1>5. h.count = [qd |-> 1, an |-> la, ns |-> ln, ar |-> ld + lt]
  <2>1. Len(m.questions) = 1
    BY DEF Sendable
  <2>2. m.tc => la = 0 /\ ln = 0 /\ ld = 0 /\ lt = 0
    BY DEF Sendable, An, Ns, Ar, Ts
  <2>3. m.tc \in BOOLEAN
    BY DEF Sendable
  <2>4. Counts(m, m.tc) = [qd |-> 1, an |-> IF m.tc THEN 0 ELSE la, ns |-> IF m.tc THEN 0 ELSE ln,
                           ar |-> IF m.tc THEN 0 ELSE ld + lt]
    BY <2>1, Zenon DEF Counts, An, Ns, Ar, Ts
  <2> HIDE DEF la, ln, ld, lt
  <2>5. Counts(m, m.tc) = [qd |-> 1, an |-> la, ns |-> ln, ar |-> ld + lt]
    BY <1>1, <2>2, <2>3, <2>4
  <2> QED
    BY <2>5
<1> DEFINE start == AtStart
<1>6. AsRead(start, << >>, ends, jumps, 0, 0)
  <2>1. Prefix(<< >>, 0) = << >>
    <3>1. IsSeq(<< >>)
      BY DEF IsSeq
    <3> QED
      BY <3>1, PrefixesGrow
  <2>2. Short(jumps, 0 + 0)
    BY DEF Short
  <2> QED
    BY <1>4, <2>1, <2>2 DEF AsRead, AtStart
<1>7. PICK s0, qd, an, ns, ar :
        /\ s0 = start /\ qd = ReadN(in, s0, h.count.qd) /\ an = ReadN(in, qd, h.count.an)
        /\ ns = ReadN(in, an, h.count.ns) /\ ar = ReadN(in, ns, h.count.ar)
  OBVIOUS
<1>8. /\ qd = ReadN(in, s0, 1) /\ an = ReadN(in, qd, la)
      /\ ns = ReadN(in, an, ln) /\ ar = ReadN(in, ns, ld + lt)
      /\ AsRead(s0, << >>, ends, jumps, 0, 0)
  <2>1. h.count.qd = 1 /\ h.count.an = la /\ h.count.ns = ln /\ h.count.ar = ld + lt
    <3> HIDE DEF h, la, ln, ld, lt
    <3> QED
      BY <1>5
  <2> HIDE DEF h, la, ln, ld, lt, start
  <2> QED
    BY <1>6, <1>7, <2>1
<1> DEFINE total == Size(m)
<1>9. /\ total \in Nat /\ total = 1 + la + ln + (ld + lt)
      /\ \A i \in 1 .. total : HasItem(out, names, items, ends, jumps, i)
  <2>1. \A i \in 1 .. total : HasItem(out, names, items, ends, jumps, i)
    BY <1>3
  <2> HIDE DEF la, ln, ld, lt, out, names, items
  <2> QED
    BY <1>1, <2>1
<1>10. la \in Nat /\ ln \in Nat /\ ld \in Nat /\ lt \in 0 .. 1 /\ SameBut(in, out)
  BY <1>1, <1>2
<1> HIDE DEF la, ln, ld, lt, out, names, items, total, start
<1>11. AsRead(qd, Section(items, 0, 1), ends, jumps, 0, 1)
  <2>1. 0 + 1 <= total /\ 0 + 0 = 0 /\ 1 \in Nat
    BY <1>9, <1>10
  <2>2. AsRead(ReadN(in, s0, 1), Section(items, 0, 1), ends, jumps, 0, 1)
    BY <1>8, <1>9, <1>10, <2>1, SectionRead
  <2> QED
    BY <1>8, <2>2
<1>12. AsRead(an, Section(items, 1, la), ends, jumps, 1, la)
  <2>1. 1 + la <= total /\ 0 + 1 = 1 /\ 1 \in Nat
    BY <1>9, <1>10
  <2>2. AsRead(ReadN(in, qd, la), Section(items, 1, la), ends, jumps, 1, la)
    BY <1>9, <1>10, <1>11, <2>1, SectionRead
  <2> QED
    BY <1>8, <2>2
<1>13. AsRead(ns, Section(items, 1 + la, ln), ends, jumps, 1 + la, ln)
  <2>1. 1 + la + ln <= total /\ 1 + la \in Nat
    BY <1>9, <1>10
  <2>2. AsRead(ReadN(in, an, ln), Section(items, 1 + la, ln), ends, jumps, 1 + la, ln)
    BY <1>9, <1>10, <1>12, <2>1, SectionRead
  <2> QED
    BY <1>8, <2>2
<1>14. AsRead(ar, Section(items, 1 + la + ln, ld + lt), ends, jumps, 1 + la + ln, ld + lt)
  <2>1. 1 + la + ln + (ld + lt) <= total /\ 1 + la + ln \in Nat /\ ld + lt \in Nat
    BY <1>9, <1>10
  <2>2. AsRead(ReadN(in, ns, ld + lt), Section(items, 1 + la + ln, ld + lt), ends, jumps,
               1 + la + ln, ld + lt)
    BY <1>9, <1>10, <1>13, <2>1, SectionRead
  <2> QED
    BY <1>8, <2>2
<1>15. ar.ok <=> Short(jumps, total)
  BY <1>9, <1>14 DEF AsRead
<1> DEFINE read == ReadSoFar(h, qd, an, ns)
<1>16. DecodeMessage(in) = IF ~ar.ok THEN Failed
                           ELSE [ok |-> TRUE, msg |-> PutAdditionals(read, RecordsOf(ar.items))]
  <2>1. PICK k : k = h
    OBVIOUS
  <2>2. k = in[1].body
    BY <1>2, <2>1
  <2>3. ReadAll(in, k, qd, an, ns, ar)
    BY <1>7, <2>1, <2>2, Zenon DEF start, ReadAll
  <2> HIDE DEF h
  <2>4. DecodeMessage(in) = Decoded(k, qd, an, ns, ar)
    BY <2>3, DecodeMessageIs
  <2> QED
    BY <2>1, <2>4, Zenon DEF Decoded
<1>17. ASSUME Short(jumps, total) PROVE PutAdditionals(read, RecordsOf(ar.items)) = m
  <2>1. /\ DOMAIN qd.items = 1 .. 1 /\ qd.items[1] = items[0 + 1]
        /\ DOMAIN an.items = 1 .. la /\ \A i \in 1 .. la : an.items[i] = items[1 + i]
        /\ DOMAIN ns.items = 1 .. ln /\ \A i \in 1 .. ln : ns.items[i] = items[1 + la + i]
        /\ DOMAIN ar.items = 1 .. ld + lt
        /\ \A i \in 1 .. ld + lt : ar.items[i] = items[1 + la + ln + i]
    <3>1. /\ 0 + 1 <= total /\ 1 + la <= total /\ 1 + la + ln <= total
          /\ 1 + la + ln + (ld + lt) <= total
          /\ 1 + la \in Nat /\ 1 + la + ln \in Nat /\ ld + lt \in Nat
      BY <1>9, <1>10
    <3>2. HasItems(qd, items, 0, 1)
      BY <1>9, <1>11, <1>17, <3>1, SectionItems
    <3>3. HasItems(an, items, 1, la)
      BY <1>9, <1>10, <1>12, <1>17, <3>1, SectionItems
    <3>4. HasItems(ns, items, 1 + la, ln)
      BY <1>9, <1>10, <1>13, <1>17, <3>1, SectionItems
    <3>5. HasItems(ar, items, 1 + la + ln, ld + lt)
      BY <1>9, <1>14, <1>17, <3>1, SectionItems
    <3> QED
      BY <3>2, <3>3, <3>4, <3>5 DEF HasItems
  <2>2. QuestionsOf(qd.items) = m.questions
    <3>1. PICK qname, qtype : m.questions = <<[qname |-> qname, qtype |-> qtype]>>
      BY DEF Sendable
    <3>2. items[1] = <<qname, qtype>>
      <4>1. items[1] = <<m.questions[1].qname, m.questions[1].qtype>>
        BY ItemsAre DEF items
      <4> QED
        BY <3>1, <4>1
    <3>3. Question(qd.items[1]) = [qname |-> qname, qtype |-> qtype]
      BY <2>1, <3>2 DEF Question
    <3>4. QuestionsOf(qd.items) = [i \in 1 .. 1 |-> [qname |-> qname, qtype |-> qtype]]
      BY <2>1, <3>3 DEF QuestionsOf
    <3> QED
      BY <3>1, <3>4
  <2>3. /\ \A i \in 1 .. la : items[1 + i] = ItemOf(m.answers[i])
        /\ \A i \in 1 .. ln : items[1 + la + i] = ItemOf(m.authority[i])
        /\ \A i \in 1 .. ld : items[1 + la + ln + i] = ItemOf(m.additional[i])
        /\ lt = 1 => m.tsig # << >> /\ items[1 + la + ln + (ld + 1)] = ItemOf(m.tsig[1])
    <3> DEFINE rest == Rest(m)
               n == Count(m)
    <3>1. n = la + ln + ld /\ \A i \in 1 .. n : items[1 + i] = ItemOf(rest[i])
      <4>1. n = la + ln + ld
        BY <1>1 DEF la, ln, ld
      <4> QED
        BY <4>1, ItemsAre DEF items
    <3>2. /\ \A i \in 1 .. la : rest[i] = m.answers[i]
          /\ \A i \in 1 .. ln : rest[la + i] = m.authority[i]
          /\ \A i \in 1 .. ld : rest[la + ln + i] = m.additional[i]
      BY RestIs DEF la, ln, ld
    <3>3. lt = 1 => m.tsig # << >> /\ items[1 + n + 1] = ItemOf(m.tsig[1])
      <4>1. /\ m.tsig = << >> => lt = 0
            /\ m.tsig # << >> => items[1 + n + 1] = ItemOf(m.tsig[1])
        BY ItemsAre DEF items, lt
      <4> QED
        BY <4>1
    <3> HIDE DEF rest, n
    <3>4. \A i \in 1 .. la : items[1 + i] = ItemOf(m.answers[i])
      BY <1>10, <3>1, <3>2
    <3>5. ASSUME NEW i \in 1 .. ln PROVE items[1 + la + i] = ItemOf(m.authority[i])
      <4>1. la + i \in 1 .. n /\ 1 + la + i = 1 + (la + i)
        BY <1>10, <3>1
      <4> QED
        BY <3>1, <3>2, <4>1
    <3>6. ASSUME NEW i \in 1 .. ld PROVE items[1 + la + ln + i] = ItemOf(m.additional[i])
      <4>1. la + ln + i \in 1 .. n /\ 1 + la + ln + i = 1 + (la + ln + i)
        BY <1>10, <3>1
      <4> QED
        BY <3>1, <3>2, <4>1
    <3>7. 1 + la + ln + (ld + 1) = 1 + n + 1
      BY <1>10, <3>1
    <3> QED
      BY <3>3, <3>4, <3>5, <3>6, <3>7
  <2>4. RecordsOf(an.items) = m.answers
    <3>1. PICK a, s : a = m.answers /\ s = an.items
      OBVIOUS
    <3>2. Plain(a) /\ la = Len(a)
      BY <3>1 DEF Sendable, An, la
    <3>3. DOMAIN s = 1 .. Len(a) /\ \A i \in 1 .. Len(a) : s[i] = ItemOf(a[i])
      BY <2>1, <2>3, <3>1, <3>2
    <3> QED
      BY <3>1, <3>2, <3>3, RecordsBack
  <2>5. RecordsOf(ns.items) = m.authority
    <3>1. PICK a, s : a = m.authority /\ s = ns.items
      OBVIOUS
    <3>2. Plain(a) /\ ln = Len(a)
      BY <3>1 DEF Sendable, Ns, ln
    <3>3. DOMAIN s = 1 .. Len(a) /\ \A i \in 1 .. Len(a) : s[i] = ItemOf(a[i])
      BY <2>1, <2>3, <3>1, <3>2
    <3> QED
      BY <3>1, <3>2, <3>3, RecordsBack
  <2>6. read = With(m, << >>, << >>)
    <3>1. h.tc = m.tc /\ h.rcode = m.rcode /\ h.aa = m.aa
      OBVIOUS
    <3> HIDE DEF h
    <3> QED
      BY <2>2, <2>4, <2>5, <3>1, Zenon DEF ReadSoFar, With
  <2>7. PutAdditionals(With(m, << >>, << >>), RecordsOf(ar.items)) = m
    <3>1. PICK seq : seq = RecordsOf(ar.items)
      OBVIOUS
    <3>2. DOMAIN seq = 1 .. ld + lt /\ \A i \in 1 .. ld + lt : seq[i] = Record(ar.items[i])
      BY <2>1, <3>1 DEF RecordsOf
    <3>3. \A i \in 1 .. ld : seq[i] = m.additional[i]
      <4>1. PICK a : a = m.additional
        OBVIOUS
      <4>2. Plain(a) /\ ld = Len(a)
        BY <4>1 DEF Sendable, Ar, ld
      <4>3. \A i \in 1 .. ld : Record(ItemOf(a[i])) = a[i]
        <5>1. DOMAIN a = 1 .. Len(a)
          BY <4>2, PrefixesGrow DEF Plain
        <5> QED
          BY <4>2, <5>1 DEF Plain, Fits
      <4>4. ASSUME NEW i \in 1 .. ld PROVE seq[i] = a[i]
        <5>1. i \in 1 .. ld + lt
          BY <1>10
        <5>2. ar.items[i] = ItemOf(a[i])
          BY <2>1, <2>3, <4>1, <5>1
        <5> QED
          BY <3>2, <4>3, <5>1, <5>2
      <4> QED
        BY <4>1, <4>4
    <3>4. lt = 1 => seq[ld + 1] = m.tsig[1]
      <4> SUFFICES ASSUME lt = 1 PROVE seq[ld + 1] = m.tsig[1]
        OBVIOUS
      <4>1. ld + 1 \in 1 .. ld + lt
        BY <1>10
      <4>2. PICK rr : m.tsig = <<rr>> /\ Fits(rr)
        BY <2>3 DEF Sendable
      <4>3. seq[ld + 1] = Record(items[1 + la + ln + (ld + 1)])
        BY <2>1, <3>2, <4>1
      <4>4. items[1 + la + ln + (ld + 1)] = ItemOf(m.tsig[1]) /\ m.tsig[1] = rr
        BY <2>3, <4>2
      <4> QED
        BY <4>2, <4>3, <4>4 DEF Fits
    <3>5. /\ DOMAIN seq = 1 .. Ar(m) + Ts(m) /\ \A i \in 1 .. Ar(m) : seq[i] = m.additional[i]
          /\ Ts(m) = 1 => seq[Ar(m) + 1] = m.tsig[1]
      BY <3>2, <3>3, <3>4 DEF ld, lt
    <3> QED
      BY <3>1, <3>5, SortedOut
  <2> QED
    BY <2>6, <2>7
<1>18. CASE Short(jumps, total)
  <2> HIDE DEF read
  <2> QED
    BY <1>15, <1>16, <1>17, <1>18 DEF total
<1>19. CASE ~Short(jumps, total)
  <2> HIDE DEF read
  <2> QED
    BY <1>15, <1>16, <1>19 DEF total
<1> QED
  BY <1>18, <1>19

-----------------------------------------------------------------------------
(* Messages go and come back.                                              *)

\* Names that follow each other over more pointers than decodeName follows.
TooManyShared(names) == \E C, s, j : Chain(C, names, s, j) /\ j \in Nat /\ j > MaxJumps

Nothing == [out |-> << >>, compression |-> << >>]
HeaderOf(m) == Body([tc |-> m.tc, rcode |-> m.rcode, aa |-> m.aa, count |-> Counts(m, m.tc)])
Written(x, m) == WriteRecords(WriteQuestions(Cleared(x), m), m)

\* Without a limit a message is written as it is.
LEMMA EncodesWhole ==
  ASSUME NEW m, Sendable(m)
  PROVE  EncodeMessage(m, 0) = [Written(Nothing, m).out EXCEPT ![1] = HeaderOf(m)]
<1>1. ~(0 > 0) /\ (m.tc \/ FALSE) = m.tc
  BY DEF Sendable
<1> DEFINE full == Written(Nothing, m)
           over == 0 > 0 /\ Len(full.out) > 0
           tc == m.tc \/ over
           sent == IF over THEN WriteQuestions(Cleared(full), m) ELSE full
<1>2. EncodeMessage(m, 0) =
        [sent.out EXCEPT ![1] =
           Body([tc |-> tc, rcode |-> m.rcode, aa |-> m.aa, count |-> Counts(m, tc)])]
  BY Zenon DEF EncodeMessage, Written, Nothing
<1> HIDE DEF full
<1>3. tc = m.tc /\ sent = full
  BY <1>1
<1> HIDE DEF tc, sent
<1> QED
  BY <1>2, <1>3, Zenon DEF full, HeaderOf

\* Any message that can be sent, with any records and any names, is read as itself,
\* or as nothing if more shared names follow each other than decodeName follows
\* pointers; the question alone is always read (dns.cpp:333-409, 451-600).
THEOREM RoundTrip ==
  ASSUME NEW m, Sendable(m), NEW d, d = DecodeMessage(EncodeMessage(m, 0))
  PROVE  /\ \/ d = [ok |-> TRUE, msg |-> m]
            \/ d = Failed /\ TooManyShared(NamesUpTo(ItemsOf(m), Size(m)))
         /\ Size(m) = 1 => d = [ok |-> TRUE, msg |-> m]
<1> DEFINE w == Written(Nothing, m)
           items == ItemsOf(m)
           n == Size(m)
           names == NamesUpTo(items, n)
           in == [w.out EXCEPT ![1] = HeaderOf(m)]
<1>1. PICK ends, jumps : LaidAt(w, items, n, ends, jumps)
  <2>1. Laid(WriteQuestions(Cleared(Nothing), m), items, 1)
    BY QuestionLaid
  <2>2. Laid(w, items, n)
    BY <2>1, RecordsLaid DEF Written
  <2> QED
    BY <2>2 DEF Laid
<1>2. d = IF Short(jumps, n) THEN [ok |-> TRUE, msg |-> m] ELSE Failed
  <2>1. DecodeMessage(in) = IF Short(jumps, n) THEN [ok |-> TRUE, msg |-> m] ELSE Failed
    <3> HIDE DEF w
    <3>1. in = [w.out EXCEPT ![1] = Body([tc |-> m.tc, rcode |-> m.rcode, aa |-> m.aa,
                                          count |-> Counts(m, m.tc)])]
      BY Zenon DEF HeaderOf
    <3> HIDE DEF in
    <3> QED
      BY <1>1, <3>1, WrittenIsRead
  <2> QED
    BY <2>1, EncodesWhole
<1>3. CASE ~Short(jumps, n)
  <2>1. PICK i \in 1 .. n : ~(jumps[i] <= MaxJumps)
    BY <1>3 DEF Short
  <2>2. ItemAt(w.out, names, items, ends, jumps, i)
    BY <1>1 DEF LaidAt
  <2>3. PICK C : Chain(C, names, items[i][1], jumps[i])
    BY <2>2 DEF ItemAt
  <2>4. jumps[i] \in Nat /\ jumps[i] > MaxJumps
    <3>1. jumps[i] \in Nat
      BY <2>2 DEF ItemAt, Reads
    <3> QED
      BY <2>1, <3>1, CodecAssumption
  <2>5. TooManyShared(names)
    <3> HIDE DEF names, items, n
    <3> QED
      BY <2>3, <2>4 DEF TooManyShared
  <2>6. n # 1
    <3>1. n \in Nat /\ (i = 1 => jumps[i] = 0)
      BY <2>2, RestIs DEF ItemAt
    <3> HIDE DEF n
    <3> QED
      BY <2>1, <3>1, CodecAssumption
  <2> HIDE DEF n, names
  <2> QED
    BY <1>2, <1>3, <2>5, <2>6 DEF n, names
<1>4. CASE Short(jumps, n)
  BY <1>2, <1>4
<1> QED
  BY <1>3, <1>4

-----------------------------------------------------------------------------
(* Names that are too many.                                                *)

\* A finite set has subsets of every smaller size.
LEMMA SomeOfThem ==
  ASSUME NEW C, IsFiniteSet(C), NEW k \in Nat, k <= Cardinality(C)
  PROVE  \E D \in SUBSET C : IsFiniteSet(D) /\ Cardinality(D) = k
<1> DEFINE Good == {n \in Nat : n <= Cardinality(C) =>
                                  \E D \in SUBSET C : IsFiniteSet(D) /\ Cardinality(D) = n}
<1>1. 0 \in Good
  BY FS_EmptySet
<1>2. ASSUME NEW n \in Nat, n \in Good PROVE n + 1 \in Good
  <2> SUFFICES ASSUME n + 1 <= Cardinality(C)
               PROVE  \E D \in SUBSET C : IsFiniteSet(D) /\ Cardinality(D) = n + 1
    OBVIOUS
  <2>1. Cardinality(C) \in Nat
    BY FS_CardinalityType
  <2>2. PICK D \in SUBSET C : IsFiniteSet(D) /\ Cardinality(D) = n
    BY <1>2, <2>1
  <2>3. PICK c \in C : c \notin D
    <3>1. Cardinality(D) # Cardinality(C)
      BY <2>1, <2>2
    <3>2. D # C
      BY <3>1
    <3> QED
      BY <3>2
  <2>4. IsFiniteSet(D \cup {c}) /\ Cardinality(D \cup {c}) = n + 1
    BY <2>2, <2>3, FS_AddElement
  <2> QED
    BY <2>2, <2>3, <2>4
<1>3. Nat \subseteq Good
  <2> HIDE DEF Good
  <2> QED
    BY <1>1, <1>2, NatsBySteps
<1> QED
  BY <1>3

\* Too many names that a chain shares are deeply nested.
LEMMA TooDeep ==
  ASSUME NEW m, NEW names, TooManyShared(names), names \subseteq NamesOf(m)
  PROVE  DeeplyNested(m)
<1>1. PICK C, s, j : Chain(C, names, s, j) /\ j \in Nat /\ j > MaxJumps
  BY DEF TooManyShared
<1>2. Chain(C, NamesOf(m), s, j)
  BY <1>1, SharedByMore
<1>3. C \subseteq Shared(NamesOf(m)) /\ IsFiniteSet(C) /\ Cardinality(C) = j /\ Nested(C)
  BY <1>2 DEF Chain
<1>4. MaxJumps + 1 \in Nat /\ MaxJumps + 1 <= Cardinality(C)
  BY <1>1, <1>3, CodecAssumption
<1>5. PICK D \in SUBSET C : IsFiniteSet(D) /\ Cardinality(D) = MaxJumps + 1
  BY <1>3, <1>4, SomeOfThem
<1>6. D \in kSubset(MaxJumps + 1, Shared(NamesOf(m)))
  BY <1>3, <1>5 DEF kSubset
<1>7. Nested(D)
  BY <1>3, <1>5 DEF Nested
<1> QED
  BY <1>6, <1>7 DEF DeeplyNested

\* The names written of an unsigned message are those of its question and its records.
LEMMA NamesWritten ==
  ASSUME NEW m, Sendable(m), m.tsig = << >>
  PROVE  NamesUpTo(ItemsOf(m), Size(m)) \subseteq NamesOf(m)
<1> DEFINE items == ItemsOf(m)
           n == Count(m)
           rest == Rest(m)
<1>1. /\ n \in Nat /\ Size(m) = 1 + n /\ DOMAIN rest = 1 .. n
      /\ items[1] = <<m.questions[1].qname, m.questions[1].qtype>>
      /\ \A i \in 1 .. n : items[1 + i] = ItemOf(rest[i])
  <2>1. DOMAIN rest = 1 .. n
    BY RestIs
  <2>2. /\ n \in Nat /\ Size(m) = 1 + n + Ts(m) /\ Ts(m) = 0
        /\ items[1] = <<m.questions[1].qname, m.questions[1].qtype>>
        /\ \A i \in 1 .. n : items[1 + i] = ItemOf(rest[i])
    BY ItemsAre
  <2> HIDE DEF n, items, rest
  <2> QED
    BY <2>1, <2>2
<1>2. NamesOf(m) = {rr.name : rr \in ToSet(rest)} \cup {m.questions[1].qname}
  BY Zenon DEF NamesOf, Rest
<1> HIDE DEF items, n, rest
<1>3. ASSUME NEW i \in 1 .. Size(m) PROVE items[i][1] \in NamesOf(m)
  <2>1. CASE i = 1
    BY <1>1, <1>2, <2>1
  <2>2. CASE i # 1
    <3>1. i - 1 \in 1 .. n /\ 1 + (i - 1) = i
      BY <1>1, <2>2
    <3>2. items[i][1] = rest[i - 1].name
      <4>1. items[i] = ItemOf(rest[i - 1])
        BY <1>1, <3>1
      <4> QED
        BY <4>1 DEF ItemOf
    <3>3. rest[i - 1] \in ToSet(rest)
      BY <1>1, <3>1 DEF ToSet
    <3> QED
      BY <1>2, <3>2, <3>3
  <2> QED
    BY <2>1, <2>2
<1> QED
  BY <1>3 DEF NamesUpTo, items

-----------------------------------------------------------------------------
(* What the server sends can be sent.                                      *)

\* A record is its name and the rest.
LEMMA RecordsFit ==
  ASSUME NEW rr, NEW rest, rr.name \in Name, rest = [rr EXCEPT !.name = Root],
         rr = [rest EXCEPT !.name = rr.name]
  PROVE  Fits(rr)
<1>1. ItemOf(rr)[1] = rr.name /\ ItemOf(rr)[2] = rest
  BY DEF ItemOf
<1> QED
  BY <1>1, Zenon DEF Fits, Record

\* Records of zones can be sent.
LEMMA ZoneRecordsFit ==
  ASSUME NEW s \in Seq(Rec)
  PROVE  Plain(s)
<1>1. IsSeq(s)
  BY DEF IsSeq
<1>2. ASSUME NEW i \in DOMAIN s PROVE Fits(s[i]) /\ ~IsTsig(s[i])
  <2>1. PICK rr : rr = s[i] /\ rr \in Rec
    BY ElementOfSeq
  <2>2. rr.name \in Name /\ rr.type \in Types
    BY <2>1 DEF Rec, RRs
  <2>3. rr = [name |-> rr.name, type |-> rr.type, ttl |-> rr.ttl, target |-> rr.target, num |-> rr.num]
    BY <2>1 DEF Rec, RRs
  <2>4. rr = [[rr EXCEPT !.name = Root] EXCEPT !.name = rr.name]
    BY <2>3
  <2>5. Fits(rr)
    <3>1. PICK rest : rest = [rr EXCEPT !.name = Root]
      OBVIOUS
    <3>2. rr = [rest EXCEPT !.name = rr.name]
      BY <2>4, <3>1, Zenon
    <3> QED
      BY <2>2, <3>1, <3>2, RecordsFit
  <2>6. ~IsTsig(rr)
    BY <2>2 DEF IsTsig, Types
  <2> QED
    BY <2>1, <2>5, <2>6
<1> QED
  BY <1>1, <1>2 DEF Plain

\* So can the OPT record.
LEMMA OptFits ==
  Fits(Opt) /\ ~IsTsig(Opt)
<1>1. Opt.name \in Name
  BY EmptySeq DEF Opt, Root, Name
<1>2. PICK rest : rest = [Opt EXCEPT !.name = Root]
  OBVIOUS
<1>3. Opt = [rest EXCEPT !.name = Opt.name]
  BY <1>2 DEF Opt
<1>4. ~IsTsig(Opt)
  BY DEF Opt, IsTsig
<1> QED
  BY <1>1, <1>2, <1>3, <1>4, RecordsFit

\* And one more record behind others.
LEMMA PlainWith ==
  ASSUME NEW s, Plain(s), NEW rr, Fits(rr), ~IsTsig(rr), NEW all, Joined(all, s, <<rr>>)
  PROVE  Plain(all)
<1>1. IsSeq(s)
  BY DEF Plain
<1>2. PICK t : t = <<rr>>
  OBVIOUS
<1>3. IsSeq(t) /\ Len(t) = 1 /\ t[1] = rr
  BY <1>2, OneCell
<1>4. Joined(all, s, t)
  BY <1>2
<1>5. /\ IsSeq(all) /\ Len(s) \in Nat /\ DOMAIN all = 1 .. Len(s) + Len(t)
      /\ \A k \in 1 .. Len(s) : all[k] = s[k]
      /\ \A k \in 1 .. Len(t) : all[Len(s) + k] = t[k]
  <2>1. /\ IsSeq(all) /\ Len(s) \in Nat /\ Len(all) = Len(s) + Len(t)
        /\ \A k \in 1 .. Len(s) : all[k] = s[k]
        /\ \A k \in 1 .. Len(t) : all[Len(s) + k] = t[k]
    <3>1. IsSeq(s) /\ IsSeq(t) /\ Joined(all, s, t)
      BY <1>1, <1>3, <1>4
    <3> QED
      BY <3>1, SeqsConcat
  <2>2. DOMAIN all = 1 .. Len(all)
    BY <2>1, PrefixesGrow
  <2> QED
    BY <2>1, <2>2
<1>6. DOMAIN s = 1 .. Len(s)
  BY <1>1, PrefixesGrow
<1>7. ASSUME NEW i \in DOMAIN all PROVE Fits(all[i]) /\ ~IsTsig(all[i])
  <2>1. CASE i \in 1 .. Len(s)
    BY <1>5, <1>6, <2>1 DEF Plain
  <2>2. CASE i = Len(s) + 1
    <3>1. all[Len(s) + 1] = rr
      BY <1>3, <1>5
    <3> QED
      BY <2>2, <3>1
  <2> QED
    BY <1>3, <1>5, <2>1, <2>2
<1> QED
  BY <1>5, <1>7 DEF Plain

\* A response as a message.
HasRecords(r) == r.answers \in Seq(Rec) /\ r.authority \in Seq(Rec) /\ r.additional \in Seq(Rec)

\* Every response makes a message that can be sent.
LEMMA MessageSendable ==
  ASSUME NEW qname \in Name, NEW qtype, NEW edns, NEW r, HasRecords(r),
         NEW m, m = Message(qname, qtype, edns, r)
  PROVE  Sendable(m) /\ m.tsig = << >> /\ m.tc = FALSE
<1> DEFINE additional == r.additional \o (IF edns THEN <<Opt>> ELSE << >>)
<1>1. Plain(additional)
  <2>1. CASE edns
    <3>1. PICK a, all : a = r.additional /\ all = additional
      OBVIOUS
    <3>2. Joined(all, a, <<Opt>>)
      BY <2>1, <3>1, Zenon DEF Joined
    <3>3. Plain(a)
      BY <3>1, ZoneRecordsFit DEF HasRecords
    <3> QED
      BY <3>1, <3>2, <3>3, OptFits, PlainWith
  <2>2. CASE ~edns
    <3>1. additional = r.additional \o << >>
      BY <2>2, Zenon
    <3>2. r.additional \o << >> = r.additional
      BY ConcatEmptySeq DEF HasRecords
    <3> HIDE DEF additional
    <3> QED
      BY <3>1, <3>2, ZoneRecordsFit DEF HasRecords
  <2> QED
    BY <2>1, <2>2
<1>2. m = [tc |-> FALSE, rcode |-> r.rcode, aa |-> r.aa,
           questions |-> <<[qname |-> qname, qtype |-> qtype]>>,
           answers |-> r.answers, authority |-> r.authority,
           additional |-> additional, tsig |-> << >>]
  BY Zenon DEF Message
<1> HIDE DEF additional
<1>3. /\ m = [tc |-> m.tc, rcode |-> m.rcode, aa |-> m.aa, questions |-> m.questions,
              answers |-> m.answers, authority |-> m.authority, additional |-> m.additional,
              tsig |-> m.tsig]
      /\ m.tc = FALSE /\ m.tsig = << >> /\ m.additional = additional
      /\ m.answers = r.answers /\ m.authority = r.authority
      /\ m.questions = <<[qname |-> qname, qtype |-> qtype]>>
  BY <1>2
<1>4. Plain(m.answers) /\ Plain(m.authority) /\ Plain(m.additional)
  BY <1>1, <1>3, ZoneRecordsFit DEF HasRecords
<1> QED
  BY <1>3, <1>4 DEF Sendable

\* The greatest of some numbers is one of them.
LEMMA GreatestNumber ==
  ASSUME NEW n \in Nat, NEW S \in SUBSET (1 .. n), S # {}
  PROVE  Max(S) \in S
<1> DEFINE T == {n - i : i \in S}
<1>1. T \in SUBSET Nat /\ T # {}
  <2>1. ASSUME NEW i \in S PROVE n - i \in Nat
    OBVIOUS
  <2>2. PICK i : i \in S
    OBVIOUS
  <2> QED
    BY <2>1, <2>2
<1>2. Min(T) \in T /\ \A x \in T : Min(T) <= x
  BY <1>1, LeastNumber
<1>3. PICK i \in S : n - i = Min(T)
  BY <1>2
<1>4. \A j \in S : i >= j
  <2>1. ASSUME NEW j \in S PROVE i >= j
    <3>1. n - i <= n - j
      BY <1>2, <1>3
    <3> QED
      BY <3>1
  <2> QED
    BY <2>1
<1> QED
  BY <1>4 DEF Max

\* The transfer of a zone.
LEMMA TransferSendable ==
  ASSUME AnswerInv
  PROVE  Sendable(Transfer) /\ Transfer.tsig = << >>
<1> DEFINE rrs == ListZone(db, frame.zone)
           soas == {i \in DOMAIN rrs : rrs[i].type = "SOA"}
           last == << rrs[Max(soas)] >>
           rest == ElementsAt(rrs, DOMAIN rrs \ soas)
           r == IF soas = {} THEN [EmptyResponse EXCEPT !.aa = TRUE, !.rcode = "SERVFAIL"]
                ELSE [EmptyResponse EXCEPT !.aa = TRUE, !.answers = last \o rest \o last]
<1>1. frame.zone \in Name /\ db \in Databases /\ rrs \in Seq(Rec)
  BY FrameFields, ZoneRecords DEF AnswerInv, CallInv, ControlInv
<1>2. Transfer = Message(frame.zone, "AXFR", FALSE, r)
  BY Zenon DEF Transfer
<1>3. HasRecords(r)
  <2>1. CASE soas = {}
    <3>1. r = [EmptyResponse EXCEPT !.aa = TRUE, !.rcode = "SERVFAIL"]
      BY <2>1
    <3> HIDE DEF r
    <3> QED
      BY <3>1, EmptySeq DEF HasRecords, EmptyResponse
  <2>2. CASE soas # {}
    <3>1. last \in Seq(Rec)
      <4>1. Len(rrs) \in Nat /\ DOMAIN rrs = 1 .. Len(rrs)
        BY <1>1, LenProperties
      <4>2. Max(soas) \in DOMAIN rrs
        <5>1. soas \in SUBSET (1 .. Len(rrs))
          BY <4>1
        <5>2. Max(soas) \in soas
          <6> HIDE DEF soas
          <6> QED
            BY <2>2, <4>1, <5>1, GreatestNumber
        <5> QED
          BY <5>2
      <4>3. rrs[Max(soas)] \in Rec
        BY <1>1, <4>1, <4>2, ElementOfSeq
      <4> QED
        BY <4>3
    <3>2. rest \in Seq(Rec)
      <4> DEFINE kept == {rrs[i] : i \in (DOMAIN rrs \ soas) \cap DOMAIN rrs}
      <4>1. rest \in Seq(kept)
        <5> HIDE DEF rrs
        <5> QED
          BY <1>1, ElementsKept
      <4>2. kept \subseteq Rec
        BY <1>1, ElementOfSeq
      <4> HIDE DEF rest, kept
      <4> QED
        BY <4>1, <4>2, SeqMonotonic
    <3> HIDE DEF last, rest
    <3>3. last \o rest \o last \in Seq(Rec)
      BY <3>1, <3>2
    <3>4. PICK all : all = last \o rest \o last
      OBVIOUS
    <3>5. r = [EmptyResponse EXCEPT !.aa = TRUE, !.answers = all]
      BY <2>2, <3>4, Zenon
    <3> HIDE DEF r
    <3> QED
      BY <3>3, <3>4, <3>5, EmptySeq DEF HasRecords, EmptyResponse
  <2> QED
    BY <2>1, <2>2
<1> HIDE DEF r
<1>4. PICK m : m = Transfer
  OBVIOUS
<1>5. m = Message(frame.zone, "AXFR", FALSE, r)
  BY <1>2, <1>4
<1>6. Sendable(m) /\ m.tsig = << >>
  <2>1. \A qname \in Name : \A qtype, edns :
          m = Message(qname, qtype, edns, r) => Sendable(m) /\ m.tsig = << >>
    BY <1>3, MessageSendable
  <2> QED
    BY <1>1, <1>5, <2>1, Zenon
<1> QED
  BY <1>4, <1>6

\* The reply to a question.
LEMMA ReplySendable ==
  ASSUME AnswerInv
  PROVE  Sendable(Reply) /\ Reply.tsig = << >> /\ Reply.tc = FALSE
<1>1. q.qname \in Name /\ resp \in Responses
  BY FrameFields DEF AnswerInv, CallInv, ControlInv, q, resp
<1>2. HasRecords(resp)
  BY <1>1 DEF HasRecords, Responses
<1>3. PICK m : m = Reply
  OBVIOUS
<1>4. m = Message(q.qname, q.qtype, q.edns, resp)
  BY <1>3 DEF Reply
<1>5. Sendable(m) /\ m.tsig = << >> /\ m.tc = FALSE
  <2>1. \A qname \in Name : \A qtype, edns, r :
          HasRecords(r) /\ m = Message(qname, qtype, edns, r)
            => Sendable(m) /\ m.tsig = << >> /\ m.tc = FALSE
    BY MessageSendable
  <2> QED
    BY <1>1, <1>2, <1>4, <2>1, Zenon
<1> QED
  BY <1>3, <1>5

\* The requests of a client.
LEMMA RequestsSendable ==
  ASSUME AnswerInv, NEW m \in Requests
  PROVE  Sendable(m) /\ m.tsig = << >> /\ m.tc = FALSE
<1>1. frame.zone \in Name /\ db \in Databases
  BY FrameFields DEF AnswerInv, CallInv, ControlInv
<1>2. PICK rrs : rrs = ListZone(db, frame.zone) /\ rrs \in Seq(Rec)
  BY <1>1, ZoneRecords
<1>3. PICK r : r = [EmptyResponse EXCEPT !.authority = rrs]
  OBVIOUS
<1>4. HasRecords(EmptyResponse) /\ HasRecords(r)
  BY <1>2, <1>3, EmptySeq DEF HasRecords, EmptyResponse
<1>5. \/ m = Message(frame.zone, "AXFR", q.edns, EmptyResponse)
      \/ m = Message(frame.zone, "SOA", q.edns, r)
  BY <1>2, <1>3 DEF Requests
<1>6. \A qname \in Name : \A qtype, edns, x :
        HasRecords(x) /\ m = Message(qname, qtype, edns, x)
          => Sendable(m) /\ m.tsig = << >> /\ m.tc = FALSE
  BY MessageSendable
<1> QED
  BY <1>1, <1>4, <1>5, <1>6, Zenon

\* What is sent comes back, or its names are too deeply nested.
LEMMA SentMeansItself ==
  ASSUME NEW m, Sendable(m), m.tsig = << >>
  PROVE  LET d == DecodeMessage(EncodeMessage(m, 0))
         IN  IF d.ok THEN d.msg = m ELSE DeeplyNested(m)
<1>1. PICK d : d = DecodeMessage(EncodeMessage(m, 0))
  OBVIOUS
<1>2. CASE d = [ok |-> TRUE, msg |-> m]
  BY <1>1, <1>2
<1>3. CASE d = Failed /\ TooManyShared(NamesUpTo(ItemsOf(m), Size(m)))
  <2>1. DeeplyNested(m)
    BY <1>3, NamesWritten, TooDeep
  <2>2. ~d.ok
    BY <1>3 DEF Failed
  <2> QED
    BY <1>1, <2>1, <2>2
<1> QED
  BY <1>1, <1>2, <1>3, RoundTrip

\* Every message the server sends or keeps means what it answered: it decodes to
\* itself, or not at all when its names are deeply nested (dns.cpp:333-409, 451-600).
THEOREM MessagesMeanThemselves == Spec => []MessagesDecode
<1>1. AnswerInv => MessagesDecode
  <2> SUFFICES ASSUME AnswerInv, NEW m \in Messages
               PROVE  LET d == DecodeMessage(EncodeMessage(m, 0))
                      IN  IF d.ok THEN d.msg = m ELSE DeeplyNested(m)
    BY Zenon DEF MessagesDecode
  <2>1. m = Reply \/ m = Transfer
    BY DEF Messages
  <2>2. Sendable(m) /\ m.tsig = << >>
    BY <2>1, ReplySendable, TransferSendable
  <2> QED
    BY <2>2, SentMeansItself
<1> QED
  BY <1>1, AnswerInvariant, PTL

-----------------------------------------------------------------------------
(* Truncation.                                                             *)

\* The question alone.
CutShort(m) == [m EXCEPT !.tc = TRUE, !.answers = << >>, !.authority = << >>, !.additional = << >>]

\* Writing no records writes nothing.
LEMMA NoRecords ==
  ASSUME NEW s
  PROVE  PutRecords(s, << >>) = s
<1>1. PICK seq : seq = << >>
  OBVIOUS
<1>2. DOMAIN seq = 1 .. 0 /\ 0 \in Nat
  BY <1>1
<1>3. PICK f : Steps(f, "record", 0, s, seq, 0, PutRecords(s, seq))
  BY <1>2, RecordSteps
<1> QED
  BY <1>1, <1>3 DEF Steps

\* The question alone can be sent, as one item.
LEMMA CutFields ==
  ASSUME NEW m, Sendable(m), m.tsig = << >>, NEW cut, cut = CutShort(m)
  PROVE  /\ Sendable(cut) /\ Size(cut) = 1 /\ Rest(cut) = << >>
         /\ cut.questions = m.questions /\ cut.rcode = m.rcode /\ cut.aa = m.aa /\ cut.tc = TRUE
         /\ cut.tsig = << >> /\ HeaderOf(cut) = Body([tc |-> TRUE, rcode |-> m.rcode, aa |-> m.aa,
                                                      count |-> Counts(m, TRUE)])
<1>1. m = [tc |-> m.tc, rcode |-> m.rcode, aa |-> m.aa, questions |-> m.questions,
           answers |-> m.answers, authority |-> m.authority, additional |-> m.additional,
           tsig |-> m.tsig]
  BY DEF Sendable
<1>2. cut = [tc |-> TRUE, rcode |-> m.rcode, aa |-> m.aa, questions |-> m.questions,
             answers |-> << >>, authority |-> << >>, additional |-> << >>, tsig |-> << >>]
  <2>1. cut = [tc |-> TRUE, rcode |-> m.rcode, aa |-> m.aa, questions |-> m.questions,
               answers |-> << >>, authority |-> << >>, additional |-> << >>, tsig |-> m.tsig]
    BY <1>1 DEF CutShort
  <2> QED
    BY <2>1, Zenon
<1>3. /\ cut = [tc |-> cut.tc, rcode |-> cut.rcode, aa |-> cut.aa, questions |-> cut.questions,
                answers |-> cut.answers, authority |-> cut.authority, additional |-> cut.additional,
                tsig |-> cut.tsig]
      /\ cut.questions = m.questions /\ cut.rcode = m.rcode /\ cut.aa = m.aa /\ cut.tc = TRUE
      /\ cut.answers = << >> /\ cut.authority = << >> /\ cut.additional = << >> /\ cut.tsig = << >>
  BY <1>2
<1>4. Plain(<< >>)
  BY EmptySeq DEF Plain, IsSeq
<1>5. Sendable(cut)
  <2>1. \E qname, qtype : qname \in Name /\ m.questions = <<[qname |-> qname, qtype |-> qtype]>>
    BY DEF Sendable
  <2> QED
    BY <1>3, <1>4, <2>1 DEF Sendable
<1>6. Rest(cut) = << >>
  <2>1. << >> \o << >> \o << >> = << >>
    OBVIOUS
  <2> QED
    BY <1>3, <2>1 DEF Rest
<1>7. Size(cut) = 1
  <2>1. Len(<< >>) = 0
    OBVIOUS
  <2>2. Count(cut) = 0 /\ Ts(cut) = 0
    BY <1>3, <1>6, <2>1 DEF Count, Ts
  <2> QED
    BY <2>2 DEF Size
<1>8. Counts(cut, TRUE) = Counts(m, TRUE)
  BY <1>3 DEF Counts
<1> QED
  BY <1>3, <1>5, <1>6, <1>7, <1>8 DEF HeaderOf

\* It is written as the message is written again over its limit.
LEMMA CutWritten ==
  ASSUME NEW m, Sendable(m), m.tsig = << >>, NEW cut, cut = CutShort(m), NEW x
  PROVE  Written(Nothing, cut) = WriteQuestions(Cleared(x), m)
<1>1. PICK w : w = WriteQuestions(Cleared(x), m)
  OBVIOUS
<1>2. WriteQuestions(Cleared(Nothing), cut) = w
  <2>1. Cleared(Nothing) = Cleared(x)
    BY DEF Cleared
  <2>2. cut.questions = m.questions
    BY CutFields
  <2> QED
    BY <1>1, <2>1, <2>2, Zenon DEF WriteQuestions
<1>3. WriteRecords(w, cut) = w
  <2>1. Rest(cut) = << >> /\ cut.tsig = << >>
    BY CutFields
  <2>2. WriteRecords(w, cut) = PutRecords(w, Rest(cut))
    BY <2>1, Zenon DEF WriteRecords, PutRecords, Rest
  <2>3. PutRecords(w, << >>) = w
    BY NoRecords
  <2> QED
    BY <2>1, <2>2, <2>3
<1> QED
  BY <1>1, <1>2, <1>3 DEF Written

\* Putting the header into it does not change the length of a message.
LEMMA EncodedLength ==
  ASSUME NEW m, Sendable(m), NEW whole, whole = EncodeMessage(m, 0)
  PROVE  Len(whole) = Len(Written(Nothing, m).out) /\ Len(whole) \in Nat
<1> DEFINE full == Written(Nothing, m)
<1>0. whole = [full.out EXCEPT ![1] = HeaderOf(m)]
  BY EncodesWhole
<1>1. Laid(full, ItemsOf(m), Size(m))
  <2>1. Laid(WriteQuestions(Cleared(Nothing), m), ItemsOf(m), 1)
    BY QuestionLaid
  <2> QED
    BY <2>1, RecordsLaid DEF Written
<1> HIDE DEF full
<1>2. IsWire(full.out) /\ Len(full.out) >= 1
  BY <1>1 DEF Laid, LaidAt, Remembers
<1>3. PICK out, cell, S : out = full.out /\ cell = HeaderOf(m) /\ out \in Seq(S)
  BY <1>2 DEF IsWire, IsSeq
<1> DEFINE U == S \cup {cell}
<1>4. out \in Seq(U) /\ cell \in U
  BY <1>3, SeqMonotonic
<1> HIDE DEF U
<1>5. 1 \in 1 .. Len(out) /\ Len(out) \in Nat
  BY <1>2, <1>3 DEF IsWire
<1>6. Len([out EXCEPT ![1] = cell]) = Len(out)
  BY <1>4, <1>5, ExceptSeq
<1> QED
  BY <1>0, <1>3, <1>5, <1>6 DEF full

\* Over the limit a message is the question alone, and otherwise all of it.
LEMMA WholeOrCut ==
  ASSUME NEW m, Sendable(m), m.tsig = << >>, m.tc = FALSE, NEW limit \in Nat,
         NEW whole, whole = EncodeMessage(m, 0)
  PROVE  IF limit # 0 /\ Len(whole) > limit
         THEN EncodeMessage(m, limit) = EncodeMessage(CutShort(m), 0)
         ELSE EncodeMessage(m, limit) = whole /\ (limit = 0 \/ Len(whole) <= limit)
<1> DEFINE full == Written(Nothing, m)
           over == limit > 0 /\ Len(full.out) > limit
           tc == m.tc \/ over
           sent == IF over THEN WriteQuestions(Cleared(full), m) ELSE full
           header == Body([tc |-> tc, rcode |-> m.rcode, aa |-> m.aa, count |-> Counts(m, tc)])
<1>1. EncodeMessage(m, limit) = [sent.out EXCEPT ![1] = header]
  BY Zenon DEF EncodeMessage, Written, Nothing
<1>2. whole = [full.out EXCEPT ![1] = HeaderOf(m)]
  BY EncodesWhole
<1>3. Len(whole) = Len(full.out) /\ Len(whole) \in Nat
  BY EncodedLength
<1> HIDE DEF full
<1>4. CASE over
  <2>1. sent = WriteQuestions(Cleared(full), m) /\ tc = TRUE
    BY <1>4
  <2>2. limit # 0 /\ Len(whole) > limit
    BY <1>3, <1>4
  <2> HIDE DEF over, tc, sent
  <2>3. PICK cut : cut = CutShort(m)
    OBVIOUS
  <2>4. Written(Nothing, cut) = sent
    BY <2>1, <2>3, CutWritten
  <2>5. HeaderOf(cut) = header /\ Sendable(cut)
    BY <2>1, <2>3, CutFields
  <2> HIDE DEF header
  <2>6. EncodeMessage(cut, 0) = [Written(Nothing, cut).out EXCEPT ![1] = HeaderOf(cut)]
    BY <2>5, EncodesWhole
  <2>7. EncodeMessage(cut, 0) = EncodeMessage(m, limit)
    BY <1>1, <2>4, <2>5, <2>6
  <2> QED
    BY <2>2, <2>3, <2>7
<1>5. CASE ~over
  <2>1. sent = full /\ tc = m.tc
    BY <1>5
  <2>2. limit = 0 \/ Len(whole) <= limit
    BY <1>3, <1>5
  <2> HIDE DEF over, tc, sent
  <2>3. header = HeaderOf(m)
    BY <2>1 DEF HeaderOf
  <2> HIDE DEF header
  <2>4. EncodeMessage(m, limit) = whole
    BY <1>1, <1>2, <2>1, <2>3
  <2> QED
    BY <1>3, <2>2, <2>4
<1> QED
  BY <1>4, <1>5

\* A datagram is the whole reply, or the question alone with TC set, and keeps to
\* its limit if that has room for the question (dns.cpp:451-513,
\* server.cpp:107-111).
THEOREM DatagramsStayWhole == Spec => []DatagramsAreWhole
<1>1. AnswerInv => DatagramsAreWhole
  <2> SUFFICES ASSUME AnswerInv, NEW size \in UdpSizes
               PROVE  LET limit == UdpLimit(q.edns, size)
                          wire  == EncodeMessage(Reply, limit)
                          d     == DecodeMessage(wire)
                          whole == EncodeMessage(Reply, 0)
                          cut   == [Reply EXCEPT !.tc = TRUE, !.answers = << >>, !.authority = << >>,
                                                 !.additional = << >>]
                      IN  \/ wire = whole /\ (limit = 0 \/ Len(wire) <= limit)
                          \/ /\ limit # 0 /\ Len(whole) > limit /\ d.ok /\ d.msg = cut
                             /\ Len(wire) <= limit \/ Len(EncodeMessage(cut, 0)) > limit
    BY Zenon DEF DatagramsAreWhole
  <2>1. PICK m, limit : m = Reply /\ limit = UdpLimit(q.edns, size)
    OBVIOUS
  <2>2. limit \in Nat
    <3>1. size \in Nat /\ UdpMinSize \in Nat /\ EdnsBufsize \in Nat
      BY AnswerAssumption, CodecAssumption
    <3> QED
      BY <2>1, <3>1 DEF UdpLimit
  <2>3. Sendable(m) /\ m.tsig = << >> /\ m.tc = FALSE
    BY <2>1, ReplySendable
  <2>4. PICK whole, wire, cut, short, d :
          /\ whole = EncodeMessage(m, 0) /\ wire = EncodeMessage(m, limit) /\ cut = CutShort(m)
          /\ short = EncodeMessage(cut, 0) /\ d = DecodeMessage(short)
    OBVIOUS
  <2>5. IF limit # 0 /\ Len(whole) > limit THEN wire = short
        ELSE wire = whole /\ (limit = 0 \/ Len(whole) <= limit)
    BY <2>2, <2>3, <2>4, WholeOrCut
  <2>6. Sendable(cut) /\ Size(cut) = 1
    BY <2>3, <2>4, CutFields
  <2>7. d = [ok |-> TRUE, msg |-> cut]
    BY <2>4, <2>6, RoundTrip
  <2>8. d.ok /\ d.msg = cut
    BY <2>7
  <2>9. \/ wire = whole /\ (limit = 0 \/ Len(wire) <= limit)
        \/ limit # 0 /\ Len(whole) > limit /\ wire = short
    BY <2>5
  <2>10. wire = short => Len(wire) <= limit \/ Len(short) > limit
    <3> SUFFICES ASSUME wire = short PROVE Len(wire) <= limit \/ Len(wire) > limit
      OBVIOUS
    <3>1. Len(wire) \in Nat
      BY <2>4, <2>6, EncodedLength
    <3> QED
      BY <2>2, <3>1
  <2> QED
    BY <2>1, <2>4, <2>8, <2>9, <2>10, Zenon DEF CutShort
<1> QED
  BY <1>1, AnswerInvariant, PTL

-----------------------------------------------------------------------------
(* Signed requests.                                                        *)

TsigOf(key, mac) ==
  [name |-> key.name, type |-> "TSIG", time |-> Fudge + 1, fudge |-> Fudge, mac |-> mac]

WithTsig(m, t) == [m EXCEPT !.tsig = t]

Unsigned(m) == Sendable(m) /\ m.tsig = << >> /\ m.tc = FALSE
SignedBy(signed, m, key, mac) ==
  key.name \in Name /\ signed = WithTsig(m, <<TsigOf(key, mac)>>)
IsSigned(signed, m, key, mac) ==
  Sendable(signed) /\ signed.tsig = <<TsigOf(key, mac)>> /\ WithTsig(signed, << >>) = m

\* A signed message can be sent, and its TSIG record taken off again.
LEMMA SignedSendable ==
  ASSUME NEW m, Unsigned(m), NEW key, NEW mac, NEW signed, SignedBy(signed, m, key, mac)
  PROVE  IsSigned(signed, m, key, mac)
<1>0. PICK rr, t :
        /\ rr = TsigOf(key, mac) /\ t = <<rr>> /\ signed = WithTsig(m, t) /\ key.name \in Name
        /\ Sendable(m) /\ m.tsig = << >> /\ m.tc = FALSE
  BY Zenon DEF SignedBy, Unsigned
<1>1. PICK none : none = << >>
  OBVIOUS
<1>2. PICK tc, rcode, aa, questions, answers, authority, additional :
        m = [tc |-> tc, rcode |-> rcode, aa |-> aa, questions |-> questions, answers |-> answers,
             authority |-> authority, additional |-> additional, tsig |-> none]
  BY <1>0, <1>1 DEF Sendable
<1>3. signed = [tc |-> tc, rcode |-> rcode, aa |-> aa, questions |-> questions, answers |-> answers,
                authority |-> authority, additional |-> additional, tsig |-> t]
  <2>1. signed = [m EXCEPT !.tsig = t]
    BY <1>0, Zenon DEF WithTsig
  <2> QED
    BY <1>2, <2>1
<1>4. [signed EXCEPT !.tsig = none] = m
  BY <1>2, <1>3
<1>5. Fits(rr) /\ IsTsig(rr)
  <2>1. PICK rest : rest = [rr EXCEPT !.name = Root]
    OBVIOUS
  <2>2. rr = [name |-> key.name, type |-> "TSIG", time |-> Fudge + 1, fudge |-> Fudge, mac |-> mac]
    BY <1>0 DEF TsigOf
  <2>3. rr.name = key.name /\ rr.type = "TSIG"
    BY <2>2
  <2>4. rr = [rest EXCEPT !.name = rr.name]
    BY <2>1, <2>2
  <2> QED
    BY <1>0, <2>1, <2>3, <2>4, RecordsFit DEF IsTsig
<1>6. /\ signed = [tc |-> signed.tc, rcode |-> signed.rcode, aa |-> signed.aa,
                   questions |-> signed.questions, answers |-> signed.answers,
                   authority |-> signed.authority, additional |-> signed.additional,
                   tsig |-> signed.tsig]
      /\ signed.questions = m.questions /\ signed.answers = m.answers
      /\ signed.authority = m.authority /\ signed.additional = m.additional
      /\ signed.tc = FALSE /\ signed.tsig = t
  <2>1. m.questions = questions /\ m.answers = answers /\ m.authority = authority
        /\ m.additional = additional /\ m.tc = tc
    BY <1>2
  <2>2. signed.tc = FALSE
    <3>1. signed.tc = tc
      BY <1>3
    <3> QED
      BY <1>0, <2>1, <3>1, Zenon
  <2>3. signed = [tc |-> signed.tc, rcode |-> signed.rcode, aa |-> signed.aa,
                  questions |-> signed.questions, answers |-> signed.answers,
                  authority |-> signed.authority, additional |-> signed.additional,
                  tsig |-> signed.tsig]
    BY <1>3
  <2>4. /\ signed.questions = questions /\ signed.answers = answers
        /\ signed.authority = authority /\ signed.additional = additional /\ signed.tsig = t
    BY <1>3
  <2> QED
    BY <2>1, <2>2, <2>3, <2>4, Zenon
<1>7. signed.tsig = <<rr>>
  BY <1>0, <1>6
<1>8. Sendable(signed)
  <2>1. \E qname, qtype : qname \in Name /\ m.questions = <<[qname |-> qname, qtype |-> qtype]>>
    BY <1>0 DEF Sendable
  <2>2. Plain(m.answers) /\ Plain(m.authority) /\ Plain(m.additional)
    BY <1>0 DEF Sendable
  <2>3. \E x : signed.tsig = <<x>> /\ Fits(x) /\ IsTsig(x)
    BY <1>5, <1>7
  <2> QED
    BY <1>6, <2>1, <2>2, <2>3 DEF Sendable
<1> QED
  BY <1>0, <1>1, <1>4, <1>6, <1>8, Zenon DEF WithTsig, IsSigned

\* The server uses this key for its name.
Ours(key) == \E i \in DOMAIN TsigKeys : /\ TsigKeys[i] = key
                                        /\ \A j \in 1 .. i - 1 : TsigKeys[j].name # key.name

\* The server's key of a name, if it has one.
LEMMA FirstKey ==
  ASSUME NEW key \in ClientKeys
  PROVE  LET keys == TsigKey(key.name)
         IN  /\ keys # << >> => keys[1].name = key.name
             /\ Ours(key) <=> keys # << >> /\ keys[1].secret = key.secret
<1> DEFINE named == {i \in DOMAIN TsigKeys : TsigKeys[i].name = key.name}
           keys == TsigKey(key.name)
           ours == Ours(key)
<1>1. /\ key = [name |-> key.name, secret |-> key.secret]
      /\ Len(TsigKeys) \in Nat /\ DOMAIN TsigKeys = 1 .. Len(TsigKeys)
      /\ \A i \in DOMAIN TsigKeys : TsigKeys[i] = [name |-> TsigKeys[i].name,
                                                   secret |-> TsigKeys[i].secret]
  <2>1. \A k \in [name : Seq(STRING), secret : STRING] : k = [name |-> k.name, secret |-> k.secret]
    OBVIOUS
  <2>2. key \in [name : Seq(STRING), secret : STRING]
    BY AnswerAssumption
  <2>3. \A i \in DOMAIN TsigKeys : TsigKeys[i] \in [name : Seq(STRING), secret : STRING]
    BY TsigAssumption, ElementOfSeq, LenProperties
  <2>4. Len(TsigKeys) \in Nat /\ DOMAIN TsigKeys = 1 .. Len(TsigKeys)
    BY TsigAssumption, LenProperties
  <2> QED
    BY <2>1, <2>2, <2>3, <2>4, Zenon
<1>2. keys = IF named = {} THEN << >> ELSE <<TsigKeys[Min(named)]>>
  BY DEF TsigKey
<1>3. CASE named = {}
  <2>1. keys = << >>
    BY <1>2, <1>3
  <2>2. ~ours
    BY <1>3 DEF Ours
  <2> QED
    BY <2>1, <2>2
<1>4. CASE named # {}
  <2>1. PICK k : k = Min(named)
    OBVIOUS
  <2>2. k \in named /\ \A i \in named : k <= i
    <3>1. named \in SUBSET Nat
      BY <1>1
    <3> HIDE DEF named
    <3> QED
      BY <1>4, <2>1, <3>1, LeastNumber
  <2>3. keys # << >> /\ keys[1] = TsigKeys[k]
    <3>1. keys = <<TsigKeys[k]>>
      BY <1>2, <1>4, <2>1
    <3> HIDE DEF keys
    <3> QED
      BY <3>1
  <2>4. k \in DOMAIN TsigKeys /\ k \in Nat /\ TsigKeys[k].name = key.name
    BY <1>1, <2>2
  <2>5. \A j \in 1 .. k - 1 : TsigKeys[j].name # key.name
    <3>1. ASSUME NEW j \in 1 .. k - 1, TsigKeys[j].name = key.name PROVE FALSE
      <4>1. j \in DOMAIN TsigKeys /\ ~(k <= j)
        BY <1>1, <2>4
      <4> QED
        BY <2>2, <3>1, <4>1
    <3> QED
      BY <3>1
  <2>6. ours <=> TsigKeys[k] = key
    <3>1. ASSUME NEW i \in DOMAIN TsigKeys, TsigKeys[i] = key,
                 \A j \in 1 .. i - 1 : TsigKeys[j].name # key.name
          PROVE  i = k
      <4>1. i \in named
        BY <3>1
      <4>2. k <= i /\ i \in Nat
        BY <1>1, <2>2, <4>1
      <4>3. ~(k \in 1 .. i - 1)
        BY <2>4, <3>1
      <4> QED
        BY <1>1, <2>4, <4>2, <4>3
    <3>2. ours => TsigKeys[k] = key
      BY <3>1 DEF Ours
    <3>3. TsigKeys[k] = key => ours
      BY <2>4, <2>5 DEF Ours
    <3> QED
      BY <3>2, <3>3
  <2>7. TsigKeys[k] = key <=> TsigKeys[k].secret = key.secret
    <3>1. TsigKeys[k] = [name |-> key.name, secret |-> TsigKeys[k].secret]
      BY <1>1, <2>4
    <3> QED
      BY <1>1, <3>1
  <2> HIDE DEF ours, keys
  <2>8. /\ keys # << >> => keys[1].name = key.name
        /\ ours <=> keys # << >> /\ keys[1].secret = key.secret
    BY <2>3, <2>4, <2>6, <2>7
  <2> QED
    BY <2>8 DEF ours, keys
<1> QED
  BY <1>3, <1>4

\* Two MACs over the same are equal just when the secrets are.
LEMMA SameMac ==
  ASSUME NEW s, NEW t, NEW data
  PROVE  HmacSha256(s, data) = HmacSha256(t, data) <=> s = t
BY DEF HmacSha256

\* A signed request is accepted exactly when the key is the server's and the time
\* is right (tsig.cpp:99-196, engine.cpp:461-468).
LEMMA SignedThenChecked ==
  ASSUME NEW m, Sendable(m), m.tsig = << >>, m.tc = FALSE, NEW key \in ClientKeys,
         NEW signed, signed = SignMessage(m, key, Fudge + 1, Fudge), NEW now \in 0 .. 2 * Fudge + 2
  PROVE  /\ Sendable(signed)
         /\ Authentic(signed, now) <=> now \in 1 .. 2 * Fudge + 1 /\ Ours(key)
<1>1. PICK input, mac, rr :
        /\ input = MacInput(m, key, Fudge + 1, Fudge) /\ mac = HmacSha256(key.secret, input)
        /\ rr = TsigOf(key, mac)
  OBVIOUS
<1>2. Unsigned(m) /\ SignedBy(signed, m, key, mac)
  <2>1. signed = WithTsig(m, <<TsigOf(key, mac)>>)
    BY <1>1, Zenon DEF SignMessage, TsigOf, WithTsig
  <2>2. key.name \in Name
    BY AnswerAssumption DEF Name
  <2> QED
    BY <2>1, <2>2, Zenon DEF Unsigned, SignedBy
<1>3. IsSigned(signed, m, key, mac)
  BY <1>2, SignedSendable
<1>4. Sendable(signed) /\ signed.tsig = <<rr>> /\ [signed EXCEPT !.tsig = << >>] = m
  BY <1>1, <1>3, Zenon DEF IsSigned, WithTsig
<1>5. rr.name = key.name /\ rr.time = Fudge + 1 /\ rr.fudge = Fudge /\ rr.mac = mac
  BY <1>1 DEF TsigOf
<1>6. signed.tsig # << >> /\ signed.tsig[1] = rr
  BY <1>4
<1>7. PICK keys : keys = TsigKey(key.name)
  OBVIOUS
<1>8. Authentic(signed, now) <=> keys # << >> /\ VerifyMessage(signed, keys[1], now)
  BY <1>5, <1>6, <1>7, Zenon DEF Authentic
<1>9. Apart(now, Fudge + 1) <= Fudge <=> now \in 1 .. 2 * Fudge + 1
  BY TsigAssumption DEF Apart
<1>10. ASSUME NEW k, k.name = key.name
       PROVE  VerifyMessage(signed, k, now) <=> now \in 1 .. 2 * Fudge + 1 /\ k.secret = key.secret
  <2>1. VerifyMessage(signed, k, now) <=>
          /\ Apart(now, Fudge + 1) <= Fudge
          /\ mac = HmacSha256(k.secret, MacInput(signed, k, Fudge + 1, Fudge))
    BY <1>5, <1>6, Zenon DEF VerifyMessage
  <2>2. MacInput(signed, k, Fudge + 1, Fudge) = input
    <3>1. MacInput(signed, k, Fudge + 1, Fudge) =
            [wire |-> EncodeMessage(m, 0), name |-> key.name, time |-> Fudge + 1, fudge |-> Fudge]
      BY <1>4, <1>10, Zenon DEF MacInput
    <3>2. input =
            [wire |-> EncodeMessage(m, 0), name |-> key.name, time |-> Fudge + 1, fudge |-> Fudge]
      <4>1. [m EXCEPT !.tsig = << >>] = m
        BY DEF Sendable
      <4> QED
        BY <1>1, <4>1, Zenon DEF MacInput
    <3> QED
      BY <3>1, <3>2
  <2>3. HmacSha256(key.secret, input) = HmacSha256(k.secret, input) <=> key.secret = k.secret
    BY SameMac
  <2> QED
    BY <1>1, <1>9, <2>1, <2>2, <2>3, Zenon
<1>11. /\ keys # << >> => keys[1].name = key.name
       /\ Ours(key) <=> keys # << >> /\ keys[1].secret = key.secret
  BY <1>7, FirstKey, Zenon
<1>12. Authentic(signed, now) <=> now \in 1 .. 2 * Fudge + 1 /\ Ours(key)
  BY <1>8, <1>10, <1>11, Zenon
<1> QED
  BY <1>4, <1>12, Zenon

\* A signed request that can be decoded is accepted if it was signed with the
\* server's key of that name and at about this time, and otherwise not
\* (tsig.cpp:99-196, dns.cpp:451-596, engine.cpp:461-468).
THEOREM SignaturesAreChecked == Spec => []SignedIsAuthentic
<1>1. AnswerInv => SignedIsAuthentic
  <2> SUFFICES ASSUME AnswerInv, NEW m \in Requests, NEW key \in ClientKeys
               PROVE  LET d == DecodeMessage(EncodeMessage(SignMessage(m, key, Fudge + 1, Fudge), 0))
                      IN  d.ok => \A now \in 0 .. 2 * Fudge + 2 :
                            Authentic(d.msg, now) <=> now \in 1 .. 2 * Fudge + 1 /\ Ours(key)
    BY Zenon DEF SignedIsAuthentic, Ours
  <2>1. Sendable(m) /\ m.tsig = << >> /\ m.tc = FALSE
    BY RequestsSendable
  <2>2. PICK signed, d : /\ signed = SignMessage(m, key, Fudge + 1, Fudge)
                         /\ d = DecodeMessage(EncodeMessage(signed, 0))
    OBVIOUS
  <2>3. ASSUME NEW now \in 0 .. 2 * Fudge + 2
        PROVE  /\ Sendable(signed)
               /\ Authentic(signed, now) <=> now \in 1 .. 2 * Fudge + 1 /\ Ours(key)
    BY <2>1, <2>2, SignedThenChecked, Zenon
  <2>4. Sendable(signed)
    <3>1. 0 \in 0 .. 2 * Fudge + 2
      BY TsigAssumption
    <3> QED
      BY <2>3, <3>1
  <2>5. d = [ok |-> TRUE, msg |-> signed] \/ d = Failed
    BY <2>2, <2>4, RoundTrip
  <2>6. d.ok => d.msg = signed
    <3>1. Failed.ok = FALSE
      BY DEF Failed
    <3> QED
      BY <2>5, <3>1
  <2> QED
    BY <2>2, <2>3, <2>6, Zenon
<1> QED
  BY <1>1, AnswerInvariant, PTL

=============================================================================
