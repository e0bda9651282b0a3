--------------------------- MODULE BindFileProofs ----------------------------
(***************************************************************************)
(* Proofs about BindFileBackend, for any writers, zones, requests and any  *)
(* number of writes and crashes, and about the zone files it writes        *)
(* (ZoneFile), read again and again (ZoneReload).                          *)
(*                                                                         *)
(* The order: what folds compute, step by step; one line of a zone file;   *)
(* a whole file; the edits of a transaction; then the backend, whose       *)
(* invariant grows from the mutex and the files that are there (FilesInv)  *)
(* over what calls and zones are made of (ZoneInv) to what the files hold  *)
(* (DiskInv) and what was confirmed (KeptInv); the readings at the end.    *)
(***************************************************************************)
EXTENDS BindFileBackend, ZoneReload, TLAPS, FiniteSetTheorems, SequenceTheorems,
        WellFoundedInduction

-----------------------------------------------------------------------------
(* Folds: what a fold over a sequence computes, one member after the other.*)

\* Induction over the numbers, as a set that contains them.
LEMMA NatsBySteps ==
  ASSUME NEW S, 0 \in S, \A n \in Nat : n \in S => n + 1 \in S
  PROVE  Nat \subseteq S
<1> DEFINE Out == Nat \ S
<1>1. SUFFICES ASSUME Out # {} PROVE FALSE
  OBVIOUS
<1>2. PICK m \in Out : \A k \in Out : ~(<<k, m>> \in OpToRel(<, Nat))
  <2>1. IsWellFoundedOn(OpToRel(<, Nat), Nat)
    BY NatLessThanWellFounded
  <2> HIDE DEF Out
  <2>2. Out \subseteq Nat
    BY DEF Out
  <2> QED
    BY <1>1, <2>1, <2>2, WFMin
<1>3. m # 0 /\ m - 1 \in Nat /\ m - 1 \notin Out
  <2>1. m \in Nat /\ m # 0
    OBVIOUS
  <2>2. m - 1 \in Nat /\ <<m - 1, m>> \in OpToRel(<, Nat)
    BY <2>1 DEF OpToRel
  <2> QED
    BY <1>2, <2>1, <2>2
<1> QED
  BY <1>3

\* The two operators that are folded along a sequence here.
Step(parsing, origin, acc, x) == IF parsing = 1 THEN ReadLine(origin, acc, x) ELSE Edit(acc, x)

\* What FoldLeft makes of Step: it takes away the last element of a set of positions.
Folds(it, parsing, origin, base, seq, S) ==
  it = [s \in SUBSET S |->
          IF s = {} THEN base
          ELSE Step(parsing, origin, it[s \ {Max(s)}], seq[Max(s)])]

\* The same, position by position.
Stepwise(it, parsing, origin, base, seq, n) ==
  /\ it[1 .. 0] = base
  /\ \A i \in 1 .. n : it[1 .. i] = Step(parsing, origin, it[1 .. i - 1], seq[i])

\* The last of the first n positions.
LEMMA MaxOfPositions ==
  ASSUME NEW m \in Nat, NEW s \in SUBSET (1 .. m), s # {}
  PROVE  Max(s) \in s /\ \A x \in s : Max(s) >= x
<1>1. \E x \in s : \A y \in s : x >= y
  <2> DEFINE Out == {k \in Nat : \A x \in s : x <= m - k}
             Has == {k \in Nat : k <= m => \/ \A x \in s : x <= m - k
                                           \/ \E x \in s : \A y \in s : x >= y}
  <2>1. 0 \in Has
    OBVIOUS
  <2>2. ASSUME NEW k \in Nat, k \in Has PROVE k + 1 \in Has
    <3>1. CASE m - k \in s
      BY <2>2, <3>1
    <3>2. CASE m - k \notin s
      BY <2>2, <3>2
    <3> QED
      BY <3>1, <3>2
  <2>3. m \in Has
    <3> HIDE DEF Has
    <3> QED
      BY <2>1, <2>2, NatsBySteps
  <2>4. \/ \A x \in s : x <= m - m
        \/ \E x \in s : \A y \in s : x >= y
    BY <2>3
  <2>5. PICK x : x \in s /\ x >= 1
    <3>1. \E x : x \in s
      BY Zenon
    <3> QED
      BY <3>1
  <2>6. ~ (x <= m - m)
    BY <2>5
  <2> QED
    BY <2>4, <2>5, <2>6
<1>2. Max(s) = CHOOSE x \in s : \A y \in s : x >= y
  BY DEF Max
<1> QED
  BY <1>1, <1>2

\* A fold has a function that computes it over the sets of positions.
LEMMA FoldsExists ==
  ASSUME NEW parsing, NEW origin, NEW base, NEW seq, NEW n \in Nat
  PROVE  \E it : Folds(it, parsing, origin, base, seq, 1 .. n)
<1> DEFINE Good == {m \in Nat : \E it : Folds(it, parsing, origin, base, seq, 1 .. m)}
<1>1. 0 \in Good
  <2>1. 1 .. 0 = {}
    OBVIOUS
  <2>2. Folds([s \in {{}} |-> base], parsing, origin, base, seq, 1 .. 0)
    BY <2>1, Zenon DEF Folds
  <2> QED
    BY <2>2
<1>2. ASSUME NEW m \in Nat, m \in Good PROVE m + 1 \in Good
  <2>1. PICK it : Folds(it, parsing, origin, base, seq, 1 .. m)
    BY <1>2
  <2> DEFINE Taken(s) == Step(parsing, origin, it[s \ {m + 1}], seq[m + 1])
             g == [s \in SUBSET (1 .. m + 1) |-> IF m + 1 \in s THEN Taken(s) ELSE it[s]]
  <2>2. ASSUME NEW s \in SUBSET (1 .. m + 1)
        PROVE  g[s] = IF s = {} THEN base
                      ELSE Step(parsing, origin, g[s \ {Max(s)}], seq[Max(s)])
    <3>1. CASE m + 1 \in s
      <4>1. Max(s) = m + 1
        <5>1. s # {} /\ m + 1 \in Nat
          BY <3>1
        <5>2. Max(s) \in s /\ Max(s) >= m + 1 /\ Max(s) \in 1 .. m + 1
          BY <3>1, <5>1, MaxOfPositions
        <5> QED
          BY <5>2
      <4>2. s \ {m + 1} \in SUBSET (1 .. m + 1) /\ m + 1 \notin s \ {m + 1} /\ s # {}
        BY <3>1
      <4>3. g[s \ {m + 1}] = it[s \ {m + 1}]
        BY <4>2, Zenon
      <4>4. g[s] = Taken(s)
        BY <3>1
      <4> HIDE DEF g
      <4> QED
        BY <4>1, <4>2, <4>3, <4>4
    <3>2. CASE m + 1 \notin s
      <4>1. s \in SUBSET (1 .. m)
        BY <3>2
      <4>2. it[s] = IF s = {} THEN base
                    ELSE Step(parsing, origin, it[s \ {Max(s)}], seq[Max(s)])
        BY <2>1, <4>1, Zenon DEF Folds
      <4>3. \A r : r \in SUBSET (1 .. m + 1) /\ m + 1 \notin r => g[r] = it[r]
        BY Zenon
      <4>4. s \ {Max(s)} \in SUBSET (1 .. m + 1) /\ m + 1 \notin s \ {Max(s)}
        BY <3>2
      <4> HIDE DEF g
      <4> QED
        BY <3>2, <4>2, <4>3, <4>4
    <3> QED
      BY <3>1, <3>2
  <2>3. g = [s \in SUBSET (1 .. m + 1) |-> g[s]]
    OBVIOUS
  <2> HIDE DEF g
  <2>4. Folds(g, parsing, origin, base, seq, 1 .. m + 1)
    BY <2>2, <2>3, Zenon DEF Folds
  <2> QED
    BY <2>4
<1>3. n \in Good
  <2> HIDE DEF Good
  <2> QED
    BY <1>1, <1>2, NatsBySteps
<1> QED
  BY <1>3

\* A fold along a sequence, position by position.
LEMMA FoldsStepwise ==
  ASSUME NEW parsing, NEW origin, NEW base, NEW seq, NEW n \in Nat,
         NEW it, Folds(it, parsing, origin, base, seq, 1 .. n)
  PROVE  Stepwise(it, parsing, origin, base, seq, n)
<1>1. \A s \in SUBSET (1 .. n) :
        it[s] = IF s = {} THEN base
                ELSE Step(parsing, origin, it[s \ {Max(s)}], seq[Max(s)])
  BY Zenon DEF Folds
<1>2. 1 .. 0 = {} /\ {} \in SUBSET (1 .. n)
  OBVIOUS
<1>3. ASSUME NEW i \in 1 .. n
      PROVE  it[1 .. i] = Step(parsing, origin, it[1 .. i - 1], seq[i])
  <2>1. 1 .. i \in SUBSET (1 .. n) /\ i \in 1 .. i /\ 1 .. i # {}
    OBVIOUS
  <2>2. Max(1 .. i) = i
    <3>1. Max(1 .. i) \in 1 .. i /\ Max(1 .. i) >= i
      BY <2>1, MaxOfPositions
    <3> QED
      BY <3>1
  <2>3. (1 .. i) \ {i} = 1 .. i - 1
    OBVIOUS
  <2> QED
    BY <1>1, <2>1, <2>2, <2>3
<1> QED
  BY <1>1, <1>2, <1>3 DEF Stepwise

\* A transaction edits call by call.
LEMMA EditSteps ==
  ASSUME NEW rrs, NEW ops, NEW n \in Nat, DOMAIN ops = 1 .. n
  PROVE  \E f : /\ f[0] = rrs /\ f[n] = Edited(rrs, ops)
                /\ \A i \in 1 .. n : f[i] = Edit(f[i - 1], ops[i])
<1> DEFINE it == CHOOSE it : Folds(it, 0, Root, rrs, ops, 1 .. n)
           Fold(x) == x = [s \in SUBSET (1 .. n) |->
                           IF s = {} THEN rrs ELSE Edit(x[s \ {Max(s)}], ops[Max(s)])]
           edited == CHOOSE x : Fold(x)
<1>1. Edited(rrs, ops) = edited[1 .. n]
  BY Zenon DEF Edited, FoldLeft, MapThenFoldSet
<1>2. \A x : Fold(x) <=> Folds(x, 0, Root, rrs, ops, 1 .. n)
  BY DEF Folds, Step
<1>3. Folds(edited, 0, Root, rrs, ops, 1 .. n)
  <2>1. \E x : Fold(x)
    BY <1>2, FoldsExists
  <2> HIDE DEF Fold
  <2> QED
    BY <1>2, <2>1
<1> HIDE DEF edited
<1> DEFINE f == [i \in 0 .. n |-> edited[1 .. i]]
<1>4. /\ edited[1 .. 0] = rrs
      /\ \A i \in 1 .. n : edited[1 .. i] = Edit(edited[1 .. i - 1], ops[i])
  <2>1. Stepwise(edited, 0, Root, rrs, ops, n)
    BY <1>3, FoldsStepwise
  <2> QED
    BY <2>1 DEF Stepwise, Step
<1>5. /\ f[0] = rrs /\ f[n] = Edited(rrs, ops)
      /\ \A i \in 1 .. n : f[i] = Edit(f[i - 1], ops[i])
  <2>1. \A i \in 0 .. n : f[i] = edited[1 .. i]
    OBVIOUS
  <2>2. 0 \in 0 .. n /\ n \in 0 .. n /\ \A i \in 1 .. n : i \in 0 .. n /\ i - 1 \in 0 .. n
    OBVIOUS
  <2> HIDE DEF f
  <2> QED
    BY <1>1, <1>4, <2>1, <2>2
<1> QED
  BY <1>5

\* A text is read line by line.
LEMMA ParseSteps ==
  ASSUME NEW origin, NEW lines, NEW n \in Nat, DOMAIN lines = 1 .. n
  PROVE  \E f : /\ f[0] = [ok |-> TRUE, last |-> origin, rrs |-> << >>]
                /\ f[n] = ParseZoneText(origin, lines)
                /\ \A i \in 1 .. n : f[i] = ReadLine(origin, f[i - 1], lines[i])
<1> DEFINE base == [ok |-> TRUE, last |-> origin, rrs |-> << >>]
           Fold(x) == x = [s \in SUBSET (1 .. n) |->
                           IF s = {} THEN base
                           ELSE ReadLine(origin, x[s \ {Max(s)}], lines[Max(s)])]
           parsed == CHOOSE x : Fold(x)
<1>1. ParseZoneText(origin, lines) = parsed[1 .. n]
  BY Zenon DEF ParseZoneText, FoldLeft, MapThenFoldSet
<1>2. \A x : Fold(x) <=> Folds(x, 1, origin, base, lines, 1 .. n)
  BY DEF Folds, Step
<1>3. Folds(parsed, 1, origin, base, lines, 1 .. n)
  <2>1. \E x : Fold(x)
    <3> HIDE DEF base
    <3> QED
      BY <1>2, FoldsExists
  <2> HIDE DEF Fold
  <2> QED
    BY <1>2, <2>1
<1> HIDE DEF parsed, base
<1> DEFINE f == [i \in 0 .. n |-> parsed[1 .. i]]
<1>4. /\ parsed[1 .. 0] = base
      /\ \A i \in 1 .. n : parsed[1 .. i] = ReadLine(origin, parsed[1 .. i - 1], lines[i])
  <2>1. Stepwise(parsed, 1, origin, base, lines, n)
    BY <1>3, FoldsStepwise
  <2> QED
    BY <2>1 DEF Stepwise, Step
<1>5. /\ f[0] = base /\ f[n] = ParseZoneText(origin, lines)
      /\ \A i \in 1 .. n : f[i] = ReadLine(origin, f[i - 1], lines[i])
  <2>1. \A i \in 0 .. n : f[i] = parsed[1 .. i]
    OBVIOUS
  <2>2. 0 \in 0 .. n /\ n \in 0 .. n /\ \A i \in 1 .. n : i \in 0 .. n /\ i - 1 \in 0 .. n
    OBVIOUS
  <2> HIDE DEF f
  <2> QED
    BY <1>1, <1>4, <2>1, <2>2
<1> QED
  BY <1>5 DEF base

-----------------------------------------------------------------------------
(* One line of a zone file.                                                *)

Reading == [ok : BOOLEAN, last : Names, rrs : Seq(FileRRs(Names))]

\* DnsName::makeRelative undoes DnsName::qualify.
LEMMA RelativeUndoesQualify ==
  ASSUME NEW owner \in Names, NEW origin \in Names
  PROVE  /\ Qualify(owner, origin) \in Names
         /\ IsSubdomainOf(Qualify(owner, origin), origin)
         /\ MakeRelative(Qualify(owner, origin), origin) = owner
<1> DEFINE n == owner \o origin
<1>1. /\ n \in Names /\ Len(n) = Len(owner) + Len(origin)
      /\ Len(owner) \in Nat /\ Len(origin) \in Nat
      /\ \A i \in 1 .. Len(owner) + Len(origin) :
           n[i] = IF i <= Len(owner) THEN owner[i] ELSE origin[i - Len(owner)]
  BY ConcatProperties, LenProperties DEF Names
<1> HIDE DEF n
<1>2. IsSubdomainOf(n, origin)
  <2>1. ASSUME NEW i \in 1 .. Len(origin) PROVE n[Len(n) - Len(origin) + i] = origin[i]
    <3>1. Len(n) - Len(origin) + i = Len(owner) + i
      BY <1>1
    <3>2. Len(owner) + i \in 1 .. Len(owner) + Len(origin) /\ ~(Len(owner) + i <= Len(owner))
          /\ (Len(owner) + i) - Len(owner) = i
      BY <1>1
    <3> QED
      BY <1>1, <3>1, <3>2
  <2> QED
    BY <1>1, <2>1 DEF IsSubdomainOf
<1>3. SubSeq(n, 1, Len(n) - Len(origin)) = owner
  <2>1. Len(n) - Len(origin) = Len(owner) /\ Len(owner) <= Len(n)
    BY <1>1
  <2>2. \A i \in 1 .. Len(owner) : n[i] = owner[i]
    BY <1>1
  <2> DEFINE s == SubSeq(n, 1, Len(owner))
  <2>3. s \in Seq(Labels) /\ Len(s) = Len(owner) /\ \A i \in 1 .. Len(owner) : s[i] = n[i]
    BY <1>1, <2>1 DEF Names
  <2>4. s = owner
    <3> HIDE DEF s
    <3> QED
      BY <2>2, <2>3 DEF Names
  <2> QED
    BY <2>1, <2>4
<1> QED
  BY <1>1, <1>2, <1>3 DEF n, Qualify, MakeRelative

\* A part of a name is a name.
LEMMA RelativeType ==
  ASSUME NEW n \in Names, NEW origin \in Names
  PROVE  MakeRelative(n, origin) \in Names
<1>1. CASE IsSubdomainOf(n, origin)
  <2>1. Len(n) \in Nat /\ Len(origin) \in Nat /\ Len(n) >= Len(origin)
    BY <1>1 DEF IsSubdomainOf, Names
  <2>2. SubSeq(n, 1, Len(n) - Len(origin)) \in Seq(Labels)
    BY <2>1 DEF Names
  <2> QED
    BY <1>1, <2>2 DEF MakeRelative, Names
<1>2. CASE ~IsSubdomainOf(n, origin)
  BY <1>2 DEF MakeRelative
<1> QED
  BY <1>1, <1>2

\* What one line adds to a reading that goes well: a record that reads the same
\* from then on, or the reading fails.
LEMMA LineRead ==
  ASSUME NEW origin \in Names, NEW read \in Reading, NEW line \in Lines,
         read.ok, PlainOwner(origin, read.last)
  PROVE  /\ ReadLine(origin, read, line) \in Reading
         /\ ReadLine(origin, read, line).ok =>
              \E rr \in FileRRs(Names) :
                Plain(origin, rr) /\ ReadLine(origin, read, line) = AddRead(read, rr)
<1> DEFINE owner == line.owner
<1>0. owner \in Names /\ line.rr \in FileRRs(Names)
  BY DEF Lines
<1>1. \A rr \in FileRRs(Names) : AddRead(read, rr) \in Reading
  <2> SUFFICES ASSUME NEW rr \in FileRRs(Names) PROVE AddRead(read, rr) \in Reading
    OBVIOUS
  <2>1. rr.name \in Names
    BY DEF FileRRs
  <2>2. Append(read.rrs, rr) \in Seq(FileRRs(Names))
    BY AppendProperties DEF Reading
  <2> QED
    BY <2>1, <2>2 DEF AddRead, Reading
<1>2. Fail(read) \in Reading /\ ~Fail(read).ok
  BY DEF Fail, Reading
<1>3. CASE LooksLikeTtl(owner) \/ LooksLikeClass(owner)
  <2>1. ReadLine(origin, read, line) = Fail(read)
    <3>1. ~LooksLikeType(owner)
      BY <1>3, LabelsAssumption DEF LooksLikeTtl, LooksLikeClass, LooksLikeType, TypeOfWord
    <3> QED
      BY <1>3, <3>1, Zenon DEF ReadLine
  <2> QED
    BY <1>2, <2>1
<1>4. CASE ~(LooksLikeTtl(owner) \/ LooksLikeClass(owner)) /\ LooksLikeType(owner)
  <2> DEFINE type == TypeOfWord[owner[1]]
             rr == [line.rr EXCEPT !.name = read.last, !.type = type,
                                   !.target = Garbled(origin), !.dot = TRUE]
  <2>1. type \in Types
    BY <1>4 DEF LooksLikeType, TypeOfWord, Types
  <2>2. Garbled(origin) \in Names
    <3>1. <<"garbled">> \in Names
      BY LabelsAssumption DEF Names
    <3> QED
      BY <3>1, RelativeUndoesQualify DEF Garbled
  <2>3. rr \in FileRRs(Names) /\ rr.name = read.last /\ rr.dot
    <3> HIDE DEF type
    <3> QED
      BY <1>0, <2>1, <2>2 DEF FileRRs, Reading
  <2>4. ReadLine(origin, read, line)
          = IF type \in {"NS", "CNAME", "MX"} THEN AddRead(read, rr) ELSE Fail(read)
    BY <1>4, Zenon DEF ReadLine
  <2> HIDE DEF type, rr
  <2>5. Plain(origin, rr)
    BY <2>3 DEF Plain
  <2> QED
    BY <1>1, <1>2, <2>3, <2>4, <2>5
<1>5. CASE ~(LooksLikeTtl(owner) \/ LooksLikeClass(owner)) /\ ~LooksLikeType(owner)
  <2> DEFINE host == ReadHost(origin, line.rr)
             rr == [host EXCEPT !.name = Qualify(owner, origin)]
  <2>1. host \in FileRRs(Names) /\ (host.type \in HostTypes => host.dot)
    <3>1. line.rr.target \in Names
      BY <1>0 DEF FileRRs
    <3>2. Qualify(line.rr.target, origin) \in Names
      BY <3>1, RelativeUndoesQualify
    <3> QED
      BY <1>0, <3>2 DEF ReadHost, FileRRs
  <2>2. /\ Qualify(owner, origin) \in Names /\ IsSubdomainOf(Qualify(owner, origin), origin)
        /\ MakeRelative(Qualify(owner, origin), origin) = owner
    BY <1>0, RelativeUndoesQualify
  <2> HIDE DEF host
  <2>3. /\ rr \in FileRRs(Names) /\ rr.name = Qualify(owner, origin)
        /\ rr.type = host.type /\ rr.dot = host.dot
    BY <2>1, <2>2 DEF FileRRs
  <2>4. ReadLine(origin, read, line) = AddRead(read, rr)
    BY <1>5, Zenon DEF ReadLine, host
  <2> HIDE DEF rr
  <2>5. Plain(origin, rr)
    BY <1>5, <2>1, <2>2, <2>3 DEF Plain, PlainOwner
  <2> QED
    BY <1>1, <2>3, <2>4, <2>5
<1> QED
  BY <1>3, <1>4, <1>5

-----------------------------------------------------------------------------
(* Reading a text: every record that is read of a zone is plain.           *)

\* The apex is written as no owner at all.
LEMMA ApexIsPlain ==
  ASSUME NEW origin \in Names
  PROVE  PlainOwner(origin, origin)
<1>1. MakeRelative(origin, origin) = << >> /\ IsSubdomainOf(origin, origin)
  <2>1. Len(origin) \in Nat /\ IsSubdomainOf(origin, origin)
    BY DEF IsSubdomainOf, Names
  <2>2. SubSeq(origin, 1, 0) = << >>
    BY DEF Names
  <2> QED
    BY <2>1, <2>2 DEF MakeRelative
<1>2. Len(<< >>) # 1
  OBVIOUS
<1> QED
  BY <1>1, <1>2 DEF PlainOwner, LooksLikeTtl, LooksLikeClass, LooksLikeType, OneWord

AllPlain(origin, rrs) == \A i \in DOMAIN rrs : Plain(origin, rrs[i])

\* A reading of origin so far.
Going(origin, read) ==
  read \in Reading /\ (read.ok => PlainOwner(origin, read.last) /\ AllPlain(origin, read.rrs))

\* A line leaves a reading of the zone, or a failed one.
LEMMA GoesOn ==
  ASSUME NEW origin \in Names, NEW line \in Lines, NEW read, Going(origin, read)
  PROVE  /\ Going(origin, ReadLine(origin, read, line))
         /\ ReadLine(origin, read, line).ok => read.ok
<1>1. CASE ~read.ok
  <2>1. ReadLine(origin, read, line) = read
    BY <1>1 DEF ReadLine
  <2> QED
    BY <2>1
<1>2. CASE read.ok
  <2> DEFINE next == ReadLine(origin, read, line)
  <2>1. /\ next \in Reading
        /\ next.ok => \E rr \in FileRRs(Names) : Plain(origin, rr) /\ next = AddRead(read, rr)
    BY <1>2, LineRead DEF Going
  <2> HIDE DEF next
  <2>2. ASSUME next.ok
        PROVE  PlainOwner(origin, next.last) /\ AllPlain(origin, next.rrs)
    <3>1. PICK rr \in FileRRs(Names) : Plain(origin, rr) /\ next = AddRead(read, rr)
      BY <2>1, <2>2
    <3>2. /\ next.last = rr.name /\ next.rrs = Append(read.rrs, rr)
          /\ read.rrs \in Seq(FileRRs(Names))
      BY <3>1 DEF AddRead, Going, Reading
    <3>3. AllPlain(origin, read.rrs)
      BY <1>2 DEF Going
    <3>4. ASSUME NEW i \in DOMAIN next.rrs PROVE Plain(origin, next.rrs[i])
      <4>1. \/ i \in DOMAIN read.rrs /\ next.rrs[i] = read.rrs[i]
            \/ next.rrs[i] = rr
        BY <3>2
      <4> QED
        BY <3>1, <3>3, <4>1 DEF AllPlain
    <3> QED
      BY <3>1, <3>2, <3>4 DEF AllPlain, Plain
  <2> QED
    BY <1>2, <2>1, <2>2 DEF Going, next
<1> QED
  BY <1>1, <1>2

\* A reading starts at the origin.
LEMMA StartsPlain ==
  ASSUME NEW origin \in Names
  PROVE  Going(origin, [ok |-> TRUE, last |-> origin, rrs |-> << >>])
<1>1. << >> \in Seq(FileRRs(Names)) /\ DOMAIN << >> = {}
  OBVIOUS
<1> QED
  BY <1>1, ApexIsPlain DEF Going, Reading, AllPlain

\* The readings of a text, line by line.
Readings(f, origin, lines) ==
  /\ f[0] = [ok |-> TRUE, last |-> origin, rrs |-> << >>]
  /\ f[Len(lines)] = ParseZoneText(origin, lines)
  /\ \A i \in 1 .. Len(lines) : f[i] = ReadLine(origin, f[i - 1], lines[i])
  /\ \A i \in 0 .. Len(lines) : Going(origin, f[i])

\* So does every line of a text.
LEMMA ReadingsExist ==
  ASSUME NEW origin \in Names, NEW lines \in Seq(Lines)
  PROVE  \E f : Readings(f, origin, lines)
<1> DEFINE n == Len(lines)
<1>1. n \in Nat /\ DOMAIN lines = 1 .. n /\ \A i \in 1 .. n : lines[i] \in Lines
  OBVIOUS
<1>2. PICK f : /\ f[0] = [ok |-> TRUE, last |-> origin, rrs |-> << >>]
               /\ f[n] = ParseZoneText(origin, lines)
               /\ \A i \in 1 .. n : f[i] = ReadLine(origin, f[i - 1], lines[i])
  <2> HIDE DEF n
  <2> QED
    BY <1>1, ParseSteps
<1> DEFINE Good == {i \in Nat : i <= n => Going(origin, f[i])}
<1>3. 0 \in Good
  BY <1>2, StartsPlain
<1>4. ASSUME NEW i \in Nat, i \in Good PROVE i + 1 \in Good
  <2>1. SUFFICES ASSUME i + 1 <= n PROVE Going(origin, f[i + 1])
    OBVIOUS
  <2>2. i + 1 \in 1 .. n /\ (i + 1) - 1 = i /\ i <= n
    BY <1>1, <2>1
  <2>3. Going(origin, f[i]) /\ lines[i + 1] \in Lines
    BY <1>1, <1>4, <2>2
  <2>4. f[i + 1] = ReadLine(origin, f[i], lines[i + 1])
    BY <1>2, <2>2
  <2> QED
    BY <2>3, <2>4, GoesOn
<1>5. Nat \subseteq Good
  <2> HIDE DEF Good
  <2> QED
    BY <1>3, <1>4, NatsBySteps
<1>6. \A i \in 0 .. n : Going(origin, f[i])
  BY <1>1, <1>5
<1> QED
  BY <1>2, <1>6 DEF Readings

\* What is read of a zone file is a zone that the file keeps as it is.
LEMMA ReadZonesArePlain ==
  ASSUME NEW origin \in Names, NEW lines \in Seq(Lines)
  PROVE  /\ ParseZoneText(origin, lines) \in Reading
         /\ ParseZoneText(origin, lines).ok =>
              AllPlain(origin, ParseZoneText(origin, lines).rrs)
<1>1. PICK f : Readings(f, origin, lines)
  BY ReadingsExist
<1>2. Len(lines) \in 0 .. Len(lines)
  OBVIOUS
<1>3. Going(origin, f[Len(lines)]) /\ f[Len(lines)] = ParseZoneText(origin, lines)
  BY <1>1, <1>2 DEF Readings
<1> QED
  BY <1>3 DEF Going

-----------------------------------------------------------------------------
(* Writing and reading: a plain record survives, a plain zone is kept.     *)

\* DnsName::isSubdomainOf is a partial order on names.
LEMMA SubdomainReflexive ==
  ASSUME NEW n \in Names
  PROVE  IsSubdomainOf(n, n)
BY DEF IsSubdomainOf, Names

LEMMA SubdomainTransitive ==
  ASSUME NEW n \in Names, NEW m \in Names, NEW z \in Names,
         IsSubdomainOf(n, m), IsSubdomainOf(m, z)
  PROVE  IsSubdomainOf(n, z)
<1>1. Len(n) \in Nat /\ Len(m) \in Nat /\ Len(z) \in Nat /\ Len(n) >= Len(m) /\ Len(m) >= Len(z)
  BY DEF IsSubdomainOf, Names
<1>2. ASSUME NEW i \in 1 .. Len(z) PROVE n[Len(n) - Len(z) + i] = z[i]
  <2>1. m[Len(m) - Len(z) + i] = z[i]
    BY DEF IsSubdomainOf
  <2> DEFINE j == Len(m) - Len(z) + i
  <2>2. j \in 1 .. Len(m) /\ Len(n) - Len(m) + j = Len(n) - Len(z) + i
    BY <1>1
  <2>3. n[Len(n) - Len(m) + j] = m[j]
    BY <2>2 DEF IsSubdomainOf
  <2> QED
    BY <2>1, <2>2, <2>3
<1> QED
  BY <1>1, <1>2 DEF IsSubdomainOf


\* Two names of one length that enclose the same name are the same: findZone's
\* and findDelegation's deepest match is one name.
LEMMA SubdomainSameLength ==
  ASSUME NEW n \in Names, NEW y \in Names, NEW z \in Names,
         IsSubdomainOf(n, y), IsSubdomainOf(n, z), Len(y) = Len(z)
  PROVE  y = z
<1>1. \A i \in 1 .. Len(y) : y[i] = z[i]
  BY DEF IsSubdomainOf
<1> QED
  BY <1>1 DEF Names

\* DnsName::qualify undoes DnsName::makeRelative for a name below the origin.
LEMMA QualifyUndoesRelative ==
  ASSUME NEW n \in Names, NEW origin \in Names, IsSubdomainOf(n, origin)
  PROVE  Qualify(MakeRelative(n, origin), origin) = n
<1> DEFINE k == Len(n) - Len(origin)
           rel == SubSeq(n, 1, k)
<1>1. Len(n) \in Nat /\ Len(origin) \in Nat /\ k \in Nat /\ k <= Len(n)
  BY DEF IsSubdomainOf, Names
<1>2. rel \in Seq(Labels) /\ Len(rel) = k /\ \A i \in 1 .. k : rel[i] = n[i]
  BY <1>1 DEF Names
<1> DEFINE whole == rel \o origin
<1>3. whole \in Seq(Labels) /\ Len(whole) = Len(n)
  BY <1>1, <1>2 DEF Names
<1>4. ASSUME NEW i \in 1 .. Len(n) PROVE whole[i] = n[i]
  <2>1. CASE i <= k
    BY <1>1, <1>2, <2>1 DEF Names
  <2>2. CASE i > k
    <3>1. i - k \in 1 .. Len(origin)
      BY <1>1, <2>2
    <3>2. whole[i] = origin[i - k]
      BY <1>1, <1>2, <2>2, <3>1 DEF Names
    <3>3. n[k + (i - k)] = origin[i - k]
      BY <3>1 DEF IsSubdomainOf
    <3> QED
      BY <1>1, <3>2, <3>3
  <2> QED
    BY <1>1, <2>1, <2>2
<1>5. whole = n
  <2> HIDE DEF whole
  <2> QED
    BY <1>3, <1>4 DEF Names
<1> QED
  BY <1>5 DEF Qualify, MakeRelative

\* The line written of a plain record is read as that record, whatever was read
\* before: the step of PlainZonesSurvive.
THEOREM PlainLineSurvives ==
  ASSUME NEW origin \in Names, NEW rrs, NEW i \in DOMAIN rrs, NEW read,
         rrs[i] \in FileRRs(Names), Plain(origin, rrs[i]), read.ok
  PROVE  ReadLine(origin, read, WriteZoneText(origin, rrs)[i]) = AddRead(read, rrs[i])
<1> DEFINE rr == rrs[i]
           owner == MakeRelative(rr.name, origin)
           line == WriteZoneText(origin, rrs)[i]
<1>1. line = [owner |-> owner, rr |-> rr]
  BY DEF WriteZoneText
<1>2. rr.name \in Names /\ rr = [rr EXCEPT !.name = rr.name]
  BY DEF FileRRs
<1>3. ReadHost(origin, rr) = rr
  BY DEF ReadHost, Plain
<1>4. Qualify(owner, origin) = rr.name
  BY <1>2, QualifyUndoesRelative DEF Plain, PlainOwner
<1>5. [ReadHost(origin, line.rr) EXCEPT !.name = Qualify(line.owner, origin)] = rr
  <2>1. line.rr = rr /\ line.owner = owner
    BY <1>1
  <2> HIDE DEF line, owner, rr
  <2> QED
    BY <2>1, <1>2, <1>3, <1>4, Zenon
<1>6. ~LooksLikeTtl(line.owner) /\ ~LooksLikeClass(line.owner) /\ ~LooksLikeType(line.owner)
  BY <1>1 DEF Plain, PlainOwner
<1> HIDE DEF line, owner
<1>7. ReadLine(origin, read, line)
        = AddRead(read, [ReadHost(origin, line.rr) EXCEPT !.name = Qualify(line.owner, origin)])
  BY <1>6 DEF ReadLine
<1> QED
  BY <1>5, <1>7 DEF line

\* The text of a zone has a line for each record.
LEMMA TextType ==
  ASSUME NEW origin \in Names, NEW rrs \in Seq(FileRRs(Names))
  PROVE  WriteZoneText(origin, rrs) \in Seq(Lines) /\ Len(WriteZoneText(origin, rrs)) = Len(rrs)
<1> DEFINE n == Len(rrs)
           text == WriteZoneText(origin, rrs)
<1>1. n \in Nat /\ DOMAIN rrs = 1 .. n /\ \A i \in 1 .. n : rrs[i] \in FileRRs(Names)
  OBVIOUS
<1>2. text = [i \in 1 .. n |-> [owner |-> MakeRelative(rrs[i].name, origin), rr |-> rrs[i]]]
  BY <1>1 DEF WriteZoneText
<1>3. ASSUME NEW i \in 1 .. n PROVE text[i] \in Lines
  <2>1. rrs[i].name \in Names
    BY <1>1 DEF FileRRs
  <2>2. MakeRelative(rrs[i].name, origin) \in Names
    BY <2>1, RelativeType
  <2> QED
    BY <1>1, <1>2, <2>2 DEF Lines
<1> HIDE DEF text, n
<1>4. text = [i \in 1 .. n |-> text[i]]
  BY <1>2
<1>5. text \in Seq(Lines)
  BY <1>1, <1>3, <1>4, IsASeq
<1>6. Len(text) = n
  BY <1>1, <1>4, <1>5
<1> QED
  BY <1>5, <1>6 DEF text, n

\* A zone without words that end the reading is read, whatever comes of it.
LEMMA LegibleIsRead ==
  ASSUME NEW origin \in Names, NEW rrs \in Seq(FileRRs(Names)), Legible(origin, rrs)
  PROVE  Reread(origin, rrs).ok
<1> DEFINE n == Len(rrs)
           text == WriteZoneText(origin, rrs)
<1>1. n \in Nat /\ text \in Seq(Lines) /\ Len(text) = n /\ DOMAIN rrs = 1 .. n
  BY TextType
<1>2. PICK f : Readings(f, origin, text)
  BY <1>1, ReadingsExist
<1> DEFINE Good == {i \in Nat : i <= n => f[i].ok}
<1>3. 0 \in Good
  BY <1>2 DEF Readings
<1>4. ASSUME NEW i \in Nat, i \in Good PROVE i + 1 \in Good
  <2>1. SUFFICES ASSUME i + 1 <= n PROVE f[i + 1].ok
    OBVIOUS
  <2>2. i + 1 \in 1 .. n /\ (i + 1) - 1 = i /\ i \in 0 .. n
    BY <1>1, <2>1
  <2>3. Going(origin, f[i]) /\ f[i].ok /\ f[i + 1] = ReadLine(origin, f[i], text[i + 1])
    BY <1>1, <1>2, <1>4, <2>2 DEF Readings
  <2>4. text[i + 1].owner = MakeRelative(rrs[i + 1].name, origin)
    BY <1>1, <2>2 DEF WriteZoneText
  <2>5. LegibleOwner(text[i + 1].owner)
    BY <1>1, <2>2, <2>4 DEF Legible
  <2>6. \A rr : AddRead(f[i], rr).ok
    BY <2>3 DEF AddRead, Going, Reading
  <2> HIDE DEF text
  <2>7. CASE LooksLikeType(text[i + 1].owner)
    <3>1. \E rr : f[i + 1] = AddRead(f[i], rr)
      BY <2>3, <2>5, <2>7, Zenon DEF ReadLine, LegibleOwner
    <3> QED
      BY <2>6, <3>1
  <2>8. CASE ~LooksLikeType(text[i + 1].owner)
    <3>1. \E rr : f[i + 1] = AddRead(f[i], rr)
      BY <2>3, <2>5, <2>8, Zenon DEF ReadLine, LegibleOwner
    <3> QED
      BY <2>6, <3>1
  <2> QED
    BY <2>7, <2>8
<1>5. n \in Good
  <2> HIDE DEF Good, n
  <2> QED
    BY <1>1, <1>3, <1>4, NatsBySteps
<1>6. f[n].ok /\ f[n] = ParseZoneText(origin, text)
  BY <1>1, <1>2, <1>5 DEF Readings
<1> QED
  BY <1>6 DEF Reread

\* A plain zone is read exactly as it was written.
LEMMA PlainIsRead ==
  ASSUME NEW origin \in Names, NEW rrs \in Seq(FileRRs(Names)), AllPlain(origin, rrs)
  PROVE  Reread(origin, rrs).ok /\ Reread(origin, rrs).rrs = rrs
<1> DEFINE n == Len(rrs)
           text == WriteZoneText(origin, rrs)
<1>1. /\ n \in Nat /\ text \in Seq(Lines) /\ Len(text) = n /\ DOMAIN rrs = 1 .. n
      /\ \A i \in 1 .. n : rrs[i] \in FileRRs(Names)
  BY TextType
<1>2. PICK f : Readings(f, origin, text)
  BY <1>1, ReadingsExist
<1> DEFINE Good == {i \in Nat : i <= n => f[i].ok /\ f[i].rrs = SubSeq(rrs, 1, i)}
<1>3. 0 \in Good
  <2>1. SubSeq(rrs, 1, 0) = << >>
    OBVIOUS
  <2>2. f[0] = [ok |-> TRUE, last |-> origin, rrs |-> << >>]
    BY <1>2 DEF Readings
  <2>3. f[0].ok /\ f[0].rrs = << >>
    BY <2>2
  <2> HIDE DEF text, n
  <2> QED
    BY <2>1, <2>3
<1>4. ASSUME NEW i \in Nat, i \in Good PROVE i + 1 \in Good
  <2>1. SUFFICES ASSUME i + 1 <= n PROVE f[i + 1].ok /\ f[i + 1].rrs = SubSeq(rrs, 1, i + 1)
    OBVIOUS
  <2>2. i + 1 \in 1 .. n /\ (i + 1) - 1 = i /\ i \in 0 .. n
    BY <1>1, <2>1
  <2>3. /\ Going(origin, f[i]) /\ f[i].ok /\ f[i].rrs = SubSeq(rrs, 1, i)
        /\ f[i + 1] = ReadLine(origin, f[i], text[i + 1])
    BY <1>1, <1>2, <1>4, <2>2 DEF Readings
  <2>4. Plain(origin, rrs[i + 1]) /\ rrs[i + 1] \in FileRRs(Names) /\ i + 1 \in DOMAIN rrs
    BY <1>1, <2>2 DEF AllPlain
  <2>5. f[i + 1] = AddRead(f[i], rrs[i + 1])
    BY <2>3, <2>4, PlainLineSurvives
  <2>6. f[i + 1].ok /\ f[i + 1].rrs = Append(SubSeq(rrs, 1, i), rrs[i + 1])
    BY <2>3, <2>5 DEF AddRead, Going, Reading
  <2>7. Append(SubSeq(rrs, 1, i), rrs[i + 1]) = SubSeq(rrs, 1, i + 1)
    BY <1>1, <2>2
  <2> QED
    BY <2>6, <2>7
<1>5. n \in Good
  <2> HIDE DEF Good, n
  <2> QED
    BY <1>1, <1>3, <1>4, NatsBySteps
<1>6. f[n].ok /\ f[n].rrs = SubSeq(rrs, 1, n) /\ f[n] = ParseZoneText(origin, text)
  BY <1>1, <1>2, <1>5 DEF Readings
<1>7. SubSeq(rrs, 1, n) = rrs
  OBVIOUS
<1> QED
  BY <1>6, <1>7 DEF Reread

\* A plain record among others is read, if the zone is.
LEMMA PlainIsKept ==
  ASSUME NEW origin \in Names, NEW rrs \in Seq(FileRRs(Names)), Reread(origin, rrs).ok,
         NEW rr \in ToSet(rrs), Plain(origin, rr)
  PROVE  rr \in ToSet(Reread(origin, rrs).rrs)
<1> DEFINE n == Len(rrs)
           text == WriteZoneText(origin, rrs)
<1>1. /\ n \in Nat /\ text \in Seq(Lines) /\ Len(text) = n /\ DOMAIN rrs = 1 .. n
      /\ \A i \in 1 .. n : rrs[i] \in FileRRs(Names)
  BY TextType
<1>2. PICK f : Readings(f, origin, text)
  BY <1>1, ReadingsExist
<1>3. f[n].ok /\ f[n] = Reread(origin, rrs)
  BY <1>1, <1>2 DEF Readings, Reread
<1>a. ASSUME NEW i \in 1 .. n
      PROVE  /\ i - 1 \in 0 .. n /\ Going(origin, f[i - 1]) /\ text[i] \in Lines
             /\ f[i] = ReadLine(origin, f[i - 1], text[i])
  BY <1>1, <1>2 DEF Readings
<1> HIDE DEF n, text
<1> DEFINE Good == {k \in Nat : k <= n => f[n - k].ok}
<1>4. 0 \in Good
  BY <1>1, <1>3
<1>5. ASSUME NEW k \in Nat, k \in Good PROVE k + 1 \in Good
  <2>1. SUFFICES ASSUME k + 1 <= n PROVE f[n - (k + 1)].ok
    OBVIOUS
  <2>2. n - k \in 1 .. n /\ (n - k) - 1 = n - (k + 1) /\ k <= n
    BY <1>1, <2>1
  <2>3. f[n - k].ok
    BY <1>5, <2>2
  <2> QED
    BY <1>a, <2>2, <2>3, GoesOn
<1>6. \A i \in 0 .. n : f[i].ok
  <2>1. Nat \subseteq Good
    <3> HIDE DEF Good
    <3> QED
      BY <1>4, <1>5, NatsBySteps
  <2>2. ASSUME NEW i \in 0 .. n PROVE f[i].ok
    <3>1. n - i \in Nat /\ n - i <= n /\ n - (n - i) = i
      BY <1>1
    <3> QED
      BY <2>1, <3>1
  <2> QED
    BY <2>2
<1>7. PICK p \in 1 .. n : rrs[p] = rr
  BY <1>1 DEF ToSet
<1> DEFINE Since == {k \in Nat : p + k <= n => rr \in ToSet(f[p + k].rrs)}
<1>b. ASSUME NEW i \in 1 .. n
      PROVE  \E new \in FileRRs(Names) :
               f[i] = AddRead(f[i - 1], new) /\ (rrs[i] = rr => new = rr)
  <2>1. f[i].ok /\ f[i - 1].ok
    BY <1>a, <1>6, <1>1
  <2>2. CASE rrs[i] = rr
    <3>1. f[i] = AddRead(f[i - 1], rr)
      BY <1>1, <1>a, <2>1, <2>2, PlainLineSurvives DEF text
    <3> QED
      BY <1>1, <2>2, <3>1
  <2>3. CASE rrs[i] # rr
    <3>1. f[i - 1] \in Reading /\ PlainOwner(origin, f[i - 1].last)
      BY <1>a, <2>1 DEF Going
    <3> QED
      BY <1>a, <2>1, <2>3, <3>1, LineRead
  <2> QED
    BY <2>2, <2>3
<1>c. ASSUME NEW i \in 1 .. n
      PROVE  \E new \in FileRRs(Names) :
               /\ f[i - 1].rrs \in Seq(FileRRs(Names))
               /\ f[i].rrs = Append(f[i - 1].rrs, new) /\ (rrs[i] = rr => new = rr)
  BY <1>a, <1>b DEF AddRead, Going, Reading
<1>d. \A s \in Seq(FileRRs(Names)), new \in FileRRs(Names) :
        ToSet(Append(s, new)) = ToSet(s) \cup {new}
  <2> SUFFICES ASSUME NEW s \in Seq(FileRRs(Names)), NEW new \in FileRRs(Names)
               PROVE  ToSet(Append(s, new)) = ToSet(s) \cup {new}
    OBVIOUS
  <2>1. /\ Len(s) \in Nat /\ DOMAIN s = 1 .. Len(s) /\ DOMAIN Append(s, new) = 1 .. Len(s) + 1
        /\ \A i \in 1 .. Len(s) : Append(s, new)[i] = s[i]
        /\ Append(s, new)[Len(s) + 1] = new
    OBVIOUS
  <2>2. ASSUME NEW x \in ToSet(Append(s, new)) PROVE x \in ToSet(s) \cup {new}
    <3>1. PICK i \in 1 .. Len(s) + 1 : x = Append(s, new)[i]
      BY <2>1 DEF ToSet
    <3>2. i \in 1 .. Len(s) \/ i = Len(s) + 1
      BY <2>1
    <3> QED
      BY <2>1, <3>1, <3>2 DEF ToSet
  <2>3. ASSUME NEW x \in ToSet(s) PROVE x \in ToSet(Append(s, new))
    <3>1. PICK i \in 1 .. Len(s) : x = s[i]
      BY <2>1 DEF ToSet
    <3>2. i \in 1 .. Len(s) + 1 /\ Append(s, new)[i] = x
      BY <2>1, <3>1
    <3> QED
      BY <2>1, <3>2 DEF ToSet
  <2>4. new \in ToSet(Append(s, new))
    <3>1. Len(s) + 1 \in 1 .. Len(s) + 1
      BY <2>1
    <3> QED
      BY <2>1, <3>1 DEF ToSet
  <2> QED
    BY <2>2, <2>3, <2>4
<1>8. 0 \in Since
  <2>1. p + 0 = p
    OBVIOUS
  <2>2. rr \in ToSet(f[p].rrs)
    <3>1. PICK new \in FileRRs(Names) :
            /\ f[p - 1].rrs \in Seq(FileRRs(Names))
            /\ f[p].rrs = Append(f[p - 1].rrs, new) /\ (rrs[p] = rr => new = rr)
      BY <1>c
    <3>2. ToSet(f[p].rrs) = ToSet(f[p - 1].rrs) \cup {new}
      BY <1>d, <3>1
    <3> QED
      BY <1>7, <3>1, <3>2
  <2> QED
    BY <2>1, <2>2
<1>9. ASSUME NEW k \in Nat, k \in Since PROVE k + 1 \in Since
  <2>1. SUFFICES ASSUME p + (k + 1) <= n PROVE rr \in ToSet(f[p + (k + 1)].rrs)
    OBVIOUS
  <2>2. p + (k + 1) \in 1 .. n /\ (p + (k + 1)) - 1 = p + k /\ p + k <= n
    BY <1>1, <2>1
  <2>3. rr \in ToSet(f[p + k].rrs)
    BY <1>9, <2>2
  <2>4. PICK new \in FileRRs(Names) :
          /\ f[p + k].rrs \in Seq(FileRRs(Names))
          /\ f[p + (k + 1)].rrs = Append(f[p + k].rrs, new)
    BY <1>c, <2>2
  <2>5. ToSet(f[p + (k + 1)].rrs) = ToSet(f[p + k].rrs) \cup {new}
    BY <1>d, <2>4
  <2> QED
    BY <2>3, <2>5
<1>10. n - p \in Since
  <2>1. n - p \in Nat
    BY <1>1
  <2> HIDE DEF Since
  <2> QED
    BY <1>8, <1>9, <2>1, NatsBySteps
<1>11. p + (n - p) = n
  BY <1>1
<1>12. rr \in ToSet(f[n].rrs)
  BY <1>1, <1>10, <1>11
<1> QED
  BY <1>3, <1>12

-----------------------------------------------------------------------------
(* The edits of a transaction.                                             *)

\* What the first m members of seqs amount to, one after the other.
Flattened(f, seqs, S, m) ==
  /\ f \in [0 .. m -> Seq(S)]
  /\ f[0] = << >>
  /\ \A i \in 1 .. m : f[i] = f[i - 1] \o seqs[i]

\* FlattenSeq is built one member after the other.
LEMMA FlattenedExists ==
  ASSUME NEW S, NEW seqs \in Seq(Seq(S))
  PROVE  \E f : Flattened(f, seqs, S, Len(seqs))
<1> DEFINE n == Len(seqs)
           Found == {m \in Nat : m <= n => \E f : Flattened(f, seqs, S, m)}
<1>1. 0 \in Found
  <2>1. Flattened([i \in {0} |-> << >>], seqs, S, 0)
    BY EmptySeq DEF Flattened
  <2> QED
    BY <2>1
<1>2. ASSUME NEW m \in Nat, m \in Found PROVE m + 1 \in Found
  <2>1. CASE ~(m + 1 <= n)
    BY <2>1
  <2>2. CASE m + 1 <= n
    <3>1. m <= n /\ m + 1 \in 1 .. n /\ n \in Nat
      BY <2>2
    <3>2. PICK f : Flattened(f, seqs, S, m)
      BY <1>2, <3>1
    <3>3. f[m] \in Seq(S) /\ seqs[m + 1] \in Seq(S)
      BY <3>1, <3>2 DEF Flattened
    <3> DEFINE last == f[m] \o seqs[m + 1]
               g == [i \in 0 .. m + 1 |-> IF i = m + 1 THEN last ELSE f[i]]
    <3>4. last \in Seq(S)
      BY <3>3, ConcatProperties
    <3>5. g[m + 1] = last /\ \A i \in 0 .. m : g[i] = f[i]
      <4>1. m + 1 \in 0 .. m + 1 /\ \A i \in 0 .. m : i \in 0 .. m + 1 /\ i # m + 1
        OBVIOUS
      <4> HIDE DEF last
      <4> QED
        BY <4>1
    <3>6. g \in [0 .. m + 1 -> Seq(S)] /\ g[0] = << >>
      BY <3>2, <3>4 DEF Flattened
    <3>7. ASSUME NEW i \in 1 .. m + 1 PROVE g[i] = g[i - 1] \o seqs[i]
      <4> HIDE DEF g
      <4>1. CASE i = m + 1
        <5>1. i - 1 = m /\ m \in 0 .. m
          BY <4>1
        <5> QED
          BY <3>5, <4>1, <5>1
      <4>2. CASE i # m + 1
        <5>1. i \in 1 .. m /\ i \in 0 .. m /\ i - 1 \in 0 .. m
          BY <4>2
        <5> QED
          BY <3>2, <3>5, <5>1 DEF Flattened
      <4> QED
        BY <4>1, <4>2
    <3> HIDE DEF g
    <3>8. Flattened(g, seqs, S, m + 1)
      BY <3>6, <3>7 DEF Flattened
    <3> QED
      BY <3>8
  <2> QED
    BY <2>1, <2>2
<1>3. n \in Nat /\ n <= n
  OBVIOUS
<1>4. n \in Found
  <2> HIDE DEF Found, n
  <2> QED
    BY <1>1, <1>2, <1>3, NatsBySteps
<1> QED
  BY <1>3, <1>4

\* FlattenSeq is what its members amount to, one after the other.
LEMMA FlattenSteps ==
  ASSUME NEW S, NEW seqs \in Seq(Seq(S))
  PROVE  \E f : Flattened(f, seqs, S, Len(seqs)) /\ FlattenSeq(seqs) = f[Len(seqs)]
<1> DEFINE n == Len(seqs)
           Iter(it) == it = [i \in 1 .. n |-> IF i = 1 THEN seqs[i] ELSE it[i - 1] \o seqs[i]]
           it == CHOOSE it : Iter(it)
<1>0. n \in Nat
  OBVIOUS
<1>1. PICK f : Flattened(f, seqs, S, n)
  BY FlattenedExists
<1>a. f[0] = << >> /\ \A i \in 1 .. n : seqs[i] \in Seq(S) /\ f[i] = f[i - 1] \o seqs[i]
  BY <1>1 DEF Flattened
<1>2. CASE n = 0
  <2>1. seqs = << >>
    BY <1>2
  <2>2. FlattenSeq(seqs) = << >>
    BY <2>1 DEF FlattenSeq
  <2> QED
    BY <1>1, <1>2, <2>2 DEF Flattened
<1>3. CASE n # 0
  <2>1. FlattenSeq(seqs) = it[n]
    BY <1>3, Zenon DEF FlattenSeq
  <2>2. Iter([i \in 1 .. n |-> f[i]])
    <3>1. ASSUME NEW i \in 1 .. n
          PROVE  f[i] = IF i = 1 THEN seqs[i] ELSE [k \in 1 .. n |-> f[k]][i - 1] \o seqs[i]
      <4>1. CASE i = 1
        <5>1. f[1] = << >> \o seqs[1] /\ seqs[1] \in Seq(S)
          <6>1. f[1] = f[0] \o seqs[1]
            <7>1. 1 \in 1 .. n /\ 1 - 1 = 0
              BY <1>0, <1>3
            <7> HIDE DEF n
            <7> QED
              BY <1>a, <7>1
          <6> QED
            BY <1>a, <4>1, <6>1
        <5> QED
          BY <4>1, <5>1, ConcatEmptySeq
      <4>2. CASE i # 1
        <5>1. i - 1 \in 1 .. n
          BY <4>2
        <5> QED
          BY <1>a, <4>2, <5>1
      <4> QED
        BY <4>1, <4>2
    <3> QED
      BY <3>1
  <2>3. Iter(it)
    <3> HIDE DEF Iter
    <3> QED
      BY <2>2
  <2> HIDE DEF it
  <2>4. \A i \in 1 .. n : it[i] = IF i = 1 THEN seqs[i] ELSE it[i - 1] \o seqs[i]
    <3> HIDE DEF n
    <3> QED
      BY <2>3
  <2> HIDE DEF n, Iter
  <2> DEFINE Same == {m \in Nat : m \in 1 .. n => it[m] = f[m]}
  <2>5. 0 \in Same
    OBVIOUS
  <2>6. ASSUME NEW m \in Nat, m \in Same PROVE m + 1 \in Same
    <3>1. SUFFICES ASSUME m + 1 \in 1 .. n PROVE it[m + 1] = f[m + 1]
      OBVIOUS
    <3>2. (m + 1) - 1 = m
      OBVIOUS
    <3>3. it[m + 1] = IF m = 0 THEN seqs[m + 1] ELSE it[m] \o seqs[m + 1]
      BY <2>4, <3>1, <3>2
    <3>4. f[m + 1] = f[m] \o seqs[m + 1] /\ seqs[m + 1] \in Seq(S)
      BY <1>a, <3>1, <3>2
    <3>5. CASE m = 0
      BY <1>a, <3>3, <3>4, <3>5, ConcatEmptySeq
    <3>6. CASE m # 0
      <4>1. m \in 1 .. n
        BY <1>0, <3>1, <3>6
      <4> QED
        BY <2>6, <3>3, <3>4, <3>6, <4>1
    <3> QED
      BY <3>5, <3>6
  <2>7. n \in Same
    <3> HIDE DEF Same
    <3> QED
      BY <1>0, <2>5, <2>6, NatsBySteps
  <2>8. it[n] = f[n]
    BY <1>0, <1>3, <2>7
  <2> QED
    BY <1>1, <2>1, <2>8 DEF n
<1> QED
  BY <1>2, <1>3

\* FlattenSeq makes one sequence of the members of several.
LEMMA FlattenSeqMembers ==
  ASSUME NEW S, NEW seqs \in Seq(Seq(S))
  PROVE  /\ FlattenSeq(seqs) \in Seq(S)
         /\ \A i \in DOMAIN seqs : \A j \in DOMAIN seqs[i] :
              \E k \in DOMAIN FlattenSeq(seqs) : FlattenSeq(seqs)[k] = seqs[i][j]
<1> DEFINE n == Len(seqs)
<1>0. n \in Nat /\ DOMAIN seqs = 1 .. n
  OBVIOUS
<1>1. PICK f : Flattened(f, seqs, S, n) /\ FlattenSeq(seqs) = f[n]
  BY FlattenSteps
<1> DEFINE In1(m) == \A i \in 1 .. m : \A j \in DOMAIN seqs[i] :
                       \E k \in DOMAIN f[m] : f[m][k] = seqs[i][j]
           Good == {m \in Nat : m <= n => In1(m)}
<1>2. 0 \in Good
  OBVIOUS
<1>3. ASSUME NEW m \in Nat, m \in Good PROVE m + 1 \in Good
  <2>1. SUFFICES ASSUME m + 1 <= n,
                        NEW i \in 1 .. m + 1, NEW j \in DOMAIN seqs[i]
                 PROVE  \E k \in DOMAIN f[m + 1] : f[m + 1][k] = seqs[i][j]
    OBVIOUS
  <2>2. m \in 0 .. n /\ m + 1 \in 1 .. n /\ (m + 1) - 1 = m /\ i \in 1 .. n /\ m <= n
    BY <1>0, <2>1
  <2> HIDE DEF n
  <2> DEFINE s == f[m]
             t == seqs[m + 1]
  <2>3. s \in Seq(S) /\ t \in Seq(S) /\ f[m + 1] = s \o t /\ seqs[i] \in Seq(S)
    <3>1. f[m] \in Seq(S) /\ f[m + 1] = f[m] \o seqs[m + 1]
      BY <1>1, <2>2 DEF Flattened
    <3>2. \A k \in 1 .. n : seqs[k] \in Seq(S)
      BY <1>0
    <3> QED
      BY <2>2, <3>1, <3>2
  <2> HIDE DEF s, t
  <2>4. /\ Len(s) \in Nat /\ Len(t) \in Nat
        /\ DOMAIN (s \o t) = 1 .. Len(s) + Len(t) /\ DOMAIN s = 1 .. Len(s) /\ DOMAIN t = 1 .. Len(t)
        /\ \A k \in 1 .. Len(s) + Len(t) :
             (s \o t)[k] = IF k <= Len(s) THEN s[k] ELSE t[k - Len(s)]
    BY <2>3, ConcatProperties, LenProperties
  <2>5. CASE i = m + 1
    <3>1. j \in 1 .. Len(t) /\ t[j] = seqs[i][j]
      BY <2>4, <2>5 DEF t
    <3>2. Len(s) + j \in 1 .. Len(s) + Len(t) /\ ~(Len(s) + j <= Len(s)) /\ (Len(s) + j) - Len(s) = j
      BY <2>4, <3>1
    <3> QED
      BY <2>3, <2>4, <3>1, <3>2
  <2>6. CASE i # m + 1
    <3>1. i \in 1 .. m
      BY <2>6
    <3>2. PICK k \in DOMAIN s : s[k] = seqs[i][j]
      BY <1>3, <2>2, <3>1 DEF s
    <3>3. k \in 1 .. Len(s) + Len(t) /\ k <= Len(s)
      BY <2>4
    <3> QED
      BY <2>3, <2>4, <3>2, <3>3
  <2> QED
    BY <2>5, <2>6
<1>4. n \in Good
  <2> HIDE DEF Good, n
  <2> QED
    BY <1>0, <1>2, <1>3, NatsBySteps
<1> QED
  BY <1>0, <1>1, <1>4 DEF Flattened

\* ElementsAt keeps the elements at the positions, and no other.
LEMMA ElementsKept ==
  ASSUME NEW S, NEW seq \in Seq(S), NEW positions
  PROVE  /\ ElementsAt(seq, positions) \in Seq(S)
         /\ ToSet(ElementsAt(seq, positions)) = {seq[i] : i \in positions \cap DOMAIN seq}
<1> DEFINE kept == {seq[i] : i \in positions \cap DOMAIN seq}
           seqs == [i \in DOMAIN seq |-> IF i \in positions THEN <<seq[i]>> ELSE << >>]
<1>1. seqs \in Seq(Seq(kept))
  <2>1. Len(seq) \in Nat /\ DOMAIN seq = 1 .. Len(seq)
    OBVIOUS
  <2>2. ASSUME NEW i \in 1 .. Len(seq) PROVE seqs[i] \in Seq(kept)
    <3>1. CASE i \in positions
      <4>1. seq[i] \in kept
        BY <2>1, <3>1
      <4> HIDE DEF kept
      <4> QED
        BY <2>1, <3>1, <4>1
    <3>2. CASE i \notin positions
      BY <2>1, <3>2, EmptySeq
    <3> QED
      BY <3>1, <3>2
  <2>3. seqs = [i \in 1 .. Len(seq) |-> seqs[i]]
    BY <2>1
  <2> HIDE DEF seqs, kept
  <2> QED
    BY <2>1, <2>2, <2>3, IsASeq
<1>2. ElementsAt(seq, positions) = FlattenSeq(seqs)
  BY DEF ElementsAt
<1>3. ASSUME NEW i \in positions \cap DOMAIN seq
      PROVE  i \in DOMAIN seqs /\ 1 \in DOMAIN seqs[i] /\ seqs[i][1] = seq[i]
  OBVIOUS
<1> HIDE DEF seqs
<1>4. \A x \in kept : \E k \in DOMAIN FlattenSeq(seqs) : FlattenSeq(seqs)[k] = x
  <2> TAKE x \in kept
  <2>1. PICK i \in positions \cap DOMAIN seq : x = seq[i]
    OBVIOUS
  <2> HIDE DEF kept
  <2> QED
    BY <1>1, <1>3, <2>1, FlattenSeqMembers
<1>5. FlattenSeq(seqs) \in Seq(kept)
  <2> HIDE DEF kept
  <2> QED
    BY <1>1, FlattenSeqMembers
<1>6. kept \subseteq S
  OBVIOUS
<1> HIDE DEF kept
<1> QED
  BY <1>2, <1>4, <1>5, <1>6, SeqMonotonic DEF kept, ToSet

-----------------------------------------------------------------------------
(* What a commit leaves in the zone.                                       *)

\* Append adds one element.
LEMMA AppendElements ==
  ASSUME NEW S, NEW s \in Seq(S), NEW new \in S
  PROVE  ToSet(Append(s, new)) = ToSet(s) \cup {new}
<1>1. /\ Len(s) \in Nat /\ DOMAIN s = 1 .. Len(s) /\ DOMAIN Append(s, new) = 1 .. Len(s) + 1
      /\ \A i \in 1 .. Len(s) : Append(s, new)[i] = s[i]
      /\ Append(s, new)[Len(s) + 1] = new
  OBVIOUS
<1>2. ASSUME NEW x \in ToSet(Append(s, new)) PROVE x \in ToSet(s) \cup {new}
  <2>1. PICK i \in 1 .. Len(s) + 1 : x = Append(s, new)[i]
    BY <1>1 DEF ToSet
  <2>2. i \in 1 .. Len(s) \/ i = Len(s) + 1
    BY <1>1
  <2> QED
    BY <1>1, <2>1, <2>2 DEF ToSet
<1>3. ASSUME NEW x \in ToSet(s) PROVE x \in ToSet(Append(s, new))
  <2>1. PICK i \in 1 .. Len(s) : x = s[i]
    BY <1>1 DEF ToSet
  <2>2. i \in 1 .. Len(s) + 1 /\ Append(s, new)[i] = x
    BY <1>1, <2>1
  <2> QED
    BY <1>1, <2>2 DEF ToSet
<1>4. new \in ToSet(Append(s, new))
  <2>1. Len(s) + 1 \in 1 .. Len(s) + 1
    BY <1>1
  <2> QED
    BY <1>1, <2>1 DEF ToSet
<1> QED
  BY <1>2, <1>3, <1>4

\* One edit of a transaction's copy.
LEMMA EditElements ==
  ASSUME NEW rrs \in Seq(FileRRs(Names)), NEW op \in Operations
  PROVE  /\ Edit(rrs, op) \in Seq(FileRRs(Names))
         /\ op.op = "add" => ToSet(Edit(rrs, op)) = ToSet(rrs) \cup {op.rr}
         /\ op.op # "add" =>
              \A r : r \in ToSet(Edit(rrs, op)) <=> r \in ToSet(rrs) /\ ~Deletes(op, r)
<1>1. CASE op.op = "add"
  <2>1. op.rr \in FileRRs(Names) /\ Edit(rrs, op) = Append(rrs, op.rr)
    BY <1>1 DEF Edit, Operations
  <2> QED
    BY <1>1, <2>1, AppendElements, AppendProperties
<1>2. CASE op.op # "add"
  <2> DEFINE P == {i \in DOMAIN rrs : ~Deletes(op, rrs[i])}
  <2>1. Edit(rrs, op) = ElementsAt(rrs, P)
    BY <1>2 DEF Edit
  <2>2. /\ ElementsAt(rrs, P) \in Seq(FileRRs(Names))
        /\ ToSet(ElementsAt(rrs, P)) = {rrs[i] : i \in P \cap DOMAIN rrs}
    <3> HIDE DEF P
    <3> QED
      BY ElementsKept
  <2>3. ToSet(rrs) = {rrs[i] : i \in DOMAIN rrs}
    BY DEF ToSet
  <2>4. \A r : r \in {rrs[i] : i \in P \cap DOMAIN rrs} <=> r \in ToSet(rrs) /\ ~Deletes(op, r)
    BY <2>3
  <2> HIDE DEF P
  <2> QED
    BY <1>2, <2>1, <2>2, <2>4
<1> QED
  BY <1>1, <1>2

\* All of them: what the copy gains was added, what it loses was deleted, and
\* what was added and not deleted later is there.
LEMMA EditedElements ==
  ASSUME NEW rrs \in Seq(FileRRs(Names)), NEW ops \in Seq(Operations),
         NEW new, new = Edited(rrs, ops)
  PROVE  /\ new \in Seq(FileRRs(Names))
         /\ \A r \in ToSet(new) :
              r \in ToSet(rrs) \/ \E i \in DOMAIN ops : ops[i].op = "add" /\ r = ops[i].rr
         /\ \A r \in ToSet(rrs) : r \in ToSet(new) \/ \E i \in DOMAIN ops : Deletes(ops[i], r)
         /\ \A i \in DOMAIN ops :
              ops[i].op = "add" /\ (\A k \in i + 1 .. Len(ops) : ~Deletes(ops[k], ops[i].rr))
                => ops[i].rr \in ToSet(new)
<1> DEFINE n == Len(ops)
<1>1. n \in Nat /\ DOMAIN ops = 1 .. n /\ \A i \in 1 .. n : ops[i] \in Operations
  OBVIOUS
<1> HIDE DEF n
<1>2. PICK f : /\ f[0] = rrs /\ f[n] = new
               /\ \A i \in 1 .. n : f[i] = Edit(f[i - 1], ops[i])
  BY <1>1, EditSteps
<1> DEFINE Gained(m) == \A r \in ToSet(f[m]) :
             r \in ToSet(rrs) \/ \E i \in 1 .. m : ops[i].op = "add" /\ r = ops[i].rr
           Lost(m) == \A r \in ToSet(rrs) :
             r \in ToSet(f[m]) \/ \E i \in 1 .. m : Deletes(ops[i], r)
           There(m) == \A i \in 1 .. m :
             ops[i].op = "add" /\ (\A k \in i + 1 .. m : ~Deletes(ops[k], ops[i].rr))
               => ops[i].rr \in ToSet(f[m])
           Good == {m \in Nat : m <= n => /\ f[m] \in Seq(FileRRs(Names))
                                          /\ Gained(m) /\ Lost(m) /\ There(m)}
<1>3. 0 \in Good
  BY <1>2
<1>4. ASSUME NEW m \in Nat, m \in Good PROVE m + 1 \in Good
  <2>1. SUFFICES ASSUME m + 1 <= n
                 PROVE  /\ f[m + 1] \in Seq(FileRRs(Names))
                        /\ Gained(m + 1) /\ Lost(m + 1) /\ There(m + 1)
    OBVIOUS
  <2>2. m + 1 \in 1 .. n /\ (m + 1) - 1 = m /\ m <= n
    BY <1>1, <2>1
  <2>3. f[m] \in Seq(FileRRs(Names)) /\ Gained(m) /\ Lost(m) /\ There(m)
    BY <1>4, <2>2
  <2> DEFINE op == ops[m + 1]
  <2>4. f[m + 1] = Edit(f[m], op) /\ op \in Operations
    BY <1>1, <1>2, <2>2
  <2> HIDE DEF op
  <2>5. /\ f[m + 1] \in Seq(FileRRs(Names))
        /\ op.op = "add" => ToSet(f[m + 1]) = ToSet(f[m]) \cup {op.rr}
        /\ op.op # "add" => \A r : r \in ToSet(f[m + 1]) <=> r \in ToSet(f[m]) /\ ~Deletes(op, r)
    BY <2>3, <2>4, EditElements
  <2>6. \A i \in 1 .. m : i \in 1 .. m + 1 /\ i # m + 1
    OBVIOUS
  <2>7. m + 1 \in 1 .. m + 1 /\ \A i \in 1 .. m + 1 : i \in 1 .. m \/ i = m + 1
    OBVIOUS
  <2>8. Gained(m + 1)
    <3> SUFFICES ASSUME NEW r \in ToSet(f[m + 1])
                 PROVE  r \in ToSet(rrs) \/ \E i \in 1 .. m + 1 : ops[i].op = "add" /\ r = ops[i].rr
      OBVIOUS
    <3>1. CASE r \in ToSet(f[m])
      BY <2>3, <2>6, <3>1
    <3>2. CASE r \notin ToSet(f[m])
      <4>1. op.op = "add" /\ r = op.rr
        BY <2>5, <3>2
      <4> QED
        BY <2>7, <4>1 DEF op
    <3> QED
      BY <3>1, <3>2
  <2>9. Lost(m + 1)
    <3> SUFFICES ASSUME NEW r \in ToSet(rrs)
                 PROVE  r \in ToSet(f[m + 1]) \/ \E i \in 1 .. m + 1 : Deletes(ops[i], r)
      OBVIOUS
    <3>1. CASE r \in ToSet(f[m])
      <4>1. r \in ToSet(f[m + 1]) \/ Deletes(op, r)
        BY <2>5, <3>1
      <4> QED
        BY <2>7, <4>1 DEF op
    <3>2. CASE r \notin ToSet(f[m])
      BY <2>3, <2>6, <3>2
    <3> QED
      BY <3>1, <3>2
  <2>10. There(m + 1)
    <3> SUFFICES ASSUME NEW i \in 1 .. m + 1, ops[i].op = "add",
                        \A k \in i + 1 .. m + 1 : ~Deletes(ops[k], ops[i].rr)
                 PROVE  ops[i].rr \in ToSet(f[m + 1])
      OBVIOUS
    <3>1. CASE i = m + 1
      BY <2>5, <3>1 DEF op
    <3>2. CASE i # m + 1
      <4>1. i \in 1 .. m /\ m + 1 \in i + 1 .. m + 1 /\ \A k \in i + 1 .. m : k \in i + 1 .. m + 1
        BY <3>2
      <4>2. ops[i].rr \in ToSet(f[m])
        BY <2>3, <4>1
      <4>3. ~Deletes(op, ops[i].rr)
        BY <4>1 DEF op
      <4> QED
        BY <2>5, <4>2, <4>3
    <3> QED
      BY <3>1, <3>2
  <2> QED
    BY <2>5, <2>8, <2>9, <2>10
<1>5. n \in Good
  <2> HIDE DEF Good
  <2> QED
    BY <1>1, <1>3, <1>4, NatsBySteps
<1>6. f[n] \in Seq(FileRRs(Names)) /\ Gained(n) /\ Lost(n) /\ There(n)
  BY <1>1, <1>5
<1> QED
  BY <1>1, <1>2, <1>6 DEF n

-----------------------------------------------------------------------------
(* The mutex and the files that are there.                                 *)

Quiet == {"idle", "find", "begin", "soa", "commit", "create", "delete"}
Stages == Quiet \cup {"saveNew", "save"}

\* The zones whose file is there.
Written == {z \in DOMAIN zones : FileOf(z) \in DOMAIN files}

\* The mutex, and what the one who holds it has done of a save: every zone that
\* it need not write any more has its file, so that named.conf may list it.
SaveInv ==
  /\ daemon \in {"up", "down", "refused"}
  /\ pc \in [Writers -> Stages]
  /\ \A v, w \in Writers : Saving(v) /\ Saving(w) => v = w
  /\ save \in [todo : SUBSET DOMAIN zones, open : SUBSET DOMAIN zones, conf : BOOLEAN]
  /\ save.open = {} \/ \E z \in DOMAIN zones : save.open = {z}
  /\ Unlocked => save = NotSaving
  /\ save.conf => save.todo = {} /\ save.open = {}
  /\ ~Unlocked => DOMAIN zones \ save.todo \subseteq Written

FilesInv == SaveInv /\ ConfNeverDangles

\* The effect of a call that changes no zone.
Moves(w) ==
  /\ ~Saving(w)
  /\ \E label \in Quiet : pc' = [pc EXCEPT ![w] = label]
  /\ UNCHANGED <<daemon, zones, save, disk>>

\* The effect of one that does: a save of all zones begins.
Begins(w) ==
  /\ Unlocked
  /\ \E label \in {"saveNew", "save"} : pc' = [pc EXCEPT ![w] = label]
  /\ save' = [todo |-> DOMAIN zones', open |-> {}, conf |-> FALSE]
  /\ UNCHANGED <<daemon, disk>>

-----------------------------------------------------------------------------
\* Every call of a writer but those of persistLocked moves or begins a save.
LEMMA CallsMoveOrBegin ==
  ASSUME NEW w \in Writers,
         \/ Accept(w)
         \/ /\ Find(w) \/ Begin(w) \/ ReadSoa(w) \/ CommitTx(w) \/ Create(w) \/ Delete(w)
            /\ UNCHANGED daemon
  PROVE  Moves(w) \/ Begins(w)
<1> USE DEF Goto, Reply, Saving, Quiet, disk
<1>1. CASE Accept(w)
  BY <1>1 DEF Accept, Receive, Moves
<1>2. CASE Find(w) /\ UNCHANGED daemon
  BY <1>2 DEF Find, Moves
<1>3. CASE Begin(w) /\ UNCHANGED daemon
  BY <1>3 DEF Begin, Moves
<1>4. CASE ReadSoa(w) /\ UNCHANGED daemon
  BY <1>4 DEF ReadSoa, Moves
<1>5. CASE CommitTx(w) /\ UNCHANGED daemon
  <2>1. CASE tx[w].zone \in DOMAIN zones
    BY <1>5, <2>1 DEF CommitTx, Change, NotSaving, Begins
  <2>2. CASE tx[w].zone \notin DOMAIN zones
    BY <1>5, <2>2 DEF CommitTx, Moves
  <2> QED
    BY <2>1, <2>2
<1>6. CASE Create(w) /\ UNCHANGED daemon
  BY <1>6 DEF Create, Change, NotSaving, Begins
<1>7. CASE Delete(w) /\ UNCHANGED daemon
  BY <1>7 DEF Delete, Change, NotSaving, Begins
<1> QED
  BY <1>1, <1>2, <1>3, <1>4, <1>5, <1>6, <1>7

\* Neither breaks the invariant: a move has no part in a save, and a save that
\* begins has every file still to write.
LEMMA CallsPreserve ==
  ASSUME FilesInv, NEW w \in Writers, Moves(w) \/ Begins(w)
  PROVE  FilesInv'
<1> USE DEF FilesInv, SaveInv
<1>1. CASE Moves(w)
  <2>1. \A v \in Writers : Saving(v)' <=> Saving(v)
    BY <1>1 DEF Moves, Saving, Quiet, Stages
  <2>2. Unlocked' <=> Unlocked
    BY <2>1 DEF Unlocked
  <2>3. pc' \in [Writers -> Stages]
    BY <1>1 DEF Moves, Stages
  <2>4. Written' = Written
    BY <1>1 DEF Moves, Written, FileOf, disk
  <2>5. ConfNeverDangles'
    BY <1>1 DEF Moves, ConfNeverDangles, disk
  <2> QED
    BY <1>1, <2>1, <2>2, <2>3, <2>4, <2>5 DEF Moves, NotSaving
<1>2. CASE Begins(w)
  <2>1. pc' \in [Writers -> Stages]
    BY <1>2 DEF Begins, Stages
  <2>2. \A v \in Writers : Saving(v)' <=> v = w
    BY <1>2 DEF Begins, Saving, Unlocked, Stages
  <2>3. ~Unlocked'
    BY <2>2 DEF Unlocked
  <2>4. ConfNeverDangles'
    BY <1>2 DEF Begins, ConfNeverDangles, disk
  <2> QED
    BY <1>2, <2>1, <2>2, <2>3, <2>4 DEF Begins
<1> QED
  BY <1>1, <1>2

\* A step of persistLocked: files come into being and stay, and named.conf is
\* written when every zone has one.
LEMMA SavesPreserve ==
  ASSUME FilesInv, NEW w \in Writers, SaveStep(w), UNCHANGED daemon
  PROVE  FilesInv'
<1> USE DEF FilesInv, SaveInv
<1>1. CASE OpenFile(w)
  <2>1. PICK z \in save.todo :
          /\ Saving(w) /\ save.open = {}
          /\ files' = [f \in DOMAIN files \cup {FileOf(z)} |->
                         IF f = FileOf(z) THEN [ok |-> TRUE, lines |-> << >>] ELSE files[f]]
          /\ save' = [todo |-> save.todo \ {z}, open |-> {z}, conf |-> save.conf]
          /\ UNCHANGED <<zones, conf, pc, tx, writes, history>>
    BY <1>1 DEF OpenFile
  <2>2. DOMAIN files' = DOMAIN files \cup {FileOf(z)}
    BY <2>1
  <2>3. \A v \in Writers : Saving(v)' <=> Saving(v)
    BY <2>1 DEF Saving
  <2>4. ~Unlocked /\ ~Unlocked'
    BY <2>1, <2>3 DEF Unlocked
  <2>5. Written \cup {z} \subseteq Written'
    BY <2>1, <2>2 DEF Written, FileOf
  <2>6. ConfNeverDangles'
    BY <2>1, <2>2 DEF ConfNeverDangles
  <2> QED
    BY <2>1, <2>3, <2>4, <2>5, <2>6
<1>2. CASE CloseFile(w)
  <2>1. /\ Saving(w)
        /\ DOMAIN files' = DOMAIN files
        /\ save' = [save EXCEPT !.open = {}]
        /\ UNCHANGED <<zones, conf, pc>>
    BY <1>2 DEF CloseFile
  <2>2. save' = [todo |-> save.todo, open |-> {}, conf |-> save.conf]
    BY <2>1
  <2>3. \A v \in Writers : Saving(v)' <=> Saving(v)
    BY <2>1 DEF Saving
  <2>4. ~Unlocked /\ ~Unlocked'
    BY <2>1, <2>3 DEF Unlocked
  <2>5. Written' = Written /\ ConfNeverDangles'
    BY <2>1 DEF Written, FileOf, ConfNeverDangles
  <2> QED
    BY <2>1, <2>2, <2>3, <2>4, <2>5
<1>3. CASE OpenConf(w)
  <2>1. /\ Saving(w)
        /\ save.todo = {} /\ save.open = {}
        /\ save' = [save EXCEPT !.conf = TRUE]
        /\ conf' = << >>
        /\ UNCHANGED <<zones, files, pc>>
    BY <1>3 DEF OpenConf
  <2>2. save' = [todo |-> save.todo, open |-> save.open, conf |-> TRUE]
    BY <2>1
  <2>3. \A v \in Writers : Saving(v)' <=> Saving(v)
    BY <2>1 DEF Saving
  <2>4. ~Unlocked /\ ~Unlocked'
    BY <2>1, <2>3 DEF Unlocked
  <2>5. Written' = Written /\ ConfNeverDangles'
    BY <2>1 DEF Written, FileOf, ConfNeverDangles
  <2> QED
    BY <2>1, <2>2, <2>3, <2>4, <2>5
<1>4. CASE CloseConf(w)
  <2>1. /\ Saving(w) /\ save.conf
        /\ conf' = [y \in DOMAIN zones |-> FileOf(y)]
        /\ save' = NotSaving
        /\ UNCHANGED <<zones, files>>
        /\ \E label \in {"idle", "find"} : pc' = [pc EXCEPT ![w] = label]
    BY <1>4 DEF CloseConf, Reply, Goto
  <2>2. pc' \in [Writers -> Stages]
    BY <2>1 DEF Stages, Quiet
  <2>3. \A v \in Writers : ~Saving(v)'
    BY <2>1, <2>2 DEF Saving
  <2>4. Unlocked'
    BY <2>3 DEF Unlocked
  <2>5. DOMAIN zones \subseteq Written
    BY <2>1 DEF Unlocked
  <2>6. ConfNeverDangles'
    BY <2>1, <2>5 DEF ConfNeverDangles, Written
  <2> QED
    BY <2>1, <2>2, <2>3, <2>4, <2>6 DEF NotSaving
<1> QED
  BY <1>1, <1>2, <1>3, <1>4 DEF SaveStep

\* A crash damages files and shortens named.conf, which lists only zones whose
\* file is there by the time it is written.
LEMMA CrashPreserves ==
  ASSUME FilesInv, Crash
  PROVE  FilesInv'
<1> USE DEF FilesInv, SaveInv
<1>1. /\ daemon' = "down"
      /\ UNCHANGED <<zones, save, pc>>
      /\ DOMAIN files' = DOMAIN files
  BY DEF Crash, memory
<1>2. (\A v \in Writers : Saving(v)' <=> Saving(v)) /\ (Unlocked' <=> Unlocked)
  BY <1>1 DEF Saving, Unlocked
<1>3. Written' = Written
  BY <1>1 DEF Written, FileOf
<1>4. ConfNeverDangles'
  <2>1. CASE save.conf
    <3>1. PICK part \in SUBSET DOMAIN zones : conf' = [z \in part |-> FileOf(z)]
      BY <2>1 DEF Crash
    <3>2. DOMAIN zones \subseteq Written
      BY <2>1 DEF NotSaving
    <3> QED
      BY <1>1, <3>1, <3>2 DEF ConfNeverDangles, Written
  <2>2. CASE ~save.conf
    <3>1. conf' = conf
      BY <2>2 DEF Crash
    <3> QED
      BY <1>1, <3>1 DEF ConfNeverDangles
  <2> QED
    BY <2>1, <2>2
<1> QED
  BY <1>1, <1>2, <1>3, <1>4 DEF NotSaving

\* initialize() leaves the disk alone and nobody holds the mutex after it.
LEMMA RestartPreserves ==
  ASSUME FilesInv, Restart
  PROVE  FilesInv'
<1> USE DEF FilesInv, SaveInv
<1>1. /\ daemon' \in {"up", "refused"}
      /\ save' = NotSaving
      /\ pc' = [w \in Writers |-> "idle"]
      /\ UNCHANGED <<files, conf>>
  BY DEF Restart, disk
<1>2. (\A v \in Writers : ~Saving(v)') /\ Unlocked'
  BY <1>1 DEF Saving, Unlocked
<1>3. ConfNeverDangles'
  BY <1>1 DEF ConfNeverDangles
<1> QED
  BY <1>1, <1>2, <1>3 DEF NotSaving, Stages, Quiet

-----------------------------------------------------------------------------
LEMMA InitFiles == Init => FilesInv
<1> SUFFICES ASSUME Init PROVE FilesInv
  OBVIOUS
<1>1. DOMAIN files = {InitZones[z].file : z \in DOMAIN InitZones}
  BY DEF Init
<1>2. ConfNeverDangles
  BY <1>1 DEF Init, ConfNeverDangles
<1>3. (\A v \in Writers : ~Saving(v)) /\ Unlocked
  BY DEF Init, Saving, Unlocked
<1> QED
  BY <1>2, <1>3 DEF Init, FilesInv, SaveInv, NotSaving, Stages, Quiet

LEMMA StepFiles == FilesInv /\ [Next]_vars => FilesInv'
<1> SUFFICES ASSUME FilesInv, [Next]_vars PROVE FilesInv'
  OBVIOUS
<1>1. CASE Crash
  BY <1>1, CrashPreserves
<1>2. CASE Restart
  BY <1>2, RestartPreserves
<1>3. ASSUME NEW w \in Writers, Accept(w) PROVE FilesInv'
  BY <1>3, CallsMoveOrBegin, CallsPreserve
<1>4. ASSUME NEW w \in Writers, Serve(w) PROVE FilesInv'
  <2>1. CASE SaveStep(w)
    BY <1>4, <2>1, SavesPreserve DEF Serve
  <2>2. CASE Find(w) \/ Begin(w) \/ ReadSoa(w) \/ CommitTx(w) \/ Create(w) \/ Delete(w)
    <3>1. Moves(w) \/ Begins(w)
      BY <1>4, <2>2, CallsMoveOrBegin DEF Serve
    <3> QED
      BY <3>1, CallsPreserve
  <2> QED
    BY <1>4, <2>1, <2>2 DEF Serve
<1>5. CASE UNCHANGED vars
  BY <1>5 DEF vars, memory, disk, FilesInv, SaveInv, ConfNeverDangles, Saving, Unlocked,
              Written, FileOf
<1> QED
  BY <1>1, <1>2, <1>3, <1>4, <1>5 DEF Next

\* In every state, whoever crashed when, a zone that named.conf lists has a file.
THEOREM ConfAlwaysWritten == Spec => []ConfNeverDangles
<1>1. FilesInv => ConfNeverDangles
  BY DEF FilesInv
<1> QED
  BY <1>1, InitFiles, StepFiles, PTL DEF Spec

CountInv == writes \in 0 .. MaxWrites /\ crashes \in 0 .. MaxCrashes

\* The control of the backend and of a save is what TypeOK says, at all times: in
\* particular only one writer saves, and it writes one file at a time.
THEOREM BackendTypeCorrect == Spec => []TypeOK
<1>1. Init => CountInv
  BY BindFileAssumption DEF Init, CountInv
<1>2. CountInv /\ [Next]_vars => CountInv'
  <2> SUFFICES ASSUME CountInv, [Next]_vars PROVE CountInv'
    OBVIOUS
  <2> USE BindFileAssumption DEF CountInv
  <2>1. CASE Crash
    BY <2>1 DEF Crash
  <2>2. CASE Restart
    BY <2>2 DEF Restart
  <2>3. ASSUME NEW w \in Writers, Accept(w) PROVE CountInv'
    BY <2>3 DEF Accept, Receive
  <2>4. ASSUME NEW w \in Writers, Serve(w) PROVE CountInv'
    BY <2>4 DEF Serve, Find, Begin, ReadSoa, CommitTx, Create, Delete, SaveStep, OpenFile,
                CloseFile, OpenConf, CloseConf
  <2>5. CASE UNCHANGED vars
    BY <2>5 DEF vars
  <2> QED
    BY <2>1, <2>2, <2>3, <2>4, <2>5 DEF Next
<1>3. FilesInv /\ CountInv => TypeOK
  <2> SUFFICES ASSUME FilesInv, CountInv PROVE TypeOK
    OBVIOUS
  <2>1. Cardinality(save.open) <= 1
    <3>1. Cardinality({}) = 0 /\ \A z : Cardinality({z}) = 1
      BY FS_EmptySet, FS_Singleton
    <3>2. save.open = {} \/ \E z : save.open = {z}
      BY DEF FilesInv, SaveInv
    <3>3. CASE save.open = {}
      BY <3>1, <3>3
    <3>4. CASE \E z : save.open = {z}
      <4>1. Cardinality(save.open) = 1
        BY <3>1, <3>4, Zenon
      <4> QED
        BY <4>1
    <3> QED
      BY <3>2, <3>3, <3>4
  <2> QED
    BY <2>1 DEF FilesInv, SaveInv, CountInv, TypeOK
<1> QED
  BY <1>1, <1>2, <1>3, InitFiles, StepFiles, PTL DEF Spec

-----------------------------------------------------------------------------
(* What zones, calls and files are made of.                                *)

Transactions ==
  [kind : {"none", "update", "POST", "DELETE"}, zone : Names, ops : Seq(Operations),
   soa : Seq(FileRRs(Names)), copied : Seq(FileRRs(Names)), rrs : Seq(FileRRs(Names))]

\* The files a zone of this name may be in.
OwnFiles(z) == {DefaultFile(z)} \cup {InitZones[y].file : y \in DOMAIN InitZones \cap {z}}

LegibleZone(z, zone) ==
  /\ zone \in [file : {Root} \cup OwnFiles(z), rrs : Seq(FileRRs(Names))]
  /\ Legible(z, zone.rrs)
LegibleZones(db) == DOMAIN db \subseteq Apexes /\ \A z \in DOMAIN db : LegibleZone(z, db[z])

LegibleCall(label, t) ==
  /\ label # "idle" => t.zone \in Apexes /\ LegibleOps(t.ops, t.zone)
  /\ label = "create" => Len(t.soa) = 1
  /\ label \in {"soa", "commit"} => Legible(t.zone, t.rrs)

CallInv == tx \in [Writers -> Transactions] /\ \A w \in Writers : LegibleCall(pc[w], tx[w])

DataInv ==
  /\ LegibleZones(zones) /\ LegibleZones(saved)
  /\ \A f \in DOMAIN files : files[f] \in [ok : BOOLEAN, lines : Seq(Lines)]
  /\ DOMAIN conf \subseteq Apexes /\ \A z \in DOMAIN conf : conf[z] \in OwnFiles(z)

LEMMA ApexesAreNames == Apexes \subseteq Names
BY BindFileAssumption

\* findZone finds a zone that encloses the name.
LEMMA FoundEncloses ==
  ASSUME NEW db, DOMAIN db \subseteq Names, NEW name \in Names, Enclosing(db, name) # {}
  PROVE  FindZone(db, name) \in DOMAIN db /\ IsSubdomainOf(name, FindZone(db, name))
<1> DEFINE E == Enclosing(db, name)
           lengths == {Len(z) + 1 : z \in E}
<1>1. E \subseteq Names /\ \A z \in E : z \in DOMAIN db /\ IsSubdomainOf(name, z)
  BY DEF Enclosing
<1>2. Len(name) + 1 \in Nat /\ \A z \in E : Len(z) \in Nat /\ Len(z) + 1 \in 1 .. Len(name) + 1
  BY <1>1 DEF IsSubdomainOf, Names
<1>3. lengths \in SUBSET (1 .. Len(name) + 1) /\ lengths # {}
  BY <1>2
<1>4. \E z \in E : \A y \in E : Len(y) <= Len(z)
  <2> DEFINE m == Max(lengths)
  <2>1. m \in lengths /\ \A x \in lengths : m >= x
    <3> HIDE DEF lengths
    <3> QED
      BY <1>2, <1>3, MaxOfPositions
  <2> HIDE DEF m
  <2>2. PICK z \in E : m = Len(z) + 1
    BY <2>1
  <2>3. ASSUME NEW y \in E PROVE Len(y) <= Len(z)
    <3>1. m >= Len(y) + 1
      BY <2>1
    <3> QED
      BY <1>2, <2>2, <3>1
  <2> QED
    BY <2>3
<1>5. FindZone(db, name) \in E
  BY <1>4 DEF FindZone, Deepest
<1> QED
  BY <1>1, <1>5

\* It is enough that the new call of the one writer is legible.
LEMMA OneCall ==
  ASSUME CallInv, pc \in [Writers -> Stages], NEW w \in Writers,
         NEW label, pc' = [pc EXCEPT ![w] = label],
         NEW t \in Transactions, tx' = [tx EXCEPT ![w] = t], LegibleCall(label, t)
  PROVE  CallInv'
<1>1. tx' \in [Writers -> Transactions]
  BY DEF CallInv
<1>2. ASSUME NEW v \in Writers PROVE LegibleCall(pc[v], tx[v])'
  <2>1. CASE v = w
    <3>1. pc'[v] = label /\ tx'[v] = t
      BY <2>1 DEF CallInv
    <3> QED
      BY <3>1 DEF LegibleCall, Legible, LegibleOps
  <2>2. CASE v # w
    <3>1. pc'[v] = pc[v] /\ tx'[v] = tx[v]
      BY <2>2 DEF CallInv
    <3> QED
      BY <3>1 DEF CallInv, LegibleCall, Legible, LegibleOps
  <2> QED
    BY <2>1, <2>2
<1> QED
  BY <1>1, <1>2 DEF CallInv

LEMMA IdleIsLegible == NoTx \in Transactions /\ LegibleCall("idle", NoTx)
<1>1. << >> \in Seq(Operations) /\ << >> \in Seq(FileRRs(Names)) /\ Root \in Names
  BY DEF Root, Names
<1> QED
  BY <1>1 DEF NoTx, Transactions, LegibleCall

\* A call that ends leaves its writer idle; one that goes on with the same
\* transaction is as legible as before.
LEMMA Replies ==
  ASSUME CallInv, pc \in [Writers -> Stages], NEW w \in Writers, Reply(w)
  PROVE  CallInv'
BY OneCall, IdleIsLegible DEF Reply, Goto

LEMMA GoesTo ==
  ASSUME CallInv, pc \in [Writers -> Stages], NEW w \in Writers,
         NEW label \in {"find", "begin", "delete", "saveNew", "save"},
         Goto(w, label), UNCHANGED tx, pc[w] # "idle"
  PROVE  CallInv'
<1>1. tx' = [tx EXCEPT ![w] = tx[w]] /\ tx[w] \in Transactions
  BY DEF CallInv
<1>2. LegibleCall(label, tx[w])
  BY DEF CallInv, LegibleCall
<1> QED
  BY <1>1, <1>2, OneCall DEF Goto

-----------------------------------------------------------------------------
(* Calls keep what the zones and the transactions are made of.             *)

ZoneInv == FilesInv /\ CallInv /\ DataInv

\* What the disk and the zones are made of does not change with the calls.
LEMMA SameData ==
  ASSUME DataInv, UNCHANGED <<zones, saved, files, conf>>
  PROVE  DataInv'
BY DEF DataInv, LegibleZones, LegibleZone, Legible, OwnFiles

\* A request that comes in is as the instance allows.
LEMMA ReceiveKeepsCalls ==
  ASSUME ZoneInv, LegibleRequests, NEW w \in Writers, Receive(w)
  PROVE  CallInv'
<1>1. PICK req \in Requests :
        /\ tx' = [tx EXCEPT ![w] = [NoTx EXCEPT !.kind = req.kind, !.zone = req.zone,
                                                !.ops = req.ops, !.soa = req.soa]]
        /\ Goto(w, IF req.kind = "POST" THEN "create" ELSE "find")
  BY DEF Receive
<1> DEFINE t == [NoTx EXCEPT !.kind = req.kind, !.zone = req.zone,
                             !.ops = req.ops, !.soa = req.soa]
           label == IF req.kind = "POST" THEN "create" ELSE "find"
<1>2. /\ req.kind \in {"update", "POST", "DELETE"} /\ req.zone \in Apexes
      /\ req.ops \in Seq(Operations) /\ req.soa \in Seq(FileRRs(Names)) /\ Len(req.soa) = 1
      /\ req.zone \in Names /\ LegibleOps(req.ops, req.zone)
  BY BindFileAssumption DEF Apexes, LegibleRequests
<1>3. /\ t \in Transactions
      /\ t.zone = req.zone /\ t.ops = req.ops /\ t.soa = req.soa
  BY <1>2, IdleIsLegible DEF Transactions
<1>4. LegibleCall(label, t)
  <2> HIDE DEF t
  <2>1. label \in {"create", "find"}
    OBVIOUS
  <2> HIDE DEF label
  <2> QED
    BY <1>2, <1>3, <2>1 DEF LegibleCall
<1>5. tx' = [tx EXCEPT ![w] = t] /\ pc' = [pc EXCEPT ![w] = label]
  BY <1>1 DEF Goto
<1> HIDE DEF t, label
<1> QED
  BY <1>3, <1>4, <1>5, OneCall DEF ZoneInv, FilesInv, SaveInv

\* The zone that is found is one of the apexes, and the records added fit it.
LEMMA FindKeepsCalls ==
  ASSUME ZoneInv, NEW w \in Writers, Find(w)
  PROVE  CallInv'
<1> DEFINE zone == FindZone(zones, tx[w].zone)
           t == [tx[w] EXCEPT !.zone = zone]
           label == IF tx[w].kind = "DELETE" THEN "delete" ELSE "begin"
<1>0. CallInv /\ pc \in [Writers -> Stages] /\ pc[w] = "find"
  BY DEF ZoneInv, FilesInv, SaveInv, Find
<1>1. CASE Reply(w)
  BY <1>0, <1>1, Replies
<1>2. CASE Enclosing(zones, tx[w].zone) # {} /\ tx' = [tx EXCEPT ![w].zone = zone] /\ Goto(w, label)
  <2>1. DOMAIN zones \subseteq Apexes /\ DOMAIN zones \subseteq Names /\ tx[w].zone \in Names
    BY ApexesAreNames DEF ZoneInv, DataInv, LegibleZones, CallInv, Transactions
  <2>2. zone \in DOMAIN zones /\ IsSubdomainOf(tx[w].zone, zone)
    BY <1>2, <2>1, FoundEncloses
  <2> HIDE DEF zone
  <2>3. t \in Transactions /\ t.zone = zone /\ t.ops = tx[w].ops
    BY <1>0, <2>1, <2>2 DEF CallInv, Transactions
  <2>4. LegibleOps(tx[w].ops, zone)
    <3>1. LegibleOps(tx[w].ops, tx[w].zone)
      BY <1>0 DEF CallInv, LegibleCall
    <3>2. ASSUME NEW z \in Apexes, IsSubdomainOf(zone, z) PROVE IsSubdomainOf(tx[w].zone, z)
      <4>1. zone \in Names /\ z \in Names
        BY <2>1, <2>2, ApexesAreNames
      <4> QED
        BY <2>1, <2>2, <3>2, <4>1, SubdomainTransitive
    <3> QED
      BY <3>1, <3>2 DEF LegibleOps
  <2>5. LegibleCall(label, t)
    <3> HIDE DEF t
    <3>1. label \in {"delete", "begin"}
      OBVIOUS
    <3> HIDE DEF label
    <3> QED
      BY <2>1, <2>2, <2>3, <2>4, <3>1 DEF LegibleCall
  <2>6. tx' = [tx EXCEPT ![w] = t] /\ pc' = [pc EXCEPT ![w] = label]
    BY <1>2 DEF Goto
  <2> HIDE DEF t, label
  <2> QED
    BY <1>0, <2>3, <2>5, <2>6, OneCall
<1> QED
  BY <1>1, <1>2 DEF Find

\* The copy is legible, and so is it after its edits.
LEMMA BeginKeepsCalls ==
  ASSUME ZoneInv, NEW w \in Writers, Begin(w)
  PROVE  CallInv'
<1>0. CallInv /\ pc \in [Writers -> Stages] /\ pc[w] = "begin"
  BY DEF ZoneInv, FilesInv, SaveInv, Begin
<1>1. CASE Reply(w)
  BY <1>0, <1>1, Replies
<1>2. CASE tx[w].zone \in DOMAIN zones /\ ~Reply(w)
  <2> DEFINE rrs == zones[tx[w].zone].rrs
             new == Edited(rrs, tx[w].ops)
             t == [tx[w] EXCEPT !.copied = rrs, !.rrs = new]
             label == IF tx[w].kind = "POST" THEN "commit" ELSE "soa"
  <2>1. tx[w] \in Transactions /\ LegibleCall(pc[w], tx[w]) /\ tx[w].ops \in Seq(Operations)
    BY <1>0 DEF CallInv, Transactions
  <2>2. rrs \in Seq(FileRRs(Names)) /\ Legible(tx[w].zone, rrs)
    BY <1>2 DEF ZoneInv, DataInv, LegibleZones, LegibleZone
  <2>3. tx[w].zone \in Apexes /\ tx[w].zone \in Names /\ LegibleOps(tx[w].ops, tx[w].zone)
    BY <1>0, <2>1, ApexesAreNames DEF LegibleCall
  <2> HIDE DEF rrs
  <2>4. /\ new \in Seq(FileRRs(Names))
        /\ \A r \in ToSet(new) :
             r \in ToSet(rrs) \/ \E i \in DOMAIN tx[w].ops : tx[w].ops[i].op = "add" /\ r = tx[w].ops[i].rr
    <3> HIDE DEF new
    <3>1. new = Edited(rrs, tx[w].ops)
      BY DEF new
    <3> QED
      BY <2>1, <2>2, <3>1, EditedElements
  <2> HIDE DEF new
  <2>5. Legible(tx[w].zone, new)
    <3> SUFFICES ASSUME NEW i \in DOMAIN new
                 PROVE  LegibleOwner(MakeRelative(new[i].name, tx[w].zone))
      BY DEF Legible
    <3>1. new[i] \in ToSet(new)
      BY DEF ToSet
    <3>2. CASE new[i] \in ToSet(rrs)
      BY <2>2, <3>2 DEF Legible, ToSet
    <3>3. CASE \E k \in DOMAIN tx[w].ops : tx[w].ops[k].op = "add" /\ new[i] = tx[w].ops[k].rr
      BY <2>3, <3>3, SubdomainReflexive DEF LegibleOps
    <3> QED
      BY <2>4, <3>1, <3>2, <3>3
  <2>6. t \in Transactions /\ t.zone = tx[w].zone /\ t.ops = tx[w].ops /\ t.rrs = new
    BY <2>1, <2>2, <2>4 DEF Transactions
  <2>7. LegibleCall(label, t)
    <3> HIDE DEF t
    <3>1. label \in {"commit", "soa"}
      OBVIOUS
    <3> HIDE DEF label
    <3> QED
      BY <2>3, <2>5, <2>6, <3>1 DEF LegibleCall
  <2>8. tx' = [tx EXCEPT ![w] = t] /\ pc' = [pc EXCEPT ![w] = label]
    BY <1>2 DEF Begin, Goto, rrs, new
  <2> HIDE DEF t, label
  <2> QED
    BY <1>0, <2>6, <2>7, <2>8, OneCall
<1> QED
  BY <1>1, <1>2 DEF Begin

\* Serials do not change owners, nor records other than SOAs.
LEMMA SerialElements ==
  ASSUME NEW rrs \in Seq(FileRRs(Names)), NEW serial \in Nat
  PROVE  /\ SetSoaSerial(rrs, serial) \in Seq(FileRRs(Names))
         /\ DOMAIN SetSoaSerial(rrs, serial) = DOMAIN rrs
         /\ \A i \in DOMAIN rrs : SetSoaSerial(rrs, serial)[i].name = rrs[i].name
         /\ \A r \in ToSet(rrs) : r.type = "SOA" \/ r \in ToSet(SetSoaSerial(rrs, serial))
<1> DEFINE n == Len(rrs)
           new == SetSoaSerial(rrs, serial)
<1>1. n \in Nat /\ DOMAIN rrs = 1 .. n /\ \A i \in 1 .. n : rrs[i] \in FileRRs(Names)
  OBVIOUS
<1>2. new = [i \in 1 .. n |-> IF rrs[i].type = "SOA" THEN [rrs[i] EXCEPT !.num = serial] ELSE rrs[i]]
  BY <1>1 DEF SetSoaSerial
<1>3. ASSUME NEW i \in 1 .. n
      PROVE  /\ new[i] \in FileRRs(Names) /\ new[i].name = rrs[i].name
             /\ rrs[i].type # "SOA" => new[i] = rrs[i]
  BY <1>1, <1>2 DEF FileRRs
<1> HIDE DEF new, n
<1>4. new = [i \in 1 .. n |-> new[i]]
  BY <1>2
<1>5. new \in Seq(FileRRs(Names))
  BY <1>1, <1>3, <1>4, IsASeq
<1>6. DOMAIN new = 1 .. n
  BY <1>4
<1>7. ASSUME NEW r \in ToSet(rrs), r.type # "SOA" PROVE r \in ToSet(new)
  <2>1. PICK i \in 1 .. n : r = rrs[i]
    BY <1>1 DEF ToSet
  <2>2. new[i] = r
    BY <1>3, <1>7, <2>1
  <2> QED
    BY <1>6, <2>2 DEF ToSet
<1> QED
  BY <1>1, <1>3, <1>5, <1>6, <1>7 DEF new

\* A serial is a number.
LEMMA NextSerial ==
  ASSUME NEW db, NEW z, ListZone(db, z) \in Seq(FileRRs(Names)), Lookup(db, z, z, "SOA") # << >>
  PROVE  (Lookup(db, z, z, "SOA")[1].num + 1) % SerialMod \in Nat
<1> DEFINE rrs == ListZone(db, z)
           P == {i \in DOMAIN rrs : rrs[i].name = z /\ "SOA" \in {"ANY", rrs[i].type}}
           soa == Lookup(db, z, z, "SOA")
<1>1. soa = ElementsAt(rrs, P)
  BY DEF Lookup
<1>2. soa \in Seq(FileRRs(Names))
  <2> HIDE DEF P, rrs, soa
  <2>1. rrs \in Seq(FileRRs(Names))
    BY DEF rrs
  <2> QED
    BY <1>1, <2>1, ElementsKept
<1> HIDE DEF soa
<1>3. soa[1] \in FileRRs(Names)
  BY <1>2 DEF soa
<1>4. soa[1].num \in Nat /\ SerialMod \in Nat \ {0}
  BY <1>3, BindFileAssumption DEF FileRRs
<1> QED
  BY <1>4 DEF soa

\* The copy after the serial: what it has lost are SOAs.
LEMMA ReadSoaEffect ==
  ASSUME ZoneInv, NEW w \in Writers, ReadSoa(w)
  PROVE  \E new \in Seq(FileRRs(Names)) :
           /\ tx' = [tx EXCEPT ![w] = [tx[w] EXCEPT !.rrs = new]]
           /\ DOMAIN new = DOMAIN tx[w].rrs
           /\ \A i \in DOMAIN new : new[i].name = tx[w].rrs[i].name
           /\ \A r \in ToSet(tx[w].rrs) : r.type = "SOA" \/ r \in ToSet(new)
<1> DEFINE soa == Lookup(zones, tx[w].zone, tx[w].zone, "SOA")
           old == tx[w].rrs
<1>1. /\ tx[w] \in Transactions /\ tx \in [Writers -> Transactions]
      /\ old \in Seq(FileRRs(Names)) /\ DOMAIN zones \subseteq Apexes
  BY DEF ZoneInv, CallInv, Transactions, DataInv, LegibleZones
<1>2. CASE soa = << >>
  <2>1. tx' = [tx EXCEPT ![w] = [tx[w] EXCEPT !.rrs = old]]
    BY <1>2 DEF ReadSoa
  <2> QED
    BY <1>1, <2>1
<1>3. CASE soa # << >>
  <2> DEFINE serial == (soa[1].num + 1) % SerialMod
             new == SetSoaSerial(old, serial)
  <2>1. ListZone(zones, tx[w].zone) \in Seq(FileRRs(Names))
    BY DEF ListZone, ZoneInv, DataInv, LegibleZones, LegibleZone
  <2>2. serial \in Nat
    BY <1>3, <2>1, NextSerial
  <2>3. tx' = [tx EXCEPT ![w] = [tx[w] EXCEPT !.rrs = new]]
    BY <1>3 DEF ReadSoa
  <2> HIDE DEF serial, old
  <2>4. /\ new \in Seq(FileRRs(Names)) /\ DOMAIN new = DOMAIN old
        /\ \A i \in DOMAIN old : new[i].name = old[i].name
        /\ \A r \in ToSet(old) : r.type = "SOA" \/ r \in ToSet(new)
    BY <1>1, <2>2, SerialElements
  <2> HIDE DEF new
  <2> QED
    BY <2>3, <2>4 DEF old
<1> QED
  BY <1>2, <1>3

\* A new serial changes no owner.
LEMMA ReadSoaKeepsCalls ==
  ASSUME ZoneInv, NEW w \in Writers, ReadSoa(w)
  PROVE  CallInv'
<1>0. /\ CallInv /\ pc \in [Writers -> Stages] /\ pc[w] = "soa"
      /\ pc' = [pc EXCEPT ![w] = "commit"]
  BY DEF ZoneInv, FilesInv, SaveInv, ReadSoa, Goto
<1>1. PICK new \in Seq(FileRRs(Names)) :
        /\ tx' = [tx EXCEPT ![w] = [tx[w] EXCEPT !.rrs = new]]
        /\ DOMAIN new = DOMAIN tx[w].rrs
        /\ \A i \in DOMAIN new : new[i].name = tx[w].rrs[i].name
  BY ReadSoaEffect
<1> DEFINE t == [tx[w] EXCEPT !.rrs = new]
<1>2. t \in Transactions /\ t.zone = tx[w].zone /\ t.ops = tx[w].ops /\ t.rrs = new
  BY <1>0 DEF CallInv, Transactions
<1>3. LegibleCall("soa", tx[w])
  BY <1>0 DEF CallInv
<1>4. LegibleCall("commit", t)
  <2> HIDE DEF t
  <2> QED
    BY <1>1, <1>2, <1>3 DEF LegibleCall, Legible
<1> HIDE DEF t
<1>5. tx' = [tx EXCEPT ![w] = t]
  BY <1>1 DEF t
<1> QED
  BY <1>0, <1>2, <1>4, <1>5, OneCall

-----------------------------------------------------------------------------
(* Changes, saves, crashes and restarts keep it too.                       *)

\* The copy of a legible zone is a legible zone.
LEMMA CommitKeepsZones ==
  ASSUME ZoneInv, NEW w \in Writers, CommitTx(w)
  PROVE  CallInv' /\ DataInv'
<1>0. CallInv /\ pc \in [Writers -> Stages] /\ pc[w] = "commit" /\ DataInv
  BY DEF ZoneInv, FilesInv, SaveInv, CommitTx
<1>1. CASE Reply(w) /\ UNCHANGED zones
  BY <1>0, <1>1, Replies, SameData DEF CommitTx, disk, history
<1>2. CASE /\ tx[w].zone \in DOMAIN zones
           /\ zones' = [zones EXCEPT ![tx[w].zone].rrs = tx[w].rrs]
           /\ Goto(w, "save") /\ UNCHANGED tx
  <2>1. CallInv'
    BY <1>0, <1>2, GoesTo
  <2>2. tx[w].rrs \in Seq(FileRRs(Names)) /\ Legible(tx[w].zone, tx[w].rrs)
    BY <1>0 DEF CallInv, LegibleCall, Transactions
  <2>3. DOMAIN zones' = DOMAIN zones
    BY <1>2
  <2>4. ASSUME NEW z \in DOMAIN zones PROVE LegibleZone(z, zones'[z])
    <3>1. LegibleZone(z, zones[z])
      BY <1>0 DEF DataInv, LegibleZones
    <3>2. CASE z = tx[w].zone
      <4>1. zones'[z] = [zones[z] EXCEPT !.rrs = tx[w].rrs]
        BY <1>2, <3>2
      <4> QED
        BY <2>2, <3>1, <3>2, <4>1 DEF LegibleZone
    <3>3. CASE z # tx[w].zone
      BY <1>2, <3>1, <3>3
    <3> QED
      BY <3>2, <3>3
  <2>5. UNCHANGED <<saved, files, conf>>
    BY DEF CommitTx, disk, history
  <2>6. LegibleZones(zones')
    BY <1>0, <2>3, <2>4 DEF LegibleZones, DataInv
  <2> QED
    BY <1>0, <2>1, <2>5, <2>6 DEF DataInv
<1> QED
  BY <1>1, <1>2 DEF CommitTx, Change

\* A new zone is its SOA, which is always legible.
LEMMA CreateKeepsZones ==
  ASSUME ZoneInv, NEW w \in Writers, Create(w)
  PROVE  CallInv' /\ DataInv'
<1> DEFINE z == tx[w].zone
           soa == [tx[w].soa[1] EXCEPT !.name = z, !.type = "SOA"]
           new == [file |-> Root, rrs |-> <<soa>>]
<1>0. /\ CallInv /\ pc \in [Writers -> Stages] /\ pc[w] = "create" /\ DataInv
      /\ zones' = [y \in DOMAIN zones \cup {z} |-> IF y = z THEN new ELSE zones[y]]
      /\ Goto(w, "saveNew") /\ UNCHANGED <<tx, saved, files, conf>>
  BY DEF ZoneInv, FilesInv, SaveInv, Create, Change, disk, history
<1>1. CallInv'
  BY <1>0, GoesTo
<1>2. z \in Apexes /\ z \in Names /\ tx[w].soa[1] \in FileRRs(Names)
  BY <1>0, ApexesAreNames DEF CallInv, LegibleCall, Transactions
<1>3. soa \in FileRRs(Names) /\ soa.name = z
  BY <1>2 DEF FileRRs, Types
<1>4. LegibleZone(z, new)
  <2>1. <<soa>> \in Seq(FileRRs(Names)) /\ \A i \in DOMAIN <<soa>> : <<soa>>[i] = soa
    BY <1>3
  <2>2. LegibleOwner(MakeRelative(z, z))
    BY <1>2, ApexIsPlain DEF PlainOwner, LegibleOwner
  <2> HIDE DEF soa, z
  <2>3. Legible(z, <<soa>>)
    BY <1>3, <2>1, <2>2 DEF Legible
  <2> QED
    BY <2>1, <2>3 DEF LegibleZone
<1> HIDE DEF z, soa, new
<1>5. LegibleZones(zones')
  BY <1>0, <1>2, <1>4 DEF LegibleZones, DataInv
<1> QED
  BY <1>0, <1>1, <1>5 DEF DataInv

\* What is left of the zones is as it was.
LEMMA DeleteKeepsZones ==
  ASSUME ZoneInv, NEW w \in Writers, Delete(w)
  PROVE  CallInv' /\ DataInv'
<1>0. /\ CallInv /\ pc \in [Writers -> Stages] /\ pc[w] = "delete" /\ DataInv
      /\ zones' = [z \in DOMAIN zones \ {tx[w].zone} |-> zones[z]]
      /\ Goto(w, "save") /\ UNCHANGED <<tx, saved, files, conf>>
  BY DEF ZoneInv, FilesInv, SaveInv, Delete, DeleteZone, Change, disk, history
<1>1. CallInv'
  BY <1>0, GoesTo
<1>2. LegibleZones(zones')
  BY <1>0 DEF LegibleZones, DataInv
<1> QED
  BY <1>0, <1>1, <1>2 DEF DataInv

\* What is written of a zone can be a file.
LEMMA TextIsLines ==
  ASSUME DataInv, NEW z \in DOMAIN zones
  PROVE  z \in Names /\ zones[z].rrs \in Seq(FileRRs(Names)) /\ Text(z).lines \in Seq(Lines)
<1>1. z \in Names /\ zones[z].rrs \in Seq(FileRRs(Names))
  BY ApexesAreNames DEF DataInv, LegibleZones, LegibleZone
<1> QED
  BY <1>1, TextType DEF Text

\* The file of a zone is its own.
LEMMA OwnsItsFile ==
  ASSUME DataInv, NEW z \in DOMAIN zones
  PROVE  FileOf(z) \in OwnFiles(z)
<1>1. zones[z].file \in {Root} \cup OwnFiles(z)
  BY DEF DataInv, LegibleZones, LegibleZone
<1> QED
  BY <1>1 DEF FileOf, OwnFiles

LEMMA SameCalls ==
  ASSUME CallInv, UNCHANGED <<tx, pc>>
  PROVE  CallInv'
BY DEF CallInv, LegibleCall, Legible, LegibleOps

\* A save changes the disk only.
LEMMA SavesKeepZones ==
  ASSUME ZoneInv, NEW w \in Writers, SaveStep(w)
  PROVE  CallInv' /\ DataInv'
<1>0. CallInv /\ pc \in [Writers -> Stages] /\ DataInv /\ SaveInv
  BY DEF ZoneInv, FilesInv, SaveInv
<1>1. CASE OpenFile(w)
  <2>1. PICK z \in save.todo :
          /\ files' = [f \in DOMAIN files \cup {FileOf(z)} |->
                         IF f = FileOf(z) THEN [ok |-> TRUE, lines |-> << >>] ELSE files[f]]
          /\ UNCHANGED <<zones, conf, pc, tx, saved>>
    BY <1>1 DEF OpenFile, history
  <2>2. << >> \in Seq(Lines)
    OBVIOUS
  <2>3. \A f \in DOMAIN files' : files'[f] \in [ok : BOOLEAN, lines : Seq(Lines)]
    BY <1>0, <2>1, <2>2 DEF DataInv
  <2> QED
    BY <1>0, <2>1, <2>3, SameCalls DEF DataInv
<1>2. CASE CloseFile(w)
  <2>1. PICK z \in save.open :
          /\ files' = [files EXCEPT ![FileOf(z)] = Text(z)]
          /\ UNCHANGED <<zones, conf, pc, tx, saved>>
    BY <1>2 DEF CloseFile, history
  <2>2. z \in DOMAIN zones
    BY <1>0 DEF SaveInv
  <2>3. Text(z) \in [ok : BOOLEAN, lines : Seq(Lines)]
    <3>1. Text(z).lines \in Seq(Lines)
      BY <1>0, <2>2, TextIsLines
    <3> QED
      BY <3>1 DEF Text
  <2>4. \A f \in DOMAIN files' : files'[f] \in [ok : BOOLEAN, lines : Seq(Lines)]
    BY <1>0, <2>1, <2>3 DEF DataInv
  <2> QED
    BY <1>0, <2>1, <2>4, SameCalls DEF DataInv
<1>3. CASE OpenConf(w)
  <2>1. conf' = << >> /\ DOMAIN << >> = {} /\ UNCHANGED <<zones, files, pc, tx, saved>>
    BY <1>3 DEF OpenConf, history
  <2> QED
    BY <1>0, <2>1, SameCalls DEF DataInv
<1>4. CASE CloseConf(w)
  <2>1. /\ Saving(w)
        /\ conf' = [y \in DOMAIN zones |-> FileOf(y)]
        /\ saved' = zones /\ UNCHANGED <<zones, files>>
    BY <1>4 DEF CloseConf
  <2>2. DataInv'
    BY <1>0, <2>1, OwnsItsFile DEF DataInv, LegibleZones
  <2>3. Reply(w) \/ (Goto(w, "find") /\ UNCHANGED tx)
    BY <1>4 DEF CloseConf
  <2>4. pc[w] # "idle"
    BY <2>1 DEF Saving
  <2>5. CallInv'
    BY <1>0, <2>3, <2>4, Replies, GoesTo
  <2> QED
    BY <2>2, <2>5
<1> QED
  BY <1>1, <1>2, <1>3, <1>4 DEF SaveStep

\* What a crash leaves of a file is a part of its lines.
LEMMA CrashKeepsZones ==
  ASSUME ZoneInv, Crash
  PROVE  CallInv' /\ DataInv'
<1>0. /\ CallInv /\ DataInv /\ SaveInv
      /\ UNCHANGED <<zones, pc, tx, saved>>
  BY DEF ZoneInv, FilesInv, Crash, memory
<1>1. \A f \in DOMAIN files' : files'[f] \in [ok : BOOLEAN, lines : Seq(Lines)]
  <2>1. CASE save.open = {}
    BY <1>0, <2>1 DEF Crash, DataInv
  <2>2. CASE save.open # {}
    <3>0. PICK z \in save.open : \E n \in 0 .. Len(Text(z).lines), ok \in BOOLEAN :
            files' = [files EXCEPT ![FileOf(z)] =
                        [ok |-> ok, lines |-> SubSeq(Text(z).lines, 1, n)]]
      BY <2>2 DEF Crash
    <3>1. PICK n \in 0 .. Len(Text(z).lines), ok \in BOOLEAN :
            files' = [files EXCEPT ![FileOf(z)] =
                        [ok |-> ok, lines |-> SubSeq(Text(z).lines, 1, n)]]
      BY <3>0
    <3>2. Text(z).lines \in Seq(Lines)
      BY <1>0, TextIsLines DEF SaveInv
    <3>3. SubSeq(Text(z).lines, 1, n) \in Seq(Lines)
      BY <3>1, <3>2
    <3> QED
      BY <1>0, <3>1, <3>3 DEF DataInv
  <2> QED
    BY <2>1, <2>2
<1>2. DOMAIN conf' \subseteq Apexes /\ \A z \in DOMAIN conf' : conf'[z] \in OwnFiles(z)
  <2>1. CASE save.conf
    <3>1. PICK part \in SUBSET DOMAIN zones : conf' = [z \in part |-> FileOf(z)]
      BY <2>1 DEF Crash
    <3> QED
      BY <1>0, <3>1, OwnsItsFile DEF DataInv, LegibleZones
  <2>2. CASE ~save.conf
    BY <1>0, <2>2 DEF Crash, DataInv
  <2> QED
    BY <2>1, <2>2
<1>3. CallInv'
  BY <1>0, SameCalls
<1> QED
  BY <1>0, <1>1, <1>2, <1>3 DEF DataInv

\* What a restart reads is legible: it is plain.
LEMMA RestartKeepsZones ==
  ASSUME ZoneInv, Restart
  PROVE  CallInv' /\ DataInv'
<1>0. /\ DataInv
      /\ pc' = [v \in Writers |-> "idle"] /\ tx' = [v \in Writers |-> NoTx]
      /\ UNCHANGED <<files, conf>>
  BY DEF ZoneInv, Restart, disk
<1>1. CallInv'
  <2>1. \A v \in Writers : pc'[v] = "idle" /\ tx'[v] = NoTx
    BY <1>0
  <2>2. tx' \in [Writers -> Transactions]
    BY <1>0, IdleIsLegible
  <2> QED
    BY <2>1, <2>2, IdleIsLegible DEF CallInv, LegibleCall, LegibleOps, Legible
<1>2. CASE UNCHANGED <<zones, saved>>
  BY <1>0, <1>1, <1>2, SameData
<1>3. CASE /\ \A z \in DOMAIN conf : Readable(z)
           /\ zones' = [z \in DOMAIN conf |-> [file |-> conf[z], rrs |-> RecordsOnDisk(z)]]
           /\ saved' = zones'
  <2>1. ASSUME NEW z \in DOMAIN conf PROVE LegibleZone(z, zones'[z])
    <3> DEFINE parsed == ParseZoneText(z, files[conf[z]].lines)
    <3>1. z \in Names /\ conf[z] \in OwnFiles(z)
      BY <1>0, ApexesAreNames DEF DataInv
    <3>2. files[conf[z]].lines \in Seq(Lines) /\ parsed.ok
      BY <1>0, <1>3 DEF DataInv, Readable
    <3>3. parsed \in Reading /\ AllPlain(z, parsed.rrs)
      BY <3>1, <3>2, ReadZonesArePlain
    <3>4. zones'[z] = [file |-> conf[z], rrs |-> parsed.rrs]
      BY <1>3 DEF RecordsOnDisk
    <3> HIDE DEF parsed
    <3>5. Legible(z, parsed.rrs)
      BY <3>3 DEF AllPlain, Plain, PlainOwner, Legible, LegibleOwner
    <3> QED
      BY <3>1, <3>3, <3>4, <3>5 DEF LegibleZone, Reading
  <2>2. DOMAIN zones' = DOMAIN conf
    BY <1>3
  <2>3. LegibleZones(zones')
    BY <1>0, <2>1, <2>2 DEF LegibleZones, DataInv
  <2> QED
    BY <1>0, <1>1, <1>3, <2>3 DEF DataInv
<1> QED
  BY <1>2, <1>3 DEF Restart

LEMMA InitZone == LegibleRequests /\ Init => ZoneInv
<1> SUFFICES ASSUME LegibleRequests, Init PROVE ZoneInv
  OBVIOUS
<1>1. CallInv
  BY IdleIsLegible DEF Init, CallInv
<1>2. LegibleZones(InitZones)
  BY BindFileAssumption DEF LegibleZones, LegibleZone, LegibleRequests, Apexes, OwnFiles
<1>3. ASSUME NEW f \in DOMAIN files PROVE files[f] \in [ok : BOOLEAN, lines : Seq(Lines)]
  <2> DEFINE z == CHOOSE y \in DOMAIN InitZones : InitZones[y].file = f
  <2>1. DOMAIN files = {InitZones[y].file : y \in DOMAIN InitZones}
    BY DEF Init
  <2>2. \E y \in DOMAIN InitZones : InitZones[y].file = f
    BY <2>1
  <2>3. z \in DOMAIN InitZones
    BY <2>2
  <2>4. files[f] = [ok |-> TRUE, lines |-> WriteZoneText(z, InitZones[z].rrs)]
    BY <2>1 DEF Init
  <2> HIDE DEF z
  <2>5. z \in Names /\ InitZones[z].rrs \in Seq(FileRRs(Names))
    BY <2>3, BindFileAssumption DEF Apexes
  <2>6. WriteZoneText(z, InitZones[z].rrs) \in Seq(Lines)
    BY <2>5, TextType
  <2> QED
    BY <2>4, <2>6
<1>4. DOMAIN conf \subseteq Apexes /\ \A z \in DOMAIN conf : conf[z] \in OwnFiles(z)
  BY DEF Init, Apexes, OwnFiles
<1>5. zones = InitZones /\ saved = InitZones
  BY DEF Init
<1> QED
  BY <1>1, <1>2, <1>3, <1>4, <1>5, InitFiles DEF ZoneInv, DataInv

\* ZoneInv holds in every state.
LEMMA NextZone == LegibleRequests /\ ZoneInv /\ [Next]_vars => ZoneInv'
<1> SUFFICES ASSUME LegibleRequests, ZoneInv, [Next]_vars PROVE ZoneInv'
  OBVIOUS
<1>0. FilesInv' /\ DataInv
  BY StepFiles DEF ZoneInv
<1>1. CASE Crash
  BY <1>0, <1>1, CrashKeepsZones DEF ZoneInv
<1>2. CASE Restart
  BY <1>0, <1>2, RestartKeepsZones DEF ZoneInv
<1>3. ASSUME NEW w \in Writers, Accept(w) PROVE ZoneInv'
  <2>1. Receive(w) /\ UNCHANGED <<zones, saved, files, conf>>
    BY <1>3 DEF Accept, Receive, disk, history
  <2> QED
    BY <1>0, <2>1, ReceiveKeepsCalls, SameData DEF ZoneInv
<1>4. ASSUME NEW w \in Writers, Serve(w) PROVE ZoneInv'
  <2>1. CASE Find(w)
    <3>1. UNCHANGED <<zones, saved, files, conf>>
      BY <2>1 DEF Find, disk, history
    <3> QED
      BY <1>0, <2>1, <3>1, FindKeepsCalls, SameData DEF ZoneInv
  <2>2. CASE Begin(w)
    <3>1. UNCHANGED <<zones, saved, files, conf>>
      BY <2>2 DEF Begin, disk, history
    <3> QED
      BY <1>0, <2>2, <3>1, BeginKeepsCalls, SameData DEF ZoneInv
  <2>3. CASE ReadSoa(w)
    <3>1. UNCHANGED <<zones, saved, files, conf>>
      BY <2>3 DEF ReadSoa, disk, history
    <3> QED
      BY <1>0, <2>3, <3>1, ReadSoaKeepsCalls, SameData DEF ZoneInv
  <2>4. CASE CommitTx(w)
    BY <1>0, <2>4, CommitKeepsZones DEF ZoneInv
  <2>5. CASE Create(w)
    BY <1>0, <2>5, CreateKeepsZones DEF ZoneInv
  <2>6. CASE Delete(w)
    BY <1>0, <2>6, DeleteKeepsZones DEF ZoneInv
  <2>7. CASE SaveStep(w)
    BY <1>0, <2>7, SavesKeepZones DEF ZoneInv
  <2> QED
    BY <1>4, <2>1, <2>2, <2>3, <2>4, <2>5, <2>6, <2>7 DEF Serve
<1>5. CASE UNCHANGED vars
  <2>1. UNCHANGED <<zones, saved, files, conf, tx, pc>>
    BY <1>5 DEF vars, memory, disk, history
  <2> QED
    BY <1>0, <2>1, SameData, SameCalls DEF ZoneInv
<1> QED
  BY <1>1, <1>2, <1>3, <1>4, <1>5 DEF Next

-----------------------------------------------------------------------------
(* What the files hold, and what a crash leaves in them.                   *)

\* File f of fs reads as a zone of these records does that was written.
Holds(fs, f, z, rrs) ==
  /\ f \in DOMAIN fs /\ fs[f].ok
  /\ ParseZoneText(z, fs[f].lines).ok
  /\ ParseZoneText(z, fs[f].lines).rrs = Reread(z, rrs).rrs

\* While the process is up, a file that need not be written any more has its
\* zone; named.conf is as the last save left it until the files are written, and
\* the files it lists hold that save's zones, if they are not written again.
SavedInv ==
  /\ save.open \cap save.todo = {}
  /\ \A z \in DOMAIN zones \ (save.todo \cup save.open) :
       Holds(files, FileOf(z), z, zones[z].rrs)
  /\ ~save.conf =>
       /\ DOMAIN conf = DOMAIN saved
       /\ \A z \in DOMAIN conf : \/ z \in DOMAIN zones \ save.todo /\ conf[z] = FileOf(z)
                                 \/ Holds(files, conf[z], z, saved[z].rrs)
  /\ Unlocked => saved = zones /\ \A z \in DOMAIN conf : conf[z] = FileOf(z)

\* What a crash leaves.
CrashedInv ==
  /\ \A z \in DOMAIN conf \ damaged :
       \E db \in {saved, zones} : z \in DOMAIN db /\ Holds(files, conf[z], z, db[z].rrs)
  /\ (DOMAIN saved \cap DOMAIN zones) \ damaged \subseteq DOMAIN conf
  /\ DOMAIN conf = {} /\ damaged = {} => DOMAIN saved = {} \/ DOMAIN zones = {}

DiskInv ==
  /\ ZoneInv
  /\ daemon = "up" => SavedInv
  /\ daemon = "down" => CrashedInv
  /\ StartsAgain

\* No file is two zones'.
LEMMA FilesDiffer ==
  ASSUME NEW y \in Apexes, NEW z \in Apexes, y # z
  PROVE  OwnFiles(y) \cap OwnFiles(z) = {}
<1>1. y \in Names /\ z \in Names
  BY ApexesAreNames
<1>2. DefaultFile(y) # DefaultFile(z)
  <2> DEFINE L == Labels \cup {"zone"}
  <2>1. y \in Seq(L) /\ z \in Seq(L) /\ "zone" \in L
    BY <1>1 DEF Names
  <2> HIDE DEF L
  <2>2. SUFFICES ASSUME Append(y, "zone") = Append(z, "zone") PROVE FALSE
    BY DEF DefaultFile
  <2>3. Len(y) = Len(z)
    BY <2>1, <2>2
  <2>4. ASSUME NEW i \in 1 .. Len(y) PROVE y[i] = z[i]
    BY <2>1, <2>2, <2>3
  <2>5. y = z
    BY <2>1, <2>3, <2>4
  <2> QED
    BY <2>5
<1>3. \A x \in DOMAIN InitZones : \A v \in Apexes \ {x} :
        /\ InitZones[x].file # DefaultFile(v)
        /\ v \in DOMAIN InitZones => InitZones[x].file # InitZones[v].file
  BY BindFileAssumption
<1> QED
  BY <1>2, <1>3 DEF OwnFiles

\* A file has a name.
LEMMA FileIsNotRoot ==
  ASSUME NEW z \in Apexes, NEW f \in OwnFiles(z)
  PROVE  f # Root
<1>1. z \in Names
  BY ApexesAreNames
<1>2. DefaultFile(z) # << >>
  <2> DEFINE L == Labels \cup {"zone"}
  <2>1. z \in Seq(L) /\ "zone" \in L
    BY <1>1 DEF Names
  <2> HIDE DEF L
  <2>2. Len(Append(z, "zone")) = Len(z) + 1 /\ Len(z) \in Nat /\ Len(<< >>) = 0
    BY <2>1
  <2> DEFINE file == Append(z, "zone")
  <2>3. Len(file) # Len(<< >>)
    BY <2>2
  <2> HIDE DEF file
  <2>4. file # << >>
    BY <2>3
  <2> QED
    BY <2>4 DEF DefaultFile, file
<1>3. z \in DOMAIN InitZones => InitZones[z].file # Root
  BY BindFileAssumption
<1> QED
  BY <1>2, <1>3 DEF OwnFiles, Root

\* A file that is not written holds what it held.
LEMMA OtherFilesHold ==
  ASSUME NEW fs, NEW gs, NEW f, NEW g, f # g,
         DOMAIN fs \subseteq DOMAIN gs, \A h \in DOMAIN fs \ {g} : gs[h] = fs[h],
         NEW z, NEW rrs, Holds(fs, f, z, rrs)
  PROVE  Holds(gs, f, z, rrs)
BY DEF Holds

\* The text of a zone reads as the zone.
LEMMA TextHolds ==
  ASSUME DataInv, NEW z \in DOMAIN zones, NEW fs, NEW f \in DOMAIN fs, fs[f] = Text(z)
  PROVE  Holds(fs, f, z, zones[z].rrs)
<1>1. z \in Names /\ zones[z].rrs \in Seq(FileRRs(Names)) /\ Legible(z, zones[z].rrs)
  BY TextIsLines DEF DataInv, LegibleZones, LegibleZone
<1>2. Reread(z, zones[z].rrs).ok
  BY <1>1, LegibleIsRead
<1>3. fs[f].ok /\ fs[f].lines = WriteZoneText(z, zones[z].rrs)
  BY DEF Text
<1> QED
  BY <1>2, <1>3 DEF Holds, Reread

\* A call that changes no zone leaves the disk as it was.
LEMMA MovesKeepSaved ==
  ASSUME ZoneInv, SavedInv, UNCHANGED <<zones, save, files, conf, saved>>, Unlocked' <=> Unlocked
  PROVE  SavedInv'
BY DEF SavedInv, FileOf

\* A save begins with the disk as the last one left it.
LEMMA SavesBegin ==
  ASSUME ZoneInv, SavedInv, NEW w \in Writers, Begins(w), UNCHANGED saved
  PROVE  SavedInv'
<1>1. /\ Unlocked /\ UNCHANGED <<files, conf>>
      /\ save' = [todo |-> DOMAIN zones', open |-> {}, conf |-> FALSE]
      /\ save = NotSaving
  BY DEF Begins, disk, ZoneInv, FilesInv, SaveInv
<1>2. ~Unlocked'
  BY DEF Begins, Unlocked, Saving, ZoneInv, FilesInv, SaveInv
<1>3. /\ DOMAIN conf = DOMAIN saved
      /\ \A z \in DOMAIN conf : z \in DOMAIN zones /\ Holds(files, conf[z], z, saved[z].rrs)
  BY <1>1 DEF SavedInv, NotSaving
<1> QED
  BY <1>1, <1>2, <1>3 DEF SavedInv

\* Opening a file takes it from no other zone.
LEMMA OpenFileKeepsSaved ==
  ASSUME ZoneInv, SavedInv, NEW w \in Writers, OpenFile(w)
  PROVE  SavedInv'
<1>1. PICK o \in save.todo :
        /\ Saving(w) /\ save.open = {}
        /\ files' = [f \in DOMAIN files \cup {FileOf(o)} |->
                       IF f = FileOf(o) THEN [ok |-> TRUE, lines |-> << >>] ELSE files[f]]
        /\ save' = [todo |-> save.todo \ {o}, open |-> {o}, conf |-> save.conf]
        /\ UNCHANGED <<zones, conf, pc, tx, saved>>
  BY DEF OpenFile, history
<1>2. /\ DataInv /\ DOMAIN zones \subseteq Apexes /\ DOMAIN conf \subseteq Apexes
      /\ save.todo \subseteq DOMAIN zones /\ o \in DOMAIN zones
  BY <1>1 DEF ZoneInv, FilesInv, SaveInv, DataInv, LegibleZones
<1>3. ~Unlocked /\ ~Unlocked'
  BY <1>1 DEF Unlocked, Saving
<1>4. \A z : FileOf(z)' = FileOf(z)
  BY <1>1 DEF FileOf
<1>5. FileOf(o) \in OwnFiles(o)
  BY <1>2, OwnsItsFile
<1>6. ASSUME NEW f, f # FileOf(o), NEW z, NEW rrs, Holds(files, f, z, rrs)
      PROVE  Holds(files', f, z, rrs)
  <2>1. DOMAIN files \subseteq DOMAIN files' /\ \A h \in DOMAIN files \ {FileOf(o)} : files'[h] = files[h]
    BY <1>1
  <2> QED
    BY <1>6, <2>1, OtherFilesHold
<1>7. ASSUME NEW z \in DOMAIN zones \ (save'.todo \cup save'.open)
      PROVE  Holds(files', FileOf(z), z, zones[z].rrs)
  <2>1. z \in DOMAIN zones \ (save.todo \cup save.open) /\ z # o
    BY <1>1
  <2>2. Holds(files, FileOf(z), z, zones[z].rrs) /\ FileOf(z) \in OwnFiles(z)
    BY <1>2, <2>1, OwnsItsFile DEF SavedInv
  <2>3. FileOf(z) # FileOf(o)
    BY <1>2, <1>5, <2>1, <2>2, FilesDiffer
  <2> QED
    BY <1>6, <2>2, <2>3
<1>8. ASSUME ~save.conf, NEW z \in DOMAIN conf
      PROVE  \/ z \in DOMAIN zones \ save'.todo /\ conf[z] = FileOf(z)
             \/ Holds(files', conf[z], z, saved[z].rrs)
  <2>1. CASE z \in DOMAIN zones \ save.todo /\ conf[z] = FileOf(z)
    BY <1>1, <2>1
  <2>2. CASE Holds(files, conf[z], z, saved[z].rrs) /\ conf[z] # FileOf(o)
    BY <1>6, <2>2
  <2>3. CASE conf[z] = FileOf(o)
    <3>1. z = o
      <4>1. conf[z] \in OwnFiles(z)
        BY <1>2 DEF DataInv
      <4> QED
        BY <1>2, <1>5, <2>3, <4>1, FilesDiffer
    <3> QED
      BY <1>1, <1>2, <2>3, <3>1
  <2> QED
    BY <1>8, <2>1, <2>2, <2>3 DEF SavedInv
<1>9. save'.open \cap save'.todo = {} /\ save'.conf = save.conf
  BY <1>1
<1> QED
  BY <1>1, <1>3, <1>4, <1>7, <1>8, <1>9 DEF SavedInv

\* A file that is closed holds its zone.
LEMMA CloseFileKeepsSaved ==
  ASSUME ZoneInv, SavedInv, NEW w \in Writers, CloseFile(w)
  PROVE  SavedInv'
<1>1. PICK o \in save.open :
        /\ Saving(w)
        /\ files' = [files EXCEPT ![FileOf(o)] = Text(o)]
        /\ save' = [save EXCEPT !.open = {}]
        /\ UNCHANGED <<zones, conf, pc, tx, saved>>
  BY DEF CloseFile, history
<1>2. /\ DataInv /\ DOMAIN zones \subseteq Apexes /\ DOMAIN conf \subseteq Apexes
      /\ save.open = {o} /\ o \in DOMAIN zones \ save.todo
      /\ save' = [todo |-> save.todo, open |-> {}, conf |-> save.conf]
  BY <1>1 DEF ZoneInv, FilesInv, SaveInv, DataInv, LegibleZones, SavedInv
<1>3. ~Unlocked /\ ~Unlocked'
  BY <1>1 DEF Unlocked, Saving
<1>4. \A z : FileOf(z)' = FileOf(z)
  BY <1>1 DEF FileOf
<1>5. FileOf(o) \in OwnFiles(o) /\ FileOf(o) \in DOMAIN files
  BY <1>2, <1>3, OwnsItsFile DEF ZoneInv, FilesInv, SaveInv, Written
<1>6. ASSUME NEW f, f # FileOf(o), NEW z, NEW rrs, Holds(files, f, z, rrs)
      PROVE  Holds(files', f, z, rrs)
  <2>1. DOMAIN files \subseteq DOMAIN files' /\ \A h \in DOMAIN files \ {FileOf(o)} : files'[h] = files[h]
    BY <1>1
  <2> QED
    BY <1>6, <2>1, OtherFilesHold
<1>7. ASSUME NEW z \in DOMAIN zones \ (save'.todo \cup save'.open)
      PROVE  Holds(files', FileOf(z), z, zones[z].rrs)
  <2>1. CASE z = o
    <3>1. FileOf(o) \in DOMAIN files' /\ files'[FileOf(o)] = Text(o)
      BY <1>1, <1>5
    <3> QED
      BY <1>2, <2>1, <3>1, TextHolds
  <2>2. CASE z # o
    <3>1. z \in DOMAIN zones \ (save.todo \cup save.open)
      BY <1>2, <2>2
    <3>2. Holds(files, FileOf(z), z, zones[z].rrs) /\ FileOf(z) \in OwnFiles(z)
      BY <1>2, <3>1, OwnsItsFile DEF SavedInv
    <3>3. FileOf(z) # FileOf(o)
      BY <1>2, <1>5, <2>2, <3>2, FilesDiffer
    <3> QED
      BY <1>6, <3>2, <3>3
  <2> QED
    BY <2>1, <2>2
<1>8. ASSUME ~save.conf, NEW z \in DOMAIN conf
      PROVE  \/ z \in DOMAIN zones \ save'.todo /\ conf[z] = FileOf(z)
             \/ Holds(files', conf[z], z, saved[z].rrs)
  <2>1. CASE z \in DOMAIN zones \ save.todo /\ conf[z] = FileOf(z)
    BY <1>2, <2>1
  <2>2. CASE Holds(files, conf[z], z, saved[z].rrs) /\ conf[z] # FileOf(o)
    BY <1>6, <2>2
  <2>3. CASE conf[z] = FileOf(o)
    <3>1. z = o
      <4>1. conf[z] \in OwnFiles(z)
        BY <1>2 DEF DataInv
      <4> QED
        BY <1>2, <1>5, <2>3, <4>1, FilesDiffer
    <3> QED
      BY <1>2, <2>3, <3>1
  <2> QED
    BY <1>8, <2>1, <2>2, <2>3 DEF SavedInv
<1>9. save'.open \cap save'.todo = {} /\ save'.conf = save.conf
  BY <1>2
<1> QED
  BY <1>1, <1>3, <1>4, <1>7, <1>8, <1>9 DEF SavedInv

\* named.conf is written when every file is, and the save ends with it.
LEMMA ConfKeepsSaved ==
  ASSUME ZoneInv, SavedInv, NEW w \in Writers, OpenConf(w) \/ CloseConf(w)
  PROVE  SavedInv'
<1>0. save \in [todo : SUBSET DOMAIN zones, open : SUBSET DOMAIN zones, conf : BOOLEAN]
  BY DEF ZoneInv, FilesInv, SaveInv
<1>1. CASE OpenConf(w)
  <2>1. /\ Saving(w) /\ save' = [save EXCEPT !.conf = TRUE]
        /\ UNCHANGED <<zones, files, pc, saved>>
    BY <1>1 DEF OpenConf, history
  <2>2. save'.todo = save.todo /\ save'.open = save.open /\ save'.conf
    BY <1>0, <2>1
  <2>3. ~Unlocked'
    BY <2>1 DEF Unlocked, Saving
  <2>4. \A z : FileOf(z)' = FileOf(z)
    BY <2>1 DEF FileOf
  <2> QED
    BY <2>1, <2>2, <2>3, <2>4 DEF SavedInv
<1>2. CASE CloseConf(w)
  <2>1. /\ save.conf /\ save' = NotSaving
        /\ conf' = [y \in DOMAIN zones |-> FileOf(y)]
        /\ saved' = zones /\ UNCHANGED <<zones, files>>
    BY <1>2 DEF CloseConf
  <2>2. save.todo = {} /\ save.open = {}
    BY <2>1 DEF ZoneInv, FilesInv, SaveInv
  <2>3. \A z : FileOf(z)' = FileOf(z)
    BY <2>1 DEF FileOf
  <2>4. save'.todo = {} /\ save'.open = {}
    BY <2>1 DEF NotSaving
  <2> QED
    BY <2>1, <2>2, <2>3, <2>4 DEF SavedInv
<1> QED
  BY <1>1, <1>2

\* A crash finds the files as SavedInv has them, but for the open one.
LEMMA CrashLeaves ==
  ASSUME ZoneInv, SavedInv, Crash
  PROVE  CrashedInv'
<1>0. /\ DataInv /\ DOMAIN zones \subseteq Apexes /\ DOMAIN conf \subseteq Apexes
      /\ UNCHANGED <<zones, saved>>
      /\ save.open \subseteq DOMAIN zones /\ save.open \subseteq damaged'
      /\ save.conf => save.todo = {} /\ save.open = {}
  BY DEF ZoneInv, FilesInv, SaveInv, DataInv, LegibleZones, Crash, memory
<1>1. ASSUME NEW f, NEW z \in Apexes, f \in OwnFiles(z), z \notin save.open,
             NEW rrs, Holds(files, f, z, rrs)
      PROVE  Holds(files', f, z, rrs)
  <2>1. CASE save.open = {}
    BY <1>1, <2>1 DEF Crash
  <2>2. CASE save.open # {}
    <3>1. PICK o \in save.open : \E text : files' = [files EXCEPT ![FileOf(o)] = text]
      BY <2>2 DEF Crash
    <3>2. FileOf(o) \in OwnFiles(o) /\ o \in Apexes /\ o # z
      BY <1>0, <1>1, OwnsItsFile
    <3>3. f # FileOf(o)
      BY <1>1, <3>2, FilesDiffer
    <3>4. DOMAIN files \subseteq DOMAIN files' /\ \A h \in DOMAIN files \ {FileOf(o)} : files'[h] = files[h]
      BY <3>1
    <3> QED
      BY <1>1, <3>3, <3>4, OtherFilesHold
  <2> QED
    BY <2>1, <2>2
<1>2. CASE ~save.conf
  <2>1. conf' = conf /\ DOMAIN conf = DOMAIN saved
    BY <1>2 DEF Crash, SavedInv
  <2>2. ASSUME NEW z \in DOMAIN conf \ damaged'
        PROVE  \E db \in {saved, zones} : z \in DOMAIN db /\ Holds(files', conf[z], z, db[z].rrs)
    <3>1. z \in Apexes /\ conf[z] \in OwnFiles(z) /\ z \notin save.open
      BY <1>0 DEF DataInv
    <3>2. CASE z \in DOMAIN zones \ save.todo /\ conf[z] = FileOf(z)
      <4>1. Holds(files, conf[z], z, zones[z].rrs)
        BY <3>1, <3>2 DEF SavedInv
      <4> QED
        BY <1>1, <3>1, <3>2, <4>1
    <3>3. CASE Holds(files, conf[z], z, saved[z].rrs)
      BY <1>1, <2>1, <3>1, <3>3
    <3> QED
      BY <1>2, <3>2, <3>3 DEF SavedInv
  <2> QED
    BY <1>0, <2>1, <2>2 DEF CrashedInv
<1>3. CASE save.conf
  <2>1. PICK part \in SUBSET DOMAIN zones : conf' = [z \in part |-> FileOf(z)]
    BY <1>3 DEF Crash
  <2>2. DOMAIN conf' = part /\ DOMAIN zones \ part \subseteq damaged'
    BY <1>3, <2>1 DEF Crash
  <2>3. ASSUME NEW z \in part PROVE z \in DOMAIN zones /\ Holds(files', conf'[z], z, zones[z].rrs)
    <3>1. Holds(files, FileOf(z), z, zones[z].rrs) /\ z \in Apexes /\ FileOf(z) \in OwnFiles(z)
      BY <1>0, <1>3, OwnsItsFile DEF SavedInv
    <3> QED
      BY <1>0, <1>1, <1>3, <2>1, <3>1
  <2> QED
    BY <1>0, <2>2, <2>3 DEF CrashedInv
<1> QED
  BY <1>2, <1>3

\* A restart finds on the disk what it serves from then on.
LEMMA RestartReads ==
  ASSUME ZoneInv, Restart, CrashedInv
  PROVE  (daemon' = "up" => SavedInv') /\ StartsAgain'
<1>0. DataInv /\ UNCHANGED <<files, conf, damaged>> /\ save' = NotSaving
  BY DEF ZoneInv, Restart, disk
<1>1. CASE /\ DOMAIN conf # {} /\ \A z \in DOMAIN conf : Readable(z)
  <2>1. /\ daemon' = "up" /\ saved' = zones'
        /\ zones' = [z \in DOMAIN conf |-> [file |-> conf[z], rrs |-> RecordsOnDisk(z)]]
    BY <1>1 DEF Restart
  <2>2. ASSUME NEW z \in DOMAIN conf
        PROVE  FileOf(z)' = conf[z] /\ Holds(files', conf[z], z, zones'[z].rrs)
    <3> DEFINE parsed == ParseZoneText(z, files[conf[z]].lines)
    <3>1. z \in Apexes /\ z \in Names /\ conf[z] \in OwnFiles(z)
      BY <1>0, ApexesAreNames DEF DataInv
    <3>2. /\ conf[z] \in DOMAIN files /\ files[conf[z]].ok /\ parsed.ok
          /\ files[conf[z]].lines \in Seq(Lines)
      BY <1>0, <1>1 DEF DataInv, Readable
    <3>3. parsed \in Reading /\ AllPlain(z, parsed.rrs)
      BY <3>1, <3>2, ReadZonesArePlain
    <3>4. Reread(z, parsed.rrs).rrs = parsed.rrs
      <4>1. parsed.rrs \in Seq(FileRRs(Names))
        BY <3>3 DEF Reading
      <4> HIDE DEF parsed
      <4> QED
        BY <3>1, <3>3, <4>1, PlainIsRead
    <3>5. zones'[z].file = conf[z] /\ zones'[z].rrs = parsed.rrs
      BY <2>1 DEF RecordsOnDisk
    <3>6. FileOf(z)' = conf[z]
      BY <3>1, <3>5, FileIsNotRoot DEF FileOf
    <3> QED
      BY <1>0, <3>2, <3>4, <3>5, <3>6 DEF Holds
  <2>3. save'.todo = {} /\ save'.open = {}
    BY <1>0 DEF NotSaving
  <2> QED
    BY <1>0, <2>1, <2>2, <2>3 DEF SavedInv, StartsAgain
<1>2. CASE ~(DOMAIN conf # {} /\ \A z \in DOMAIN conf : Readable(z))
  <2>1. daemon' = "refused" /\ UNCHANGED <<zones, saved>>
    BY <1>2 DEF Restart
  <2>2. CASE DOMAIN conf = {}
    BY <1>0, <2>1, <2>2 DEF CrashedInv, StartsAgain
  <2>3. CASE \E z \in DOMAIN conf : ~Readable(z)
    BY <1>0, <2>1, <2>3 DEF CrashedInv, StartsAgain, Holds, Readable
  <2> QED
    BY <1>2, <2>1, <2>2, <2>3
<1> QED
  BY <1>1, <1>2

-----------------------------------------------------------------------------
(* The disk is the memory.                                                 *)

LEMMA InitDisk == LegibleRequests /\ Init => DiskInv
<1> SUFFICES ASSUME LegibleRequests, Init PROVE DiskInv
  OBVIOUS
<1>1. ZoneInv
  BY InitZone
<1>2. /\ zones = InitZones /\ saved = InitZones /\ save = NotSaving /\ daemon = "up"
      /\ conf = [z \in DOMAIN InitZones |-> InitZones[z].file]
  BY DEF Init
<1>3. ASSUME NEW z \in DOMAIN InitZones
      PROVE  FileOf(z) = InitZones[z].file /\ Holds(files, FileOf(z), z, zones[z].rrs)
  <2> DEFINE f == InitZones[z].file
             y == CHOOSE x \in DOMAIN InitZones : InitZones[x].file = f
  <2>1. /\ f # Root
        /\ \A x \in DOMAIN InitZones \ {z} : f # InitZones[x].file
    BY BindFileAssumption DEF Apexes
  <2>2. y = z
    BY <2>1
  <2>3. f \in DOMAIN files /\ files[f] = [ok |-> TRUE, lines |-> WriteZoneText(y, InitZones[y].rrs)]
    BY DEF Init
  <2>4. FileOf(z) = f
    BY <1>2, <2>1 DEF FileOf
  <2> HIDE DEF f, y
  <2>5. f \in DOMAIN files /\ files[f] = Text(z)
    BY <1>2, <2>2, <2>3 DEF Text
  <2>6. Holds(files, f, z, zones[z].rrs)
    BY <1>1, <1>2, <2>5, TextHolds DEF ZoneInv
  <2> QED
    BY <2>4, <2>6 DEF f
<1>4. SavedInv
  BY <1>2, <1>3 DEF SavedInv, NotSaving
<1> QED
  BY <1>1, <1>2, <1>4 DEF DiskInv, StartsAgain

\* Only a save, its end, a crash and a restart change what is remembered of saves.
LEMMA CallsLeaveHistory ==
  ASSUME NEW w \in Writers,
         \/ Receive(w) \/ Find(w) \/ Begin(w) \/ ReadSoa(w) \/ CommitTx(w) \/ Create(w) \/ Delete(w)
  PROVE  UNCHANGED <<saved, acked, damaged>>
BY DEF Receive, Find, Begin, ReadSoa, CommitTx, Create, Delete, history

LEMMA CallsKeepSaved ==
  ASSUME ZoneInv, SavedInv, NEW w \in Writers, Moves(w) \/ Begins(w), UNCHANGED saved
  PROVE  SavedInv'
<1>1. CASE Moves(w)
  <2>1. \A v \in Writers : Saving(v)' <=> Saving(v)
    BY <1>1 DEF Moves, Saving, Quiet, Stages, ZoneInv, FilesInv, SaveInv
  <2>2. Unlocked' <=> Unlocked
    BY <2>1 DEF Unlocked
  <2> QED
    BY <1>1, <2>2, MovesKeepSaved DEF Moves, disk
<1> QED
  BY <1>1, SavesBegin

LEMMA SavesKeepSaved ==
  ASSUME ZoneInv, SavedInv, NEW w \in Writers, SaveStep(w)
  PROVE  SavedInv'
BY OpenFileKeepsSaved, CloseFileKeepsSaved, ConfKeepsSaved DEF SaveStep

\* DiskInv holds in every state.
LEMMA NextDisk == LegibleRequests /\ DiskInv /\ [Next]_vars => DiskInv'
<1> SUFFICES ASSUME LegibleRequests, DiskInv, [Next]_vars PROVE DiskInv'
  OBVIOUS
<1>0. ZoneInv /\ ZoneInv'
  BY NextZone DEF DiskInv
<1>1. CASE Crash
  <2>1. daemon = "up" /\ daemon' = "down"
    BY <1>1 DEF Crash
  <2> QED
    BY <1>0, <1>1, <2>1, CrashLeaves DEF DiskInv, StartsAgain
<1>2. CASE Restart
  <2>1. daemon = "down" /\ daemon' \in {"up", "refused"}
    BY <1>2 DEF Restart
  <2> QED
    BY <1>0, <1>2, <2>1, RestartReads DEF DiskInv
<1>3. ASSUME NEW w \in Writers, Accept(w) PROVE DiskInv'
  <2>1. daemon = "up" /\ daemon' = "up" /\ Receive(w)
    BY <1>3 DEF Accept
  <2> QED
    BY <1>0, <1>3, <2>1, CallsMoveOrBegin, CallsLeaveHistory, CallsKeepSaved DEF DiskInv, StartsAgain
<1>4. ASSUME NEW w \in Writers, Serve(w) PROVE DiskInv'
  <2>1. daemon = "up" /\ daemon' = "up"
    BY <1>4 DEF Serve
  <2>2. CASE SaveStep(w)
    BY <1>0, <2>1, <2>2, SavesKeepSaved DEF DiskInv, StartsAgain
  <2>3. CASE Find(w) \/ Begin(w) \/ ReadSoa(w) \/ CommitTx(w) \/ Create(w) \/ Delete(w)
    <3>1. Moves(w) \/ Begins(w)
      BY <2>1, <2>3, CallsMoveOrBegin
    <3>2. UNCHANGED saved
      BY <2>3, CallsLeaveHistory
    <3> QED
      BY <1>0, <2>1, <3>1, <3>2, CallsKeepSaved DEF DiskInv, StartsAgain
  <2> QED
    BY <1>4, <2>2, <2>3 DEF Serve
<1>5. CASE UNCHANGED vars
  <2>1. UNCHANGED <<daemon, zones, save, files, conf, saved, damaged, pc>>
    BY <1>5 DEF vars, memory, disk, history
  <2> QED
    BY <1>0, <2>1 DEF DiskInv, SavedInv, CrashedInv, StartsAgain, FileOf, Unlocked, Saving
<1> QED
  BY <1>1, <1>2, <1>3, <1>4, <1>5 DEF Next

\* While nobody saves, the disk is the memory: named.conf lists the zones that
\* are served, each in a file that reads as its records do (persistLocked 238-254,
\* initialize 26-48).
THEOREM DiskStaysMemory ==
  ASSUME LegibleRequests
  PROVE  Spec => []DiskIsMemory
<1>1. DiskInv => DiskIsMemory
  <2> SUFFICES ASSUME DiskInv, daemon = "up", Unlocked PROVE DiskIsMemory
    BY DEF DiskIsMemory
  <2>1. /\ save = NotSaving /\ SavedInv
        /\ saved = zones /\ \A z \in DOMAIN conf : conf[z] = FileOf(z)
    BY DEF DiskInv, ZoneInv, FilesInv, SaveInv, SavedInv
  <2>2. DOMAIN conf = DOMAIN zones /\ \A z \in DOMAIN zones : Holds(files, conf[z], z, zones[z].rrs)
    BY <2>1 DEF SavedInv, NotSaving
  <2> QED
    BY <2>2 DEF DiskIsMemory, Holds, Readable, RecordsOnDisk
<1> QED
  BY <1>1, InitDisk, NextDisk, PTL DEF Spec

\* What a crash leaves of a zone that it did not write at that moment is the zone
\* before the change or after it, and such a zone stays listed (persistLocked
\* 238-254, which writes the files one after the other, in place).
THEOREM CrashesLeaveOldOrNew ==
  ASSUME LegibleRequests
  PROVE  Spec => []CrashLeavesOldOrNew
<1>1. DiskInv => CrashLeavesOldOrNew
  BY DEF DiskInv, CrashedInv, CrashLeavesOldOrNew, Holds, RecordsOnDisk
<1> QED
  BY <1>1, InitDisk, NextDisk, PTL DEF Spec

\* A daemon that does not start again finds a file a crash has cut, or no zone
\* (initialize 26-48, which refuses a file that does not parse and an empty list).
THEOREM OnlyDamageRefuses ==
  ASSUME LegibleRequests
  PROVE  Spec => []StartsAgain
<1>1. DiskInv => StartsAgain
  BY DEF DiskInv
<1> QED
  BY <1>1, InitDisk, NextDisk, PTL DEF Spec

-----------------------------------------------------------------------------
(* What was asked for is in the copy, and then in the zone.                *)

\* The addition i is not deleted again by its own transaction.
Lasts(ops, i) ==
  /\ ops[i].op = "add" /\ ops[i].rr.type # "SOA"
  /\ \A k \in i + 1 .. Len(ops) : ~Deletes(ops[k], ops[i].rr)

\* What the edited copy of a zone has: what was copied and not deleted, and what
\* was added.
Kept(t) ==
  /\ \A rr \in ToSet(t.copied) :
       \/ rr.type = "SOA" \/ rr \in ToSet(t.rrs)
       \/ \E i \in DOMAIN t.ops : Deletes(t.ops[i], rr)
  /\ \A i \in DOMAIN t.ops : Lasts(t.ops, i) => t.ops[i].rr \in ToSet(t.rrs)

\* A call of a transaction on the zones db.
PlainCall(label, t, db) ==
  /\ label # "idle" => PlainOps(t.ops, t.zone)
  /\ t.kind = "DELETE" => t.ops = << >>
  /\ label \in {"create", "saveNew"} => t.kind = "POST"
  /\ label = "delete" => t.kind = "DELETE"
  /\ label \in {"begin", "soa", "commit"} => t.kind # "DELETE"
  /\ label \in {"soa", "commit"} => Kept(t)
  /\ label = "save" /\ t.kind # "DELETE" =>
       Kept(t) /\ t.zone \in DOMAIN db /\ db[t.zone].rrs = t.rrs

PlainInv == \A w \in Writers : PlainCall(pc[w], tx[w], zones)

Promised(a) ==
  /\ a[1] \in Apexes /\ a[2] \in FileRRs(Names)
  /\ a[2].type # "SOA" /\ Plain(a[1], a[2])

Has(db, a) == a[1] \in DOMAIN db /\ a[2] \in ToSet(db[a[1]].rrs)

\* The one who saves is about to take it from the confirmed ones.
InHand(a) == \E w \in Writers : Saving(w) /\ a \in Dropped(w) \cup Overtaken(w)

AckInv ==
  daemon # "refused" =>
    \A a \in acked :
      /\ Promised(a)
      /\ \/ a[1] \in damaged
         \/ daemon = "up" /\ InHand(a)
         \/ Has(zones, a) /\ Has(saved, a)

\* It is enough that the new call of the one writer is plain.
LEMMA OnePlainCall ==
  ASSUME ZoneInv, PlainInv, NEW w \in Writers,
         NEW label, pc' = [pc EXCEPT ![w] = label], NEW t, tx' = [tx EXCEPT ![w] = t],
         PlainCall(label, t, zones'), UNCHANGED zones \/ Unlocked
  PROVE  PlainInv'
<1>0. pc \in [Writers -> Stages] /\ tx \in [Writers -> Transactions]
  BY DEF ZoneInv, FilesInv, SaveInv, CallInv
<1>1. ASSUME NEW v \in Writers PROVE PlainCall(pc'[v], tx'[v], zones')
  <2>1. CASE v = w
    BY <1>0, <2>1
  <2>2. CASE v # w
    <3>1. pc'[v] = pc[v] /\ tx'[v] = tx[v] /\ PlainCall(pc[v], tx[v], zones)
      BY <1>0, <2>2 DEF PlainInv
    <3>2. zones' = zones \/ pc[v] # "save"
      BY DEF Unlocked, Saving
    <3> QED
      BY <3>1, <3>2 DEF PlainCall
  <2> QED
    BY <2>1, <2>2
<1> QED
  BY <1>1 DEF PlainInv

LEMMA ReplyIsPlain ==
  ASSUME ZoneInv, PlainInv, NEW w \in Writers, Reply(w), UNCHANGED zones
  PROVE  PlainInv'
<1>1. PlainCall("idle", NoTx, zones')
  BY DEF PlainCall, NoTx
<1> QED
  BY <1>1, OnePlainCall DEF Reply, Goto

\* What comes in is plain.
LEMMA ReceiveIsPlain ==
  ASSUME PlainRequests, ZoneInv, PlainInv, NEW w \in Writers, Receive(w)
  PROVE  PlainInv'
<1>1. PICK req \in Requests :
        /\ tx' = [tx EXCEPT ![w] = [NoTx EXCEPT !.kind = req.kind, !.zone = req.zone,
                                                !.ops = req.ops, !.soa = req.soa]]
        /\ Goto(w, IF req.kind = "POST" THEN "create" ELSE "find") /\ UNCHANGED zones
  BY DEF Receive
<1> DEFINE t == [NoTx EXCEPT !.kind = req.kind, !.zone = req.zone,
                             !.ops = req.ops, !.soa = req.soa]
           label == IF req.kind = "POST" THEN "create" ELSE "find"
<1>2. t.kind = req.kind /\ t.zone = req.zone /\ t.ops = req.ops
  BY DEF NoTx
<1>3. PlainOps(req.ops, req.zone) /\ (req.kind = "DELETE" => req.ops = << >>)
  BY BindFileAssumption DEF PlainRequests
<1>4. label \in {"create", "find"} /\ (label = "create" => req.kind = "POST")
  OBVIOUS
<1>5. tx' = [tx EXCEPT ![w] = t] /\ pc' = [pc EXCEPT ![w] = label]
  BY <1>1 DEF Goto
<1> HIDE DEF t, label
<1>6. PlainCall(label, t, zones')
  BY <1>2, <1>3, <1>4 DEF PlainCall
<1> QED
  BY <1>1, <1>5, <1>6, OnePlainCall

\* What is plain in a zone is plain in the zone that encloses it, if it is served.
LEMMA FindIsPlain ==
  ASSUME ZoneInv, PlainInv, NEW w \in Writers, Find(w)
  PROVE  PlainInv'
<1> DEFINE zone == FindZone(zones, tx[w].zone)
           t == [tx[w] EXCEPT !.zone = zone]
           label == IF tx[w].kind = "DELETE" THEN "delete" ELSE "begin"
<1>0. CallInv /\ pc[w] = "find" /\ UNCHANGED zones /\ PlainCall(pc[w], tx[w], zones)
  BY DEF ZoneInv, Find, PlainInv
<1>1. CASE Reply(w)
  BY <1>0, <1>1, ReplyIsPlain
<1>2. CASE Enclosing(zones, tx[w].zone) # {} /\ tx' = [tx EXCEPT ![w].zone = zone] /\ Goto(w, label)
  <2>1. DOMAIN zones \subseteq Apexes /\ DOMAIN zones \subseteq Names /\ tx[w].zone \in Names
    BY <1>0, ApexesAreNames DEF ZoneInv, DataInv, LegibleZones, CallInv, Transactions
  <2>2. zone \in DOMAIN zones /\ IsSubdomainOf(tx[w].zone, zone)
    BY <1>2, <2>1, FoundEncloses
  <2> HIDE DEF zone
  <2>3. t.zone = zone /\ t.ops = tx[w].ops /\ t.kind = tx[w].kind
    BY <1>0 DEF CallInv, Transactions
  <2>4. PlainOps(tx[w].ops, zone)
    <3>1. PlainOps(tx[w].ops, tx[w].zone)
      BY <1>0 DEF PlainCall
    <3>2. ASSUME NEW z \in Apexes, IsSubdomainOf(zone, z) PROVE IsSubdomainOf(tx[w].zone, z)
      <4>1. zone \in Names /\ z \in Names
        BY <2>1, <2>2, ApexesAreNames
      <4> QED
        BY <2>1, <2>2, <3>2, <4>1, SubdomainTransitive
    <3> QED
      BY <3>1, <3>2 DEF PlainOps
  <2>5. /\ label \in {"delete", "begin"}
        /\ label = "delete" <=> tx[w].kind = "DELETE"
    OBVIOUS
  <2>6. tx' = [tx EXCEPT ![w] = t] /\ pc' = [pc EXCEPT ![w] = label]
    BY <1>2 DEF Goto
  <2> HIDE DEF t, label
  <2>7. PlainCall(label, t, zones')
    BY <1>0, <2>3, <2>4, <2>5 DEF PlainCall
  <2> QED
    BY <1>0, <2>6, <2>7, OnePlainCall
<1> QED
  BY <1>1, <1>2 DEF Find

\* The edited copy has what was copied and what was added, but for what was deleted.
LEMMA EditedKeeps ==
  ASSUME NEW rrs \in Seq(FileRRs(Names)), NEW ops \in Seq(Operations),
         NEW new, new = Edited(rrs, ops)
  PROVE  /\ \A r \in ToSet(rrs) : r \in ToSet(new) \/ \E i \in DOMAIN ops : Deletes(ops[i], r)
         /\ \A i \in DOMAIN ops : Lasts(ops, i) => ops[i].rr \in ToSet(new)
<1>1. \A r \in ToSet(rrs) : r \in ToSet(new) \/ \E i \in DOMAIN ops : Deletes(ops[i], r)
  BY EditedElements
<1>2. ASSUME NEW i \in DOMAIN ops, Lasts(ops, i) PROVE ops[i].rr \in ToSet(new)
  <2>1. ops[i].op = "add" /\ (\A k \in i + 1 .. Len(ops) : ~Deletes(ops[k], ops[i].rr))
    BY <1>2 DEF Lasts
  <2> QED
    BY <2>1, EditedElements
<1> QED
  BY <1>1, <1>2

\* The transaction begins with the whole zone.
LEMMA BeginIsPlain ==
  ASSUME ZoneInv, PlainInv, NEW w \in Writers, Begin(w)
  PROVE  PlainInv'
<1>0. CallInv /\ pc[w] = "begin" /\ UNCHANGED zones /\ PlainCall(pc[w], tx[w], zones)
  BY DEF ZoneInv, Begin, PlainInv
<1>1. CASE Reply(w)
  BY <1>0, <1>1, ReplyIsPlain
<1>2. CASE tx[w].zone \in DOMAIN zones /\ ~Reply(w)
  <2> DEFINE rrs == zones[tx[w].zone].rrs
             new == Edited(rrs, tx[w].ops)
             t == [tx[w] EXCEPT !.copied = rrs, !.rrs = new]
             label == IF tx[w].kind = "POST" THEN "commit" ELSE "soa"
  <2>1. tx[w] \in Transactions /\ tx[w].ops \in Seq(Operations)
    BY <1>0 DEF CallInv, Transactions
  <2>2. rrs \in Seq(FileRRs(Names))
    BY <1>2 DEF ZoneInv, DataInv, LegibleZones, LegibleZone
  <2>3. tx' = [tx EXCEPT ![w] = t] /\ pc' = [pc EXCEPT ![w] = label]
    BY <1>2 DEF Begin, Goto
  <2>4. label \in {"commit", "soa"}
    OBVIOUS
  <2> HIDE DEF rrs
  <2>5. /\ \A r \in ToSet(rrs) : r \in ToSet(new) \/ \E i \in DOMAIN tx[w].ops : Deletes(tx[w].ops[i], r)
        /\ \A i \in DOMAIN tx[w].ops : Lasts(tx[w].ops, i) => tx[w].ops[i].rr \in ToSet(new)
    <3> HIDE DEF new
    <3>1. new = Edited(rrs, tx[w].ops)
      BY DEF new
    <3> QED
      BY <2>1, <2>2, <3>1, EditedKeeps
  <2> HIDE DEF new
  <2>6. /\ t.kind = tx[w].kind /\ t.zone = tx[w].zone /\ t.ops = tx[w].ops
        /\ t.copied = rrs /\ t.rrs = new
    BY <2>1 DEF Transactions
  <2> HIDE DEF t, label
  <2>7. Kept(t)
    BY <2>5, <2>6 DEF Kept
  <2>8. PlainCall(label, t, zones')
    BY <1>0, <2>4, <2>6, <2>7 DEF PlainCall
  <2> QED
    BY <1>0, <2>3, <2>8, OnePlainCall
<1> QED
  BY <1>1, <1>2 DEF Begin

\* A new serial takes nothing but the old SOA.
LEMMA ReadSoaIsPlain ==
  ASSUME ZoneInv, PlainInv, NEW w \in Writers, ReadSoa(w)
  PROVE  PlainInv'
<1>0. /\ CallInv /\ pc[w] = "soa" /\ UNCHANGED zones /\ PlainCall(pc[w], tx[w], zones)
      /\ pc' = [pc EXCEPT ![w] = "commit"]
  BY DEF ZoneInv, ReadSoa, PlainInv, Goto
<1>1. PICK new \in Seq(FileRRs(Names)) :
        /\ tx' = [tx EXCEPT ![w] = [tx[w] EXCEPT !.rrs = new]]
        /\ \A r \in ToSet(tx[w].rrs) : r.type = "SOA" \/ r \in ToSet(new)
  BY ReadSoaEffect
<1> DEFINE t == [tx[w] EXCEPT !.rrs = new]
<1>2. /\ t.kind = tx[w].kind /\ t.zone = tx[w].zone /\ t.ops = tx[w].ops
      /\ t.copied = tx[w].copied /\ t.rrs = new
  BY <1>0 DEF CallInv, Transactions
<1>3. tx' = [tx EXCEPT ![w] = t]
  BY <1>1
<1> HIDE DEF t
<1>4. Kept(t)
  BY <1>0, <1>1, <1>2 DEF PlainCall, Kept, Lasts
<1>5. PlainCall("commit", t, zones')
  BY <1>0, <1>2, <1>4 DEF PlainCall
<1> QED
  BY <1>0, <1>3, <1>5, OnePlainCall

\* The calls that change the zones begin a save with the same transaction.
LEMMA ChangesArePlain ==
  ASSUME ZoneInv, PlainInv, NEW w \in Writers, CommitTx(w) \/ Create(w) \/ Delete(w)
  PROVE  PlainInv'
<1>0. /\ tx' = [tx EXCEPT ![w] = tx[w]] \/ Reply(w)
      /\ tx \in [Writers -> Transactions]
      /\ PlainCall(pc[w], tx[w], zones) /\ Unlocked
  BY DEF ZoneInv, CallInv, PlainInv, CommitTx, Create, Delete, Change
<1>1. CASE Reply(w) /\ UNCHANGED zones
  BY <1>1, ReplyIsPlain
<1>2. ASSUME NEW label \in {"save", "saveNew"}, pc' = [pc EXCEPT ![w] = label], UNCHANGED tx,
             PlainCall(label, tx[w], zones')
      PROVE  PlainInv'
  <2>1. tx' = [tx EXCEPT ![w] = tx[w]]
    BY <1>0, <1>2
  <2> QED
    BY <1>0, <1>2, <2>1, OnePlainCall
<1>3. CASE CommitTx(w) /\ tx[w].zone \in DOMAIN zones
  <2>1. /\ pc[w] = "commit" /\ tx[w].zone \in DOMAIN zones
        /\ zones' = [zones EXCEPT ![tx[w].zone].rrs = tx[w].rrs]
        /\ pc' = [pc EXCEPT ![w] = "save"] /\ UNCHANGED tx
    BY <1>3 DEF CommitTx, Change, Goto
  <2>2. tx[w].zone \in DOMAIN zones' /\ zones'[tx[w].zone].rrs = tx[w].rrs
    <3>1. zones[tx[w].zone] \in [file : {Root} \cup OwnFiles(tx[w].zone), rrs : Seq(FileRRs(Names))]
      BY <2>1 DEF ZoneInv, DataInv, LegibleZones, LegibleZone
    <3> QED
      BY <2>1, <3>1
  <2>3. PlainCall("save", tx[w], zones')
    BY <1>0, <2>1, <2>2 DEF PlainCall
  <2> QED
    BY <1>2, <2>1, <2>3
<1>4. CASE Create(w)
  <2>1. pc[w] = "create" /\ pc' = [pc EXCEPT ![w] = "saveNew"] /\ UNCHANGED tx
    BY <1>4 DEF Create, Change, Goto
  <2>2. PlainCall("saveNew", tx[w], zones')
    BY <1>0, <2>1 DEF PlainCall
  <2> QED
    BY <1>2, <2>1, <2>2
<1>5. CASE Delete(w)
  <2>1. pc[w] = "delete" /\ pc' = [pc EXCEPT ![w] = "save"] /\ UNCHANGED tx
    BY <1>5 DEF Delete, Change, Goto
  <2>2. PlainCall("save", tx[w], zones')
    BY <1>0, <2>1 DEF PlainCall
  <2> QED
    BY <1>2, <2>1, <2>2
<1>6. CASE CommitTx(w) /\ tx[w].zone \notin DOMAIN zones
  BY <1>1, <1>6 DEF CommitTx
<1> QED
  BY <1>3, <1>4, <1>5, <1>6

\* A save leaves the transactions alone; when a POST goes on it finds its zone.
LEMMA SavesArePlain ==
  ASSUME ZoneInv, PlainInv, NEW w \in Writers, SaveStep(w)
  PROVE  PlainInv'
<1>1. CASE OpenFile(w) \/ CloseFile(w) \/ OpenConf(w)
  BY <1>1 DEF OpenFile, CloseFile, OpenConf, PlainInv
<1>2. CASE CloseConf(w)
  <2>1. UNCHANGED zones /\ Saving(w) /\ PlainCall(pc[w], tx[w], zones)
    BY <1>2 DEF CloseConf, PlainInv
  <2>2. CASE Reply(w)
    BY <2>1, <2>2, ReplyIsPlain
  <2>3. CASE pc[w] = "saveNew" /\ pc' = [pc EXCEPT ![w] = "find"] /\ UNCHANGED tx
    <3>1. tx' = [tx EXCEPT ![w] = tx[w]]
      BY <2>3 DEF ZoneInv, CallInv
    <3>2. PlainCall("find", tx[w], zones')
      BY <2>1, <2>3 DEF PlainCall
    <3> QED
      BY <2>1, <2>3, <3>1, <3>2, OnePlainCall
  <2> QED
    BY <1>2, <2>2, <2>3 DEF CloseConf, Goto
<1> QED
  BY <1>1, <1>2 DEF SaveStep

-----------------------------------------------------------------------------
(* What was confirmed stays.                                               *)

KeptInv == DiskInv /\ PlainInv /\ AckInv

\* Whoever holds the mutex while another moves has the same in hand.
LEMMA MovesKeepAcks ==
  ASSUME ZoneInv, AckInv, NEW w \in Writers, Moves(w), \A v \in Writers \ {w} : tx'[v] = tx[v],
         UNCHANGED <<saved, acked, damaged>>
  PROVE  AckInv'
<1>1. UNCHANGED <<daemon, zones>>
  BY DEF Moves
<1>2. ASSUME NEW a, NEW v \in Writers, Saving(v), a \in Dropped(v) \cup Overtaken(v)
      PROVE  InHand(a)'
  <2>1. v # w /\ pc'[v] = pc[v] /\ tx'[v] = tx[v]
    BY <1>2 DEF Moves, ZoneInv, FilesInv, SaveInv
  <2>2. Saving(v)' /\ a \in (Dropped(v) \cup Overtaken(v))'
    BY <1>2, <2>1 DEF Saving, Dropped, Overtaken
  <2> QED
    BY <2>2 DEF InHand
<1> QED
  BY <1>1, <1>2 DEF AckInv, Has, InHand

\* A change of the zones has in hand what it takes.
LEMMA ChangesKeepAcks ==
  ASSUME ZoneInv, PlainInv, AckInv, NEW w \in Writers, CommitTx(w) \/ Create(w) \/ Delete(w), Begins(w),
         daemon = "up"
  PROVE  AckInv'
<1>0. /\ Unlocked /\ UNCHANGED <<daemon, saved, acked, damaged>>
      /\ pc \in [Writers -> Stages] /\ PlainCall(pc[w], tx[w], zones) /\ ~\E a : InHand(a)
  BY CallsLeaveHistory DEF Begins, ZoneInv, FilesInv, SaveInv, PlainInv, Unlocked, InHand
<1>1. ASSUME NEW a \in acked, Promised(a), Has(zones, a), ~Has(zones', a)
      PROVE  InHand(a)'
  <2> SUFFICES Saving(w)' /\ a \in (Dropped(w) \cup Overtaken(w))'
    BY DEF InHand
  <2>1. CASE CommitTx(w)
    <3>1. /\ tx[w].zone \in DOMAIN zones /\ pc[w] = "commit"
          /\ zones' = [zones EXCEPT ![tx[w].zone].rrs = tx[w].rrs]
      BY <1>1, <2>1 DEF CommitTx, Change, Has
    <3>2. pc'[w] = "save" /\ UNCHANGED tx
      BY <1>0, <2>1, <3>1 DEF CommitTx, Change, Goto
    <3>3. zones[tx[w].zone] \in [file : {Root} \cup OwnFiles(tx[w].zone), rrs : Seq(FileRRs(Names))]
      BY <3>1 DEF ZoneInv, DataInv, LegibleZones, LegibleZone
    <3>4. a[1] = tx[w].zone /\ a[2] \notin ToSet(tx[w].rrs)
      BY <1>1, <3>1, <3>3 DEF Has
    <3>5. Kept(tx[w]) /\ tx[w].kind # "DELETE"
      BY <1>0, <3>1 DEF PlainCall
    <3>6. CASE a[2] \in ToSet(tx[w].copied)
      <4>1. PICK i \in DOMAIN tx[w].ops : Deletes(tx[w].ops[i], a[2])
        BY <1>1, <3>4, <3>5, <3>6 DEF Kept, Promised
      <4>2. tx[w].ops[i] \in ToSet(tx[w].ops)
        BY DEF ToSet
      <4> QED
        BY <1>0, <1>1, <3>2, <3>4, <4>1, <4>2 DEF Saving, Dropped
    <3>7. CASE a[2] \notin ToSet(tx[w].copied)
      BY <1>0, <1>1, <3>2, <3>4, <3>5, <3>7 DEF Saving, Overtaken
    <3> QED
      BY <3>6, <3>7
  <2>2. CASE Create(w)
    <3>1. pc'[w] = "saveNew" /\ UNCHANGED tx
      BY <1>0, <2>2 DEF Create, Change, Goto
    <3>2. a[1] = tx[w].zone
      BY <1>1, <2>2 DEF Create, Change, Has
    <3> QED
      BY <1>0, <1>1, <3>1, <3>2 DEF Saving, Dropped
  <2>3. CASE Delete(w)
    <3>1. pc'[w] = "save" /\ UNCHANGED tx /\ tx[w].kind = "DELETE"
      BY <1>0, <2>3 DEF Delete, Change, Goto, PlainCall
    <3>2. a[1] = tx[w].zone
      BY <1>1, <2>3 DEF Delete, Change, DeleteZone, Has
    <3> QED
      BY <1>0, <1>1, <3>1, <3>2 DEF Saving, Dropped
  <2> QED
    BY <2>1, <2>2, <2>3
<1>2. ASSUME NEW a \in acked PROVE Promised(a) /\ (a[1] \in damaged \/ (Has(zones, a) /\ Has(saved, a)))
  BY <1>0 DEF AckInv
<1>3. ASSUME NEW a \in acked, Has(saved, a) PROVE Has(saved', a)
  BY <1>0, <1>3
<1> QED
  BY <1>0, <1>1, <1>2, <1>3 DEF AckInv

\* What is confirmed now is on the disk and in memory.
LEMMA NewAcks ==
  ASSUME ZoneInv, PlainInv, NEW w \in Writers, pc[w] = "save", NEW a \in Added(w)
  PROVE  Promised(a) /\ Has(zones, a)
<1>0. /\ PlainCall("save", tx[w], zones) /\ LegibleCall("save", tx[w]) /\ tx[w] \in Transactions
  BY DEF ZoneInv, CallInv, PlainInv
<1>1. PICK i \in DOMAIN tx[w].ops :
        /\ a = <<tx[w].zone, tx[w].ops[i].rr>> /\ Lasts(tx[w].ops, i)
  BY DEF Added, Lasts
<1>2. tx[w].kind # "DELETE"
  BY <1>0, <1>1 DEF PlainCall
<1>3. tx[w].zone \in Apexes /\ tx[w].zone \in Names /\ tx[w].ops[i].rr \in FileRRs(Names)
  <2>1. tx[w].zone \in Apexes /\ tx[w].ops \in Seq(Operations)
    BY <1>0 DEF LegibleCall, Transactions
  <2>2. tx[w].ops[i] \in Operations
    BY <2>1
  <2> QED
    BY <2>1, <2>2, ApexesAreNames DEF Operations
<1>4. Plain(tx[w].zone, tx[w].ops[i].rr)
  BY <1>0, <1>1, <1>3, SubdomainReflexive DEF PlainCall, PlainOps, Lasts
<1>5. tx[w].ops[i].rr.type # "SOA"
  BY <1>1 DEF Lasts
<1>6. tx[w].zone \in DOMAIN zones /\ tx[w].ops[i].rr \in ToSet(zones[tx[w].zone].rrs)
  BY <1>0, <1>1, <1>2 DEF PlainCall, Kept
<1> QED
  BY <1>1, <1>3, <1>4, <1>5, <1>6 DEF Promised, Has

\* A save ends with the promises of its writer kept.
LEMMA SavesKeepAcks ==
  ASSUME ZoneInv, PlainInv, AckInv, daemon = "up", UNCHANGED daemon, NEW w \in Writers, SaveStep(w)
  PROVE  AckInv'
<1>1. CASE OpenFile(w) \/ CloseFile(w) \/ OpenConf(w)
  <2>1. UNCHANGED <<zones, pc, tx, saved, acked, damaged>>
    BY <1>1 DEF OpenFile, CloseFile, OpenConf, history
  <2> QED
    BY <2>1 DEF AckInv, Has, InHand, Saving, Dropped, Overtaken
<1>2. CASE CloseConf(w)
  <2>1. Saving(w) /\ saved' = zones /\ UNCHANGED zones /\ \A v \in Writers : Saving(v) => v = w
    BY <1>2 DEF CloseConf, ZoneInv, FilesInv, SaveInv
  <2>2. ASSUME NEW a \in acked, a \notin Dropped(w) \cup Overtaken(w)
        PROVE  Promised(a) /\ (a[1] \in damaged \/ Has(zones, a))
    BY <2>1, <2>2 DEF AckInv, InHand
  <2>3. CASE pc[w] = "saveNew"
    <3>1. acked' = acked \ Dropped(w) /\ damaged' = damaged \ {tx[w].zone}
      BY <1>2, <2>3 DEF CloseConf
    <3>2. Overtaken(w) = {} /\ \A a \in acked : a[1] = tx[w].zone => a \in Dropped(w)
      BY <2>3 DEF Overtaken, Dropped
    <3> QED
      BY <2>1, <2>2, <3>1, <3>2 DEF AckInv, Has
  <2>4. CASE pc[w] = "save"
    <3>1. acked' = (acked \ (Dropped(w) \cup Overtaken(w))) \cup Added(w) /\ damaged' = damaged
      BY <1>2, <2>4 DEF CloseConf
    <3> QED
      BY <2>1, <2>2, <2>4, <3>1, NewAcks DEF AckInv, Has
  <2> QED
    BY <2>1, <2>3, <2>4 DEF Saving
<1> QED
  BY <1>1, <1>2 DEF SaveStep

\* A crash loses nothing of what stays confirmed but what it damages.
LEMMA CrashKeepsAcks ==
  ASSUME AckInv, Crash
  PROVE  AckInv'
<1>1. /\ UNCHANGED <<zones, saved>> /\ damaged \subseteq damaged' /\ daemon = "up"
      /\ acked' = acked \ UNION {Dropped(w) \cup Overtaken(w) : w \in {v \in Writers : Saving(v)}}
  BY DEF Crash, memory
<1>2. ASSUME NEW a \in acked' PROVE a \in acked /\ ~InHand(a)
  BY <1>1 DEF InHand
<1> QED
  BY <1>1, <1>2 DEF AckInv, Has

\* A restart reads it again.
LEMMA RestartKeepsAcks ==
  ASSUME ZoneInv, AckInv, CrashedInv, Restart
  PROVE  AckInv'
<1>0. /\ daemon = "down" /\ UNCHANGED <<files, conf, acked, damaged>> /\ DataInv
  BY DEF Restart, disk, ZoneInv
<1>1. CASE DOMAIN conf # {} /\ \A z \in DOMAIN conf : Readable(z)
  <2>1. /\ zones' = [z \in DOMAIN conf |-> [file |-> conf[z], rrs |-> RecordsOnDisk(z)]]
        /\ saved' = zones'
    BY <1>1 DEF Restart
  <2>2. ASSUME NEW a \in acked, a[1] \notin damaged PROVE Has(zones', a)
    <3>1. Promised(a) /\ Has(zones, a) /\ Has(saved, a)
      BY <1>0, <2>2 DEF AckInv
    <3>2. a[1] \in DOMAIN conf
      BY <2>2, <3>1 DEF CrashedInv, Has
    <3>3. PICK db \in {saved, zones} : a[1] \in DOMAIN db /\ Holds(files, conf[a[1]], a[1], db[a[1]].rrs)
      BY <2>2, <3>2 DEF CrashedInv
    <3>4. /\ LegibleZones(db) /\ Has(db, a)
      BY <1>0, <3>1, <3>3 DEF DataInv
    <3> DEFINE z == a[1]
               rrs == db[z].rrs
    <3>5. /\ z \in Names /\ rrs \in Seq(FileRRs(Names)) /\ Legible(z, rrs)
          /\ Plain(z, a[2]) /\ a[2] \in ToSet(rrs)
      BY <3>1, <3>3, <3>4, ApexesAreNames DEF LegibleZones, LegibleZone, Promised, Has
    <3>6. RecordsOnDisk(z) = Reread(z, rrs).rrs
      BY <3>3 DEF Holds, RecordsOnDisk
    <3>7. zones'[z].rrs = RecordsOnDisk(z) /\ z \in DOMAIN zones'
      BY <2>1, <3>2
    <3> HIDE DEF z, rrs
    <3>8. a[2] \in ToSet(Reread(z, rrs).rrs)
      BY <3>5, LegibleIsRead, PlainIsKept
    <3> QED
      BY <3>6, <3>7, <3>8 DEF Has, z
  <2> QED
    BY <1>0, <2>1, <2>2 DEF AckInv, Has
<1>2. CASE ~(DOMAIN conf # {} /\ \A z \in DOMAIN conf : Readable(z))
  BY <1>2 DEF Restart, AckInv
<1> QED
  BY <1>1, <1>2

\* A call does not touch another writer's transaction.
LEMMA CallsOfOne ==
  ASSUME NEW w \in Writers,
         \/ Receive(w) \/ Find(w) \/ Begin(w) \/ ReadSoa(w) \/ CommitTx(w) \/ Create(w) \/ Delete(w),
         tx \in [Writers -> Transactions]
  PROVE  \A v \in Writers \ {w} : tx'[v] = tx[v]
BY DEF Receive, Find, Begin, ReadSoa, CommitTx, Create, Delete, Change, Reply

LEMMA InitKept == LegibleRequests /\ Init => KeptInv
<1> SUFFICES ASSUME LegibleRequests, Init PROVE KeptInv
  OBVIOUS
<1>1. PlainCall("idle", NoTx, zones)
  BY DEF PlainCall, NoTx
<1> QED
  BY <1>1, InitDisk DEF KeptInv, PlainInv, AckInv, Init

\* KeptInv holds in every state.
LEMMA NextKept == LegibleRequests /\ PlainRequests /\ KeptInv /\ [Next]_vars => KeptInv'
<1> SUFFICES ASSUME LegibleRequests, PlainRequests, KeptInv, [Next]_vars PROVE KeptInv'
  OBVIOUS
<1>0. /\ DiskInv' /\ ZoneInv /\ tx \in [Writers -> Transactions]
      /\ DiskInv /\ PlainInv /\ AckInv
  BY NextDisk DEF KeptInv, DiskInv, ZoneInv, CallInv
<1> SUFFICES PlainInv' /\ AckInv'
  BY <1>0 DEF KeptInv
<1>1. CASE Crash
  <2>1. UNCHANGED <<zones, pc, tx>>
    BY <1>1 DEF Crash, memory
  <2> QED
    BY <1>0, <1>1, <2>1, CrashKeepsAcks DEF PlainInv
<1>2. CASE Restart
  <2>1. CrashedInv
    BY <1>0, <1>2 DEF DiskInv, Restart
  <2>2. PlainInv'
    <3>1. \A w \in Writers : pc'[w] = "idle" /\ tx'[w] = NoTx
      BY <1>2 DEF Restart
    <3> QED
      BY <3>1 DEF PlainInv, PlainCall, NoTx
  <2> QED
    BY <1>0, <1>2, <2>1, <2>2, RestartKeepsAcks
<1>3. ASSUME NEW w \in Writers, Accept(w) PROVE PlainInv' /\ AckInv'
  <2>1. Receive(w) /\ UNCHANGED daemon
    BY <1>3 DEF Accept
  <2>2. Moves(w)
    BY <2>1 DEF Receive, Goto, Moves, Saving, Quiet, disk
  <2> QED
    BY <1>0, <2>1, <2>2, ReceiveIsPlain, MovesKeepAcks, CallsLeaveHistory, CallsOfOne
<1>4. ASSUME NEW w \in Writers, Serve(w) PROVE PlainInv' /\ AckInv'
  <2>1. daemon = "up" /\ UNCHANGED daemon
    BY <1>4 DEF Serve
  <2>2. CASE SaveStep(w)
    BY <1>0, <2>1, <2>2, SavesArePlain, SavesKeepAcks
  <2>3. CASE Find(w) \/ Begin(w) \/ ReadSoa(w)
    <3>1. PlainInv'
      BY <1>0, <2>3, FindIsPlain, BeginIsPlain, ReadSoaIsPlain
    <3>2. Moves(w)
      BY <2>1, <2>3 DEF Find, Begin, ReadSoa, Goto, Reply, Moves, Saving, Quiet, disk
    <3> QED
      BY <1>0, <2>3, <3>1, <3>2, MovesKeepAcks, CallsLeaveHistory, CallsOfOne
  <2>4. CASE CommitTx(w) \/ Create(w) \/ Delete(w)
    <3>1. Moves(w) \/ Begins(w)
      BY <2>1, <2>4, CallsMoveOrBegin
    <3>2. CASE Moves(w)
      BY <1>0, <2>4, <3>2, ChangesArePlain, MovesKeepAcks, CallsLeaveHistory, CallsOfOne
    <3>3. CASE Begins(w)
      BY <1>0, <2>1, <2>4, <3>3, ChangesArePlain, ChangesKeepAcks
    <3> QED
      BY <3>1, <3>2, <3>3
  <2> QED
    BY <1>4, <2>2, <2>3, <2>4 DEF Serve
<1>5. CASE UNCHANGED vars
  <2>1. UNCHANGED <<daemon, zones, pc, tx, saved, acked, damaged>>
    BY <1>5 DEF vars, memory, history
  <2> QED
    BY <1>0, <2>1 DEF PlainInv, AckInv, Has, InHand, Saving, Dropped, Overtaken
<1> QED
  BY <1>1, <1>2, <1>3, <1>4, <1>5 DEF Next

\* What was confirmed stays: while nobody saves, a record that an update, a PATCH
\* or a POST was told is added is in the zone in memory, however the calls of the
\* writers and the saves were interleaved and whatever crashed and was read again
\* in between; but for a zone that a crash cut, and for a record that another
\* request deleted or put an older copy over (commit 206-215, persistLocked
\* 238-254, initialize 26-48).
THEOREM ConfirmedStays ==
  ASSUME LegibleRequests, PlainRequests
  PROVE  Spec => []AcknowledgedStay
<1>1. KeptInv => AcknowledgedStay
  BY DEF KeptInv, AckInv, InHand, Has, AcknowledgedStay
<1> QED
  BY <1>1, InitKept, NextKept, PTL DEF Spec

-----------------------------------------------------------------------------
(* A zone and its entry in named.conf, read again and again.               *)

\* The reading is one of a zone; after the first it is plain, and a plain zone
\* has not changed.
ReloadInv ==
  /\ given \in Contents /\ rereads \in Nat
  /\ reading \in Reading
  /\ rereads # 0 /\ reading.ok => AllPlain(Origin, reading.rrs)
  /\ AllPlain(Origin, given) => reading.ok /\ reading.rrs = given

LEMMA InitReload == ReloadInit => ReloadInv
BY ReloadAssumption DEF ReloadInit, ReloadInv, Reading

\* One reading.
LEMMA ReloadReads ==
  ASSUME ReloadInv, Reload
  PROVE  /\ reading' \in Reading
         /\ reading'.ok => AllPlain(Origin, reading'.rrs)
         /\ AllPlain(Origin, reading.rrs) => reading'.ok /\ reading'.rrs = reading.rrs
<1>1. /\ Origin \in Names /\ reading.rrs \in Seq(FileRRs(Names))
      /\ reading' = Reread(Origin, reading.rrs)
  BY ReloadAssumption DEF ReloadInv, Reading, Reload
<1>2. WriteZoneText(Origin, reading.rrs) \in Seq(Lines)
  BY <1>1, TextType
<1>3. reading' \in Reading /\ (reading'.ok => AllPlain(Origin, reading'.rrs))
  BY <1>1, <1>2, ReadZonesArePlain DEF Reread
<1> QED
  BY <1>1, <1>3, PlainIsRead

LEMMA NextReload == ReloadInv /\ [ReloadNext]_reloadVars => ReloadInv'
<1> SUFFICES ASSUME ReloadInv, [ReloadNext]_reloadVars PROVE ReloadInv'
  OBVIOUS
<1>1. CASE Reload
  <2>1. UNCHANGED given /\ rereads' = rereads + 1
    BY <1>1 DEF Reload
  <2> QED
    BY <1>1, <2>1, ReloadReads DEF ReloadInv
<1>2. CASE UNCHANGED reloadVars
  BY <1>2 DEF reloadVars, ReloadInv
<1> QED
  BY <1>1, <1>2 DEF ReloadNext

\* A zone of its own names that are no words of the syntax, with absolute hosts,
\* is as it was after any number of writings and readings (writeZoneText 273-287,
\* parseZoneText 186-247).
THEOREM PlainZonesAlwaysSurvive == ReloadSpec => []PlainZonesSurvive
<1>1. ReloadInv => PlainZonesSurvive
  BY DEF ReloadInv, PlainZonesSurvive, InZoneOnly, DottedOnly,
         HasWordOwner, AllPlain, Plain, PlainOwner
<1> QED
  BY <1>1, InitReload, NextReload, PTL DEF ReloadSpec

\* What is read is plain, whatever was written, and so it is written in a form
\* that reads the same: whatever the first reading changed, the second changes
\* nothing (writeZoneText 273-287, parseZoneText 186-247).
THEOREM SecondReadingsChangeNothing == ReloadSpec => ReadingIsStable
<1>1. ReloadInv /\ [ReloadNext]_reloadVars =>
        [rereads = 1 => reading'.ok /\ reading'.rrs = reading.rrs]_reloadVars
  <2> SUFFICES ASSUME ReloadInv, Reload, rereads = 1
               PROVE  reading'.ok /\ reading'.rrs = reading.rrs
    BY DEF ReloadNext
  <2>1. AllPlain(Origin, reading.rrs)
    BY DEF ReloadInv, Reload
  <2> QED
    BY <2>1, ReloadReads
<1> QED
  BY <1>1, InitReload, NextReload, PTL DEF ReloadSpec, ReadingIsStable

\* The word that ends the body of an entry.
Brace == "}"

\* The body of an entry ends at the first closing brace.
LEMMA BodyEnds ==
  ASSUME NEW S, NEW words \in Seq(S),  NEW n \in 1 .. Len(words), words[n] = Brace,
         \A i \in 1 .. n - 1 : words[i] # Brace, NEW body, body = Body(words)
  PROVE  \A w : w \in body <=> \E i \in 1 .. n - 1 : w = words[i]
<1> DEFINE I == {i \in 1 .. Len(words) : words[i] = Brace}
           part == SubSeq(words, 1, n - 1)
<1>1. Body(words) = ToSet(SubSeq(words, 1, (IF I # {} THEN Min(I) ELSE 0) - 1))
  BY Zenon DEF Body, SelectInSeq, Brace
<1>2. n \in I /\ I \subseteq Nat /\ \A i \in I : n <= i
  OBVIOUS
<1> HIDE DEF I
<1>3. Min(I) = n
  <2>1. Min(I) \in I /\ \A i \in I : Min(I) <= i
    BY <1>2 DEF Min
  <2> DEFINE m == Min(I)
  <2> HIDE DEF m
  <2>2. m \in Nat /\ n \in Nat /\ n <= m /\ m <= n
    BY <1>2, <2>1 DEF m
  <2> QED
    BY <2>2 DEF m
<1>4. Body(words) = ToSet(part)
  BY <1>1, <1>2, <1>3
<1>5. part \in Seq(S) /\ Len(part) = n - 1 /\ \A i \in 1 .. n - 1 : part[i] = words[1 + i - 1]
  BY SubSeqProperties
<1>6. \A i \in 1 .. n - 1 : 1 + i - 1 = i
  OBVIOUS
<1> HIDE DEF part
<1>7. DOMAIN part = 1 .. n - 1
  BY <1>5
<1>8. \A w : w \in ToSet(part) <=> \E i \in 1 .. n - 1 : w = words[i]
  BY <1>5, <1>6, <1>7 DEF ToSet
<1> QED
  BY <1>4, <1>8, Zenon

\* Hence at the one that ends the masters, if it has any.
LEMMA EntryBody ==
  ASSUME NEW S, NEW words \in Seq(S),  NEW n \in {3, 4}, n <= Len(words), words[n] = Brace,
         \A i \in 1 .. n - 1 : words[i] # Brace, NEW body, body = Body(words)
  PROVE  Brace \notin body /\ \A i \in 1 .. n - 1 : words[i] \in body
<1>1. n \in 1 .. Len(words)
  OBVIOUS
<1>2. \A w : w \in body <=> \E i \in 1 .. n - 1 : w = words[i]
  BY <1>1, BodyEnds
<1> QED
  BY <1>2

\* What comes back of an entry.
ComesBack(z) ==
  [zone |-> z.zone, file |-> WrittenFile(z), kind |-> WrittenKind(z), masters |-> {}]

\* writeNamedConf and parseNamedConf of one entry.
LEMMA MastersAreLost ==
  ASSUME NEW z
  PROVE  ParseNamedZone(z) = ComesBack(z)
<1> DEFINE words == WriteNamedZone(z)
           body == Body(words)
           type == "type"
           file == "file"
           key == "masters"
           list == IF z.masters = {} THEN << >> ELSE <<key, Brace>>
<1>1. words = <<type, file>> \o list \o <<Brace>>
  BY Zenon DEF WriteNamedZone, Brace
<1>2. type # Brace /\ file # Brace /\ key # Brace
  BY DEF Brace
<1>3. body = Body(words)
  OBVIOUS
<1>4. list \in {<< >>, <<key, Brace>>}
  OBVIOUS
<1>5. {"type", "file"} \subseteq body /\ "}" \notin body
  <2> HIDE DEF words, list, type, file, key
  <2> HIDE DEF body
  <2> DEFINE S == {type, file, key, Brace}
  <2>1. \E n \in {3, 4} : /\ words \in Seq(S) /\ n <= Len(words) /\ words[n] = Brace
                          /\ \A i \in 1 .. n - 1 : words[i] # Brace
                          /\ words[1] = type /\ words[2] = file
    <3>1. CASE list = << >>
      <4>1. /\ words \in Seq(S) /\ Len(words) = 3
            /\ words[1] = type /\ words[2] = file /\ words[3] = Brace
        BY <1>1, <3>1
      <4> QED
        BY <1>2, <4>1
    <3>2. CASE list = <<key, Brace>>
      <4>1. /\ words \in Seq(S) /\ Len(words) = 5
            /\ words[1] = type /\ words[2] = file /\ words[3] = key /\ words[4] = Brace
        BY <1>1, <3>2
      <4> QED
        BY <1>2, <4>1
    <3> QED
      BY <1>4, <3>1, <3>2
  <2> HIDE DEF S
  <2>2. PICK n \in {3, 4} : /\ words \in Seq(S) /\ n <= Len(words) /\ words[n] = Brace
                           /\ \A i \in 1 .. n - 1 : words[i] # Brace
                           /\ words[1] = type /\ words[2] = file
    BY <2>1
  <2>3. Brace \notin body /\ \A i \in 1 .. n - 1 : words[i] \in body
    BY <1>3, <2>2, EntryBody
  <2>4. 1 \in 1 .. n - 1 /\ 2 \in 1 .. n - 1
    OBVIOUS
  <2>5. {type, file} \subseteq body /\ Brace \notin body
    BY <2>2, <2>3, <2>4
  <2> QED
    BY <2>5, Zenon DEF type, file, Brace
<1> HIDE DEF words
<1>6. ParseNamedZone(z) =
        [zone    |-> z.zone,
         file    |-> IF "file" \in body THEN WrittenFile(z) ELSE Root,
         kind    |-> IF "type" \in body THEN WrittenKind(z) ELSE "native",
         masters |-> IF {"masters", "}"} \subseteq body THEN z.masters ELSE {}]
  BY Zenon DEF ParseNamedZone, words
<1> HIDE DEF body
<1>7. "file" \in body /\ "type" \in body /\ ~({"masters", "}"} \subseteq body)
  BY <1>5, Zenon
<1> QED
  BY <1>6, <1>7, Zenon DEF ComesBack

\* What came back once comes back as it is.
LEMMA ComesBackAgain ==
  ASSUME NEW z, z.zone \in Names
  PROVE  ComesBack(ComesBack(z)) = ComesBack(z)
<1> DEFINE back == ComesBack(z)
<1>1. /\ back.zone = z.zone /\ back.file = WrittenFile(z) /\ back.kind = WrittenKind(z)
  BY DEF ComesBack
<1>2. DefaultFile(z.zone) # Root
  <2>1. z.zone \in Seq(Labels)
    BY DEF Names
  <2>2. Len(Append(z.zone, "zone")) = Len(z.zone) + 1 /\ Len(z.zone) \in Nat
    BY <2>1
  <2> QED
    BY <2>2 DEF DefaultFile, Root
<1> HIDE DEF back
<1>3. WrittenFile(back) = WrittenFile(z) /\ WrittenKind(back) = WrittenKind(z)
  BY <1>1, <1>2 DEF WrittenFile, WrittenKind
<1>4. ComesBack(back) = [zone |-> z.zone, file |-> WrittenFile(z), kind |-> WrittenKind(z), masters |-> {}]
  BY <1>1, <1>3 DEF ComesBack
<1> QED
  BY <1>4 DEF back, ComesBack

\* Of an entry of named.conf only the masters, and the kind of a native zone, are
\* lost, however often it is written and read (parseNamedConf 325-364,
\* writeNamedConf 370-381).
THEOREM NothingElseIsLost == ReloadSpec => []EntriesComeBack
<1> DEFINE Inv == givenEntry.zone \in Names /\ EntriesComeBack
<1>1. ReloadInit => Inv
  BY ReloadAssumption DEF ReloadInit, EntriesComeBack
<1>2. Inv /\ [ReloadNext]_reloadVars => Inv'
  <2> SUFFICES ASSUME Inv, [ReloadNext]_reloadVars PROVE Inv'
    OBVIOUS
  <2>1. entry \in {givenEntry, ComesBack(givenEntry)}
    BY DEF EntriesComeBack, ComesBack
  <2>2. CASE Reload
    <3>1. entry' = ComesBack(entry) /\ UNCHANGED givenEntry
      BY <2>2, MastersAreLost DEF Reload
    <3>2. entry' = ComesBack(givenEntry)
      BY <2>1, <3>1, ComesBackAgain
    <3> QED
      BY <3>1, <3>2 DEF EntriesComeBack, ComesBack
  <2>3. CASE UNCHANGED reloadVars
    BY <2>3 DEF reloadVars, EntriesComeBack, WrittenFile, WrittenKind
  <2> QED
    BY <2>2, <2>3 DEF ReloadNext
<1> QED
  BY <1>1, <1>2, PTL DEF ReloadSpec
==============================================================================
