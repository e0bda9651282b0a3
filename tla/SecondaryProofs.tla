--------------------------- MODULE SecondaryProofs ----------------------------
(***************************************************************************)
(* Proofs about Secondary, for any zones, updates, ways to split an answer *)
(* and number of broken connections.                                       *)
(***************************************************************************)
EXTENDS Secondary, TLAPS, SequenceTheorems, WellFoundedInduction

\* An answer, cached or in hand, is older than its zone only if an invalidation is
\* yet to come, or one came while the answer was in hand.
IsAnswer(answer) ==
  DOMAIN answer = {"zone", "rrs", "late"} /\ answer.zone \in Slaves /\ answer.late \in BOOLEAN
AllAnswers == cached \cup UNION {asking[c] : c \in Clients}
CacheInv ==
  /\ DOMAIN zones = Slaves /\ DOMAIN asking = Clients /\ owed \in Nat
  /\ \A answer \in AllAnswers : IsAnswer(answer)
  /\ Quiet => \A answer \in AllAnswers : answer.late \/ ~Outdated(answer)

\* The steps that leave zones and cache alone, and do not skip the invalidation.
LEMMA OthersKeepCache ==
  ASSUME CacheInv, UNCHANGED <<zones, cache>>, pc = "invalidate" => pc' = "invalidate"
  PROVE  CacheInv'
BY DEF CacheInv, IsAnswer, AllAnswers, Quiet, Outdated, cache, Slaves

\* A commit has its invalidation yet to come.
LEMMA CommitsKeepCache ==
  ASSUME CacheInv, UNCHANGED <<cached, asking>>, DOMAIN zones' = DOMAIN zones, owed' \in Nat, ~Quiet'
  PROVE  CacheInv'
BY DEF CacheInv, IsAnswer, AllAnswers, Slaves

\* The invalidation leaves no answer but those in hand, and marks the outdated.
LEMMA InvalidatedKeepsCache ==
  ASSUME CacheInv, Invalidated, UNCHANGED zones, owed' \in Nat
  PROVE  CacheInv'
<1>1. cached' = {} /\ DOMAIN asking' = Clients
  BY DEF Invalidated
<1>2. ASSUME NEW answer \in AllAnswers'
      PROVE  IsAnswer(answer)' /\ (answer.late \/ ~Outdated(answer))'
  <2>1. PICK c \in Clients : answer \in asking'[c]
    BY <1>1 DEF AllAnswers
  <2>2. PICK held \in asking[c] : answer = [held EXCEPT !.late = @ \/ Outdated(held)]
    BY <2>1 DEF Invalidated
  <2>3. held \in AllAnswers /\ IsAnswer(held)
    BY DEF CacheInv, AllAnswers
  <2>4. /\ DOMAIN answer = {"zone", "rrs", "late"}
        /\ answer.zone = held.zone /\ answer.rrs = held.rrs
        /\ answer.late = (held.late \/ Outdated(held))
    BY <2>2, <2>3 DEF IsAnswer
  <2>5. Outdated(answer)' = Outdated(held)
    BY <2>4 DEF Outdated
  <2>6. Outdated(held) \in BOOLEAN
    BY DEF Outdated
  <2> HIDE DEF Outdated
  <2>7. IsAnswer(answer)'
    BY <2>3, <2>4, <2>6 DEF IsAnswer, Slaves
  <2> QED
    BY <2>3, <2>4, <2>5, <2>6, <2>7
<1> QED
  BY <1>1, <1>2 DEF CacheInv, Slaves

LEMMA NextCache == CacheInv /\ [Next]_vars => CacheInv'
<1> SUFFICES ASSUME CacheInv, [Next]_vars PROVE CacheInv'
  OBVIOUS
<1>1. CASE UNCHANGED vars
  BY <1>1, OthersKeepCache DEF vars, refresh
<1>2. CASE WakeUp \/ Connect \/ Answer \/ Receive \/ Closed \/ Begin \/ Broken
  BY <1>2, OthersKeepCache
     DEF WakeUp, Connect, Answer, Receive, Closed, Begin, Broken, StopReceiving
<1>3. CASE Write
  BY <1>3, OthersKeepCache DEF Write, refresh
<1>4. CASE WriteLocally
  <2>1. owed' \in Nat /\ owed' > 0
    BY <1>4 DEF WriteLocally, CacheInv
  <2> QED
    BY <1>4, <2>1, CommitsKeepCache DEF WriteLocally, Quiet
<1>5. CASE CommitTransfer
  BY <1>5, CommitsKeepCache DEF CommitTransfer, Quiet, cache, CacheInv
<1>6. CASE Invalidate
  BY <1>6, InvalidatedKeepsCache DEF Invalidate, CacheInv
<1>7. CASE InvalidateLocally
  BY <1>7, InvalidatedKeepsCache DEF InvalidateLocally, CacheInv
<1>8. ASSUME NEW c \in Clients, Put(c) PROVE CacheInv'
  <2>1. UNCHANGED <<zones, owed, pc>> /\ DOMAIN asking' = Clients
    BY <1>8 DEF Put, refresh, CacheInv
  <2>2. AllAnswers' \subseteq AllAnswers
    <3>1. \A d \in Clients : asking'[d] \subseteq asking[d]
      BY <1>8 DEF Put, CacheInv
    <3>2. cached' = cached \cup asking[c]
      BY <1>8 DEF Put
    <3> QED
      BY <3>1, <3>2 DEF AllAnswers
  <2>3. \A answer : Outdated(answer)' = Outdated(answer)
    BY <2>1 DEF Outdated
  <2> QED
    BY <2>1, <2>2, <2>3 DEF CacheInv, IsAnswer, Quiet, Slaves
<1>9. ASSUME NEW c \in Clients, NEW z \in Slaves, Ask(c, z) PROVE CacheInv'
  <2> DEFINE asked == [zone |-> z, rrs |-> zones[z].rrs, late |-> FALSE]
  <2>1. UNCHANGED <<zones, owed, pc>> /\ DOMAIN asking' = Clients
    BY <1>9 DEF Ask, refresh, CacheInv
  <2>2. IsAnswer(asked) /\ ~Outdated(asked)
    BY DEF IsAnswer, Outdated
  <2>3. cached' = cached /\ asking' = [asking EXCEPT ![c] = {asked}]
    BY <1>9 DEF Ask
  <2> HIDE DEF asked
  <2>4. AllAnswers' \subseteq AllAnswers \cup {asked}
    BY <2>3 DEF AllAnswers, CacheInv
  <2>5. \A answer : Outdated(answer)' = Outdated(answer)
    BY <2>1 DEF Outdated
  <2> QED
    BY <2>1, <2>2, <2>4, <2>5 DEF CacheInv, IsAnswer, Quiet, Slaves
<1> QED
  BY <1>1, <1>2, <1>3, <1>4, <1>5, <1>6, <1>7, <1>8, <1>9 DEF Next, Refresh

\* When neither a transfer nor an update waits to invalidate, the secondary answers
\* nothing from its cache that the zone no longer says, but for answers that were
\* read before a commit and cached after its invalidation: however many queries,
\* updates and broken transfers interleave (engine.cpp:258-273, 492-496;
\* server.cpp:256-257).
THEOREM CacheFollowsTransfers == Spec => []CachedIsCurrent
<1>1. Init => CacheInv
  BY DEF Init, CacheInv, AllAnswers, Slaves
<1>2. CacheInv => CachedIsCurrent
  BY DEF CacheInv, CachedIsCurrent, AllAnswers
<1> QED
  BY NextCache, <1>1, <1>2, PTL DEF Spec

-----------------------------------------------------------------------------
(* Recursion along a sequence, which FlattenSeq is.                        *)

\* Induction over the numbers, for a set that holds 0 and with each number the next.
LEMMA NatsBySteps ==
  ASSUME NEW S, 0 \in S, \A n \in Nat : n \in S => n + 1 \in S
  PROVE  Nat \subseteq S
<1> DEFINE Out == Nat \ S
<1>1. SUFFICES ASSUME Out # {} PROVE FALSE
  OBVIOUS
<1>2. PICK m \in Out : \A k \in Out : ~(<<k, m>> \in OpToRel(<, Nat))
  <2>1. IsWellFoundedOn(OpToRel(<, Nat), Nat)
    BY NatLessThanWellFounded
  <2> HIDE DEF Out
  <2>2. Out \subseteq Nat
    BY DEF Out
  <2> QED
    BY <1>1, <2>1, <2>2, WFMin
<1>3. m # 0 /\ m - 1 \in Nat /\ m - 1 \notin Out
  <2>1. m \in Nat /\ m # 0
    OBVIOUS
  <2>2. m - 1 \in Nat /\ <<m - 1, m>> \in OpToRel(<, Nat)
    BY <2>1 DEF OpToRel
  <2> QED
    BY <1>2, <2>1, <2>2
<1> QED
  BY <1>3

\* What the first m members of seqs amount to, one after the other.
Flattened(f, seqs, S, m) ==
  /\ f \in [0 .. m -> Seq(S)]
  /\ f[0] = << >>
  /\ \A i \in 1 .. m : f[i] = f[i - 1] \o seqs[i]

LEMMA FlattenedExists ==
  ASSUME NEW S, NEW seqs \in Seq(Seq(S))
  PROVE  \E f : Flattened(f, seqs, S, Len(seqs))
<1> DEFINE n == Len(seqs)
           Found == {m \in Nat : m <= n => \E f : Flattened(f, seqs, S, m)}
<1>1. 0 \in Found
  <2>1. Flattened([i \in {0} |-> << >>], seqs, S, 0)
    BY EmptySeq DEF Flattened
  <2> QED
    BY <2>1
<1>2. ASSUME NEW m \in Nat, m \in Found PROVE m + 1 \in Found
  <2>1. CASE ~(m + 1 <= n)
    BY <2>1
  <2>2. CASE m + 1 <= n
    <3>1. m <= n /\ m + 1 \in 1 .. n /\ n \in Nat
      BY <2>2
    <3>2. PICK f : Flattened(f, seqs, S, m)
      BY <1>2, <3>1
    <3>3. f[m] \in Seq(S) /\ seqs[m + 1] \in Seq(S)
      BY <3>1, <3>2 DEF Flattened
    <3> DEFINE last == f[m] \o seqs[m + 1]
               g == [i \in 0 .. m + 1 |-> IF i = m + 1 THEN last ELSE f[i]]
    <3>4. last \in Seq(S)
      BY <3>3, ConcatProperties
    <3>5. g[m + 1] = last /\ \A i \in 0 .. m : g[i] = f[i]
      <4>1. m + 1 \in 0 .. m + 1 /\ \A i \in 0 .. m : i \in 0 .. m + 1 /\ i # m + 1
        OBVIOUS
      <4> HIDE DEF last
      <4> QED
        BY <4>1
    <3>6. g \in [0 .. m + 1 -> Seq(S)] /\ g[0] = << >>
      BY <3>2, <3>4 DEF Flattened
    <3>7. ASSUME NEW i \in 1 .. m + 1 PROVE g[i] = g[i - 1] \o seqs[i]
      <4> HIDE DEF g
      <4>1. CASE i = m + 1
        <5>1. i - 1 = m /\ m \in 0 .. m
          BY <4>1
        <5> QED
          BY <3>5, <4>1, <5>1
      <4>2. CASE i # m + 1
        <5>1. i \in 1 .. m /\ i \in 0 .. m /\ i - 1 \in 0 .. m
          BY <4>2
        <5> QED
          BY <3>2, <3>5, <5>1 DEF Flattened
      <4> QED
        BY <4>1, <4>2
    <3> HIDE DEF g
    <3>8. Flattened(g, seqs, S, m + 1)
      BY <3>6, <3>7 DEF Flattened
    <3> QED
      BY <3>8
  <2> QED
    BY <2>1, <2>2
<1>3. n \in Nat /\ n <= n
  OBVIOUS
<1>4. n \in Found
  <2> HIDE DEF Found, n
  <2> QED
    BY <1>1, <1>2, <1>3, NatsBySteps
<1> QED
  BY <1>3, <1>4

LEMMA FlattenSteps ==
  ASSUME NEW S, NEW seqs \in Seq(Seq(S))
  PROVE  \E f : Flattened(f, seqs, S, Len(seqs)) /\ FlattenSeq(seqs) = f[Len(seqs)]
<1> DEFINE n == Len(seqs)
           Iter(it) == it = [i \in 1 .. n |-> IF i = 1 THEN seqs[i] ELSE it[i - 1] \o seqs[i]]
           it == CHOOSE it : Iter(it)
<1>0. n \in Nat
  OBVIOUS
<1>1. PICK f : Flattened(f, seqs, S, n)
  BY FlattenedExists
<1>a. f[0] = << >> /\ \A i \in 1 .. n : seqs[i] \in Seq(S) /\ f[i] = f[i - 1] \o seqs[i]
  BY <1>1 DEF Flattened
<1>2. CASE n = 0
  <2>1. seqs = << >>
    BY <1>2
  <2>2. FlattenSeq(seqs) = << >>
    BY <2>1 DEF FlattenSeq
  <2> QED
    BY <1>1, <1>2, <2>2 DEF Flattened
<1>3. CASE n # 0
  <2>1. FlattenSeq(seqs) = it[n]
    BY <1>3, Zenon DEF FlattenSeq
  <2>2. Iter([i \in 1 .. n |-> f[i]])
    <3>1. ASSUME NEW i \in 1 .. n
          PROVE  f[i] = IF i = 1 THEN seqs[i] ELSE [k \in 1 .. n |-> f[k]][i - 1] \o seqs[i]
      <4>1. CASE i = 1
        <5>1. f[1] = << >> \o seqs[1] /\ seqs[1] \in Seq(S)
          <6>1. f[1] = f[0] \o seqs[1]
            <7>1. 1 \in 1 .. n /\ 1 - 1 = 0
              BY <1>0, <1>3
            <7> HIDE DEF n
            <7> QED
              BY <1>a, <7>1
          <6> QED
            BY <1>a, <4>1, <6>1
        <5> QED
          BY <4>1, <5>1, ConcatEmptySeq
      <4>2. CASE i # 1
        <5>1. i - 1 \in 1 .. n
          BY <4>2
        <5> QED
          BY <1>a, <4>2, <5>1
      <4> QED
        BY <4>1, <4>2
    <3> QED
      BY <3>1
  <2>3. Iter(it)
    <3> HIDE DEF Iter
    <3> QED
      BY <2>2
  <2> HIDE DEF it
  <2>4. \A i \in 1 .. n : it[i] = IF i = 1 THEN seqs[i] ELSE it[i - 1] \o seqs[i]
    <3> HIDE DEF n
    <3> QED
      BY <2>3
  <2> HIDE DEF n, Iter
  <2> DEFINE Same == {m \in Nat : m \in 1 .. n => it[m] = f[m]}
  <2>5. 0 \in Same
    OBVIOUS
  <2>6. ASSUME NEW m \in Nat, m \in Same PROVE m + 1 \in Same
    <3>1. SUFFICES ASSUME m + 1 \in 1 .. n PROVE it[m + 1] = f[m + 1]
      OBVIOUS
    <3>2. (m + 1) - 1 = m
      OBVIOUS
    <3>3. it[m + 1] = IF m = 0 THEN seqs[m + 1] ELSE it[m] \o seqs[m + 1]
      BY <2>4, <3>1, <3>2
    <3>4. f[m + 1] = f[m] \o seqs[m + 1] /\ seqs[m + 1] \in Seq(S)
      BY <1>a, <3>1, <3>2
    <3>5. CASE m = 0
      BY <1>a, <3>3, <3>4, <3>5, ConcatEmptySeq
    <3>6. CASE m # 0
      <4>1. m \in 1 .. n
        BY <1>0, <3>1, <3>6
      <4> QED
        BY <2>6, <3>3, <3>4, <3>6, <4>1
    <3> QED
      BY <3>5, <3>6
  <2>7. n \in Same
    <3> HIDE DEF Same
    <3> QED
      BY <1>0, <2>5, <2>6, NatsBySteps
  <2>8. it[n] = f[n]
    BY <1>0, <1>3, <2>7
  <2> QED
    BY <1>1, <2>1, <2>8 DEF n
<1> QED
  BY <1>2, <1>3

\* FlattenSeq makes one sequence of the members of several.
LEMMA FlattenSeqMembers ==
  ASSUME NEW S, NEW seqs \in Seq(Seq(S))
  PROVE  /\ FlattenSeq(seqs) \in Seq(S)
         /\ \A i \in DOMAIN seqs : \A j \in DOMAIN seqs[i] :
              \E k \in DOMAIN FlattenSeq(seqs) : FlattenSeq(seqs)[k] = seqs[i][j]
<1> DEFINE n == Len(seqs)
<1>0. n \in Nat /\ DOMAIN seqs = 1 .. n
  OBVIOUS
<1>1. PICK f : Flattened(f, seqs, S, n) /\ FlattenSeq(seqs) = f[n]
  BY FlattenSteps
<1> DEFINE In1(m) == \A i \in 1 .. m : \A j \in DOMAIN seqs[i] :
                       \E k \in DOMAIN f[m] : f[m][k] = seqs[i][j]
           Good == {m \in Nat : m <= n => In1(m)}
<1>2. 0 \in Good
  OBVIOUS
<1>3. ASSUME NEW m \in Nat, m \in Good PROVE m + 1 \in Good
  <2>1. SUFFICES ASSUME m + 1 <= n,
                        NEW i \in 1 .. m + 1, NEW j \in DOMAIN seqs[i]
                 PROVE  \E k \in DOMAIN f[m + 1] : f[m + 1][k] = seqs[i][j]
    OBVIOUS
  <2>2. m \in 0 .. n /\ m + 1 \in 1 .. n /\ (m + 1) - 1 = m /\ i \in 1 .. n /\ m <= n
    BY <1>0, <2>1
  <2> HIDE DEF n
  <2> DEFINE s == f[m]
             t == seqs[m + 1]
  <2>3. s \in Seq(S) /\ t \in Seq(S) /\ f[m + 1] = s \o t /\ seqs[i] \in Seq(S)
    <3>1. f[m] \in Seq(S) /\ f[m + 1] = f[m] \o seqs[m + 1]
      BY <1>1, <2>2 DEF Flattened
    <3>2. \A k \in 1 .. n : seqs[k] \in Seq(S)
      BY <1>0
    <3> QED
      BY <2>2, <3>1, <3>2
  <2> HIDE DEF s, t
  <2>4. /\ Len(s) \in Nat /\ Len(t) \in Nat
        /\ DOMAIN (s \o t) = 1 .. Len(s) + Len(t) /\ DOMAIN s = 1 .. Len(s) /\ DOMAIN t = 1 .. Len(t)
        /\ \A k \in 1 .. Len(s) + Len(t) :
             (s \o t)[k] = IF k <= Len(s) THEN s[k] ELSE t[k - Len(s)]
    BY <2>3, ConcatProperties, LenProperties
  <2>5. CASE i = m + 1
    <3>1. j \in 1 .. Len(t) /\ t[j] = seqs[i][j]
      BY <2>4, <2>5 DEF t
    <3>2. Len(s) + j \in 1 .. Len(s) + Len(t) /\ ~(Len(s) + j <= Len(s)) /\ (Len(s) + j) - Len(s) = j
      BY <2>4, <3>1
    <3> QED
      BY <2>3, <2>4, <3>1, <3>2
  <2>6. CASE i # m + 1
    <3>1. i \in 1 .. m
      BY <2>6
    <3>2. PICK k \in DOMAIN s : s[k] = seqs[i][j]
      BY <1>3, <2>2, <3>1 DEF s
    <3>3. k \in 1 .. Len(s) + Len(t) /\ k <= Len(s)
      BY <2>4
    <3> QED
      BY <2>3, <2>4, <3>2, <3>3
  <2> QED
    BY <2>5, <2>6
<1>4. n \in Good
  <2> HIDE DEF Good, n
  <2> QED
    BY <1>0, <1>2, <1>3, NatsBySteps
<1> QED
  BY <1>0, <1>1, <1>4 DEF Flattened

\* ElementsAt keeps the elements at the positions, and no other.
LEMMA ElementsKept ==
  ASSUME NEW S, NEW seq \in Seq(S), NEW positions
  PROVE  /\ ElementsAt(seq, positions) \in Seq(S)
         /\ ToSet(ElementsAt(seq, positions)) = {seq[i] : i \in positions \cap DOMAIN seq}
<1> DEFINE kept == {seq[i] : i \in positions \cap DOMAIN seq}
           seqs == [i \in DOMAIN seq |-> IF i \in positions THEN <<seq[i]>> ELSE << >>]
<1>1. seqs \in Seq(Seq(kept))
  <2>1. Len(seq) \in Nat /\ DOMAIN seq = 1 .. Len(seq)
    OBVIOUS
  <2>2. ASSUME NEW i \in 1 .. Len(seq) PROVE seqs[i] \in Seq(kept)
    <3>1. CASE i \in positions
      <4>1. seq[i] \in kept
        BY <2>1, <3>1
      <4> HIDE DEF kept
      <4> QED
        BY <2>1, <3>1, <4>1
    <3>2. CASE i \notin positions
      BY <2>1, <3>2, EmptySeq
    <3> QED
      BY <3>1, <3>2
  <2>3. seqs = [i \in 1 .. Len(seq) |-> seqs[i]]
    BY <2>1
  <2> HIDE DEF seqs, kept
  <2> QED
    BY <2>1, <2>2, <2>3, IsASeq
<1>2. ElementsAt(seq, positions) = FlattenSeq(seqs)
  BY DEF ElementsAt
<1>3. ASSUME NEW i \in positions \cap DOMAIN seq
      PROVE  i \in DOMAIN seqs /\ 1 \in DOMAIN seqs[i] /\ seqs[i][1] = seq[i]
  OBVIOUS
<1> HIDE DEF seqs
<1>4. \A x \in kept : \E k \in DOMAIN FlattenSeq(seqs) : FlattenSeq(seqs)[k] = x
  <2> TAKE x \in kept
  <2>1. PICK i \in positions \cap DOMAIN seq : x = seq[i]
    OBVIOUS
  <2> HIDE DEF kept
  <2> QED
    BY <1>1, <1>3, <2>1, FlattenSeqMembers
<1>5. FlattenSeq(seqs) \in Seq(kept)
  <2> HIDE DEF kept
  <2> QED
    BY <1>1, FlattenSeqMembers
<1>6. kept \subseteq S
  OBVIOUS
<1> HIDE DEF kept
<1> QED
  BY <1>2, <1>4, <1>5, <1>6, SeqMonotonic DEF kept, ToSet

-----------------------------------------------------------------------------
(* What a commit leaves in the zone.                                       *)

LEMMA SerialKeepsRecords ==
  ASSUME NEW seq \in Seq(Records), NEW apex, NEW n \in Nat
  PROVE  SetApexSerial(seq, apex, n) \in Seq(Records)
<1>1. Len(seq) \in Nat /\ DOMAIN seq = 1 .. Len(seq)
  OBVIOUS
<1>2. ASSUME NEW i \in 1 .. Len(seq) PROVE [seq[i] EXCEPT !.num = n] \in Records /\ seq[i] \in Records
  <2>1. PICK rr \in Records : rr = seq[i]
    BY <1>1
  <2>2. [rr EXCEPT !.num = n] \in Records
    BY DEF Records, RRs
  <2> QED
    BY <2>1, <2>2
<1> QED
  BY <1>1, <1>2 DEF SetApexSerial

\* The records that no operation deletes stay, those that are added come, and
\* nothing else.
LEMMA CommitContents ==
  ASSUME NEW seq \in Seq(Records), NEW apex, NEW ops \in Seq(Operations), NEW serial \in SUBSET Nat
  PROVE  /\ Commit(seq, apex, ops, serial) \in Seq(Records)
         /\ serial = {} =>
              ToSet(Commit(seq, apex, ops, serial)) =
                {rr \in ToSet(seq) : \A j \in DOMAIN ops : ~Deletes(ops[j], rr)}
                  \cup {ops[j].rr : j \in {i \in DOMAIN ops : ops[i].op = "add"}}
<1> DEFINE rrOf  == [i \in DOMAIN ops |-> ops[i].rr]
           stay  == {i \in DOMAIN seq : \A j \in DOMAIN ops : ~Deletes(ops[j], seq[i])}
           come  == {i \in DOMAIN ops : ops[i].op = "add"}
           kept  == ElementsAt(seq, stay)
           adds  == ElementsAt(rrOf, come)
           Kept  == {seq[i] : i \in stay \cap DOMAIN seq}
           Adds  == {rrOf[i] : i \in come \cap DOMAIN rrOf}
<1>1. rrOf \in Seq(Records)
  <2>1. Len(ops) \in Nat /\ DOMAIN ops = 1 .. Len(ops)
    OBVIOUS
  <2>2. ASSUME NEW i \in 1 .. Len(ops) PROVE ops[i].rr \in Records
    <3>1. ops[i] \in Operations
      BY <2>1
    <3> QED
      BY <3>1 DEF Operations
  <2> QED
    BY <2>1, <2>2
<1>2. kept \in Seq(Records) /\ ToSet(kept) = Kept
  <2> HIDE DEF stay
  <2> QED
    BY ElementsKept
<1>3. adds \in Seq(Records) /\ ToSet(adds) = Adds
  <2> HIDE DEF rrOf, come
  <2> QED
    BY <1>1, ElementsKept
<1>5. Commit(seq, apex, ops, serial) =
        IF serial = {} THEN kept \o adds
        ELSE SetApexSerial(kept \o adds, apex, CHOOSE s \in serial : TRUE)
  BY DEF Commit
<1>6. Kept = {rr \in ToSet(seq) : \A j \in DOMAIN ops : ~Deletes(ops[j], rr)}
  BY DEF ToSet
<1>7. Adds = {ops[j].rr : j \in {i \in DOMAIN ops : ops[i].op = "add"}}
  OBVIOUS
<1> HIDE DEF kept, adds, Kept, Adds
<1>8. kept \o adds \in Seq(Records) /\ kept \in Seq(Records) /\ adds \in Seq(Records)
  BY <1>2, <1>3, ConcatProperties
<1>9. ToSet(kept \o adds) = Kept \cup Adds
  <2>2. /\ Len(kept) \in Nat /\ Len(adds) \in Nat
        /\ DOMAIN kept = 1 .. Len(kept) /\ DOMAIN adds = 1 .. Len(adds)
        /\ DOMAIN (kept \o adds) = 1 .. Len(kept) + Len(adds)
        /\ \A i \in 1 .. Len(kept) + Len(adds) :
             (kept \o adds)[i] = IF i <= Len(kept) THEN kept[i] ELSE adds[i - Len(kept)]
    BY <1>8, ConcatProperties, LenProperties
  <2> DEFINE all == kept \o adds
  <2> HIDE DEF all
  <2>3. ASSUME NEW i \in DOMAIN all PROVE all[i] \in ToSet(kept) \cup ToSet(adds)
    <3>1. i \in 1 .. Len(kept) + Len(adds)
      BY <2>2 DEF all
    <3>2. CASE i <= Len(kept)
      <4>1. i \in DOMAIN kept /\ all[i] = kept[i]
        BY <2>2, <3>1, <3>2 DEF all
      <4> QED
        BY <4>1 DEF ToSet
    <3>3. CASE ~(i <= Len(kept))
      <4>1. i - Len(kept) \in DOMAIN adds /\ all[i] = adds[i - Len(kept)]
        BY <2>2, <3>1, <3>3 DEF all
      <4> QED
        BY <4>1 DEF ToSet
    <3> QED
      BY <3>2, <3>3
  <2>4. ASSUME NEW i \in DOMAIN kept PROVE kept[i] \in ToSet(all)
    <3>1. i \in DOMAIN all /\ all[i] = kept[i]
      BY <2>2 DEF all
    <3> QED
      BY <3>1 DEF ToSet
  <2>5. ASSUME NEW i \in DOMAIN adds PROVE adds[i] \in ToSet(all)
    <3>1. Len(kept) + i \in DOMAIN all /\ all[Len(kept) + i] = adds[i]
      BY <2>2 DEF all
    <3> QED
      BY <3>1 DEF ToSet
  <2>6. ToSet(all) = ToSet(kept) \cup ToSet(adds)
    BY <2>3, <2>4, <2>5 DEF ToSet
  <2> QED
    BY <1>2, <1>3, <2>6 DEF all
<1>10. CASE serial = {}
  BY <1>5, <1>6, <1>7, <1>8, <1>9, <1>10
<1>11. CASE serial # {}
  <2>1. (CHOOSE s \in serial : TRUE) \in Nat
    BY <1>11
  <2> QED
    BY <1>5, <1>8, <1>11, <2>1, SerialKeepsRecords
<1> QED
  BY <1>10, <1>11

-----------------------------------------------------------------------------
(* An answer and its messages.                                             *)

Prefix(answer, m) == SubSeq(answer, 1, m)

\* A transfer is empty, or the SOA comes first and last and nowhere between.
Framed(answer) ==
  /\ answer \in Seq(Records)
  /\ answer # << >> =>
       /\ Len(answer) >= 2 /\ answer[1].type = "SOA" /\ answer[Len(answer)].type = "SOA"
       /\ \A i \in 2 .. Len(answer) - 1 : answer[i].type # "SOA"

\* The messages are what is left of the answer after its first m records.
Splits(messages, answer, m) ==
  \E c \in [0 .. Len(messages) -> 0 .. Len(answer)] :
    /\ c[0] = m /\ c[Len(messages)] = Len(answer)
    /\ \A i \in 1 .. Len(messages) :
         c[i - 1] <= c[i] /\ messages[i] = SubSeq(answer, c[i - 1] + 1, c[i])

LEMMA PrefixElements ==
  ASSUME NEW answer \in Seq(Records), NEW m \in 0 .. Len(answer)
  PROVE  /\ Prefix(answer, m) \in Seq(Records) /\ Len(Prefix(answer, m)) = m
         /\ \A i \in 1 .. m : Prefix(answer, m)[i] = answer[i]
BY DEF Prefix

LEMMA AxfrFramed ==
  ASSUME NEW db, NEW z, ListZone(db, z) \in Seq(Records)
  PROVE  Framed(Axfr(db, z))
<1> DEFINE records == ListZone(db, z)
           soas == OfType(records, TRUE)
           rest == OfType(records, FALSE)
           answer == Axfr(db, z)
<1>1. soas \in Seq(Records) /\ \A x \in ToSet(soas) : x.type = "SOA"
  <2> DEFINE P == {i \in DOMAIN records : (records[i].type = "SOA") = TRUE}
  <2>1. soas = ElementsAt(records, P)
    BY DEF OfType
  <2>2. \A i \in P : records[i].type = "SOA"
    OBVIOUS
  <2> HIDE DEF P, records, soas
  <2>3. records \in Seq(Records)
    BY DEF records
  <2>4. soas \in Seq(Records) /\ ToSet(soas) = {records[i] : i \in P \cap DOMAIN records}
    BY <2>1, <2>3, ElementsKept
  <2> QED
    BY <2>2, <2>4
<1>2. rest \in Seq(Records) /\ \A x \in ToSet(rest) : x.type # "SOA"
  <2> DEFINE P == {i \in DOMAIN records : (records[i].type = "SOA") = FALSE}
  <2>1. rest = ElementsAt(records, P)
    BY DEF OfType
  <2>2. \A i \in P : records[i].type # "SOA"
    OBVIOUS
  <2> HIDE DEF P, records, rest
  <2>3. records \in Seq(Records)
    BY DEF records
  <2>4. rest \in Seq(Records) /\ ToSet(rest) = {records[i] : i \in P \cap DOMAIN records}
    BY <2>1, <2>3, ElementsKept
  <2> QED
    BY <2>2, <2>4
<1>3. answer = IF soas = << >> THEN << >> ELSE <<Last(soas)>> \o rest \o <<Last(soas)>>
  BY DEF Axfr
<1> HIDE DEF records, soas, rest, answer
<1>4. CASE soas = << >>
  BY <1>3, <1>4, EmptySeq DEF Framed, answer
<1>5. CASE soas # << >>
  <2>1. PICK soa \in Records : soa = Last(soas) /\ soa.type = "SOA"
    <3>1. Len(soas) \in DOMAIN soas /\ Last(soas) = soas[Len(soas)]
      BY <1>1, <1>5 DEF Last
    <3> QED
      BY <1>1, <3>1 DEF ToSet
  <2>2. answer = <<soa>> \o rest \o <<soa>>
    BY <1>3, <1>5, <2>1
  <2>3. \A i \in 1 .. Len(rest) : rest[i].type # "SOA"
    BY <1>2 DEF ToSet
  <2>4. Len(rest) \in Nat /\ answer \in Seq(Records) /\ Len(answer) = Len(rest) + 2
    BY <1>2, <2>2
  <2>5. /\ answer[1] = soa /\ answer[Len(rest) + 2] = soa
        /\ \A i \in 2 .. Len(rest) + 1 : answer[i] = rest[i - 1]
    BY <1>2, <2>2
  <2>6. \A i \in 2 .. Len(answer) - 1 : answer[i].type # "SOA"
    <3> TAKE i \in 2 .. Len(answer) - 1
    <3>1. i \in 2 .. Len(rest) + 1 /\ i - 1 \in 1 .. Len(rest)
      BY <2>4
    <3> QED
      BY <2>3, <2>5, <3>1
  <2> QED
    BY <2>1, <2>4, <2>5, <2>6 DEF Framed, answer
<1> QED
  BY <1>4, <1>5

\* The last message of n records is the last that is needed.
LEMMA LastMessage ==
  ASSUME NEW len \in Nat \ {0}, NEW n \in Nat \ {0}
  PROVE  LET k == (len + n - 1) \div n
         IN  /\ k \in Nat \ {0} /\ k * n >= len
             /\ \A i \in 1 .. k : (i - 1) * n <= len /\ (i - 1) * n + n = i * n
<1> DEFINE k == (len + n - 1) \div n
           r == (len + n - 1) % n
<1>1. k \in Int /\ r \in 0 .. n - 1 /\ len + n - 1 = n * k + r
  OBVIOUS
<1> HIDE DEF k, r
<1>2. n * k >= len
  BY <1>1
<1>3. k \in Nat \ {0}
  <2>1. ASSUME k <= 0 PROVE n * k <= 0
    BY <1>1, <2>1
  <2> QED
    BY <1>1, <1>2, <2>1
<1>4. ASSUME NEW i \in 1 .. k PROVE (i - 1) * n <= len /\ (i - 1) * n + n = i * n
  <2>1. (i - 1) * n + n = i * n /\ i * n = n * i
    OBVIOUS
  <2>2. n * i <= n * k
    BY <1>1
  <2>3. n * i \in Int /\ n * k \in Int /\ (i - 1) * n \in Int
    BY <1>1
  <2> DEFINE x == n * i
             y == n * k
             w == (i - 1) * n
  <2>4. x \in Int /\ y \in Int /\ w \in Int /\ w + n = x /\ x <= y /\ len + n - 1 = y + r
    BY <1>1, <2>1, <2>2, <2>3
  <2> HIDE DEF x, y, w
  <2>5. w <= len
    BY <1>1, <2>4
  <2> QED
    BY <2>1, <2>5 DEF w
<1>5. k * n = n * k
  BY <1>1
<1> QED
  BY <1>2, <1>3, <1>4, <1>5 DEF k

LEMMA MessagesSplit ==
  ASSUME NEW answer \in Seq(Records), NEW n \in Nat
  PROVE  Messages(answer, n) \in Seq(Seq(Records)) /\ Splits(Messages(answer, n), answer, 0)
<1>0. Len(answer) \in Nat
  OBVIOUS
<1>1. CASE n = 0 \/ answer = << >>
  <2>1. Messages(answer, n) = <<answer>>
    BY <1>1 DEF Messages
  <2> DEFINE c == [i \in 0 .. 1 |-> IF i = 0 THEN 0 ELSE Len(answer)]
  <2>2. c \in [0 .. 1 -> 0 .. Len(answer)] /\ c[0] = 0 /\ c[1] = Len(answer)
    OBVIOUS
  <2>3. answer = SubSeq(answer, 1, Len(answer))
    OBVIOUS
  <2> HIDE DEF c
  <2>4. \A i \in 1 .. 1 : c[i - 1] <= c[i] /\ <<answer>>[i] = SubSeq(answer, c[i - 1] + 1, c[i])
    BY <2>2, <2>3
  <2>5. Len(<<answer>>) = 1 /\ <<answer>> \in Seq(Seq(Records))
    OBVIOUS
  <2> QED
    BY <2>1, <2>2, <2>4, <2>5 DEF Splits
<1>2. CASE n # 0 /\ answer # << >>
  <2> DEFINE len == Len(answer)
             k == (len + n - 1) \div n
             c == [i \in 0 .. k |-> IF i * n > len THEN len ELSE i * n]
             messages == Messages(answer, n)
  <2>1. len \in Nat \ {0} /\ n \in Nat \ {0}
    BY <1>2
  <2>2. messages = [i \in 1 .. k |-> SubSeq(answer, (i - 1) * n + 1, IF i * n > len THEN len ELSE i * n)]
    BY <1>2 DEF Messages
  <2> HIDE DEF len, messages
  <2>3. /\ k \in Nat \ {0} /\ k * n >= len
        /\ \A i \in 1 .. k : (i - 1) * n <= len /\ (i - 1) * n + n = i * n
    BY <2>1, LastMessage
  <2> HIDE DEF k
  <2>4. \A i \in 0 .. k : i * n \in Nat /\ c[i] = IF i * n > len THEN len ELSE i * n
    BY <2>1, <2>3
  <2>5. c \in [0 .. k -> 0 .. len] /\ c[0] = 0 /\ c[k] = len
    <3>1. \A i \in 0 .. k : (IF i * n > len THEN len ELSE i * n) \in 0 .. len
      BY <2>1, <2>4
    <3>2. 0 \in 0 .. k /\ k \in 0 .. k /\ 0 * n = 0
      BY <2>1, <2>3
    <3>3. c[0] = 0
      BY <2>1, <2>4, <3>2
    <3>4. c[k] = len
      BY <2>1, <2>3, <2>4, <3>2
    <3> QED
      BY <3>1, <3>3, <3>4
  <2> HIDE DEF c
  <2>6. ASSUME NEW i \in 1 .. k
        PROVE  /\ c[i - 1] <= c[i]
               /\ messages[i] = SubSeq(answer, c[i - 1] + 1, c[i])
               /\ messages[i] \in Seq(Records)
    <3>1. i \in 0 .. k /\ i - 1 \in 0 .. k
      BY <2>3
    <3>2. c[i - 1] = (i - 1) * n
      BY <2>3, <2>4, <3>1, <2>1
    <3>3. c[i] = IF i * n > len THEN len ELSE i * n
      BY <2>4, <3>1
    <3>4. messages[i] = SubSeq(answer, c[i - 1] + 1, c[i])
      BY <2>2, <3>2, <3>3
    <3>5. c[i - 1] \in 0 .. len /\ c[i] \in 0 .. len
      BY <2>5, <3>1
    <3>6. c[i - 1] <= c[i]
      <4> DEFINE x == i * n
                 y == (i - 1) * n
      <4>1. x \in Nat /\ y \in Nat /\ y + n = x /\ y <= len
        BY <2>3, <2>4, <3>1
      <4>2. c[i - 1] = y /\ c[i] = IF x > len THEN len ELSE x
        BY <3>2, <3>3
      <4> HIDE DEF x, y
      <4> QED
        BY <2>1, <4>1, <4>2
    <3>7. messages[i] \in Seq(Records)
      BY <3>4, <3>5 DEF len
    <3> QED
      BY <3>4, <3>6, <3>7
  <2>7. Len(messages) = k /\ messages \in Seq(Seq(Records))
    <3>1. messages = [i \in 1 .. k |-> messages[i]]
      BY <2>2
    <3>2. messages \in Seq(Seq(Records))
      <4>1. PICK S : S = Seq(Records)
        OBVIOUS
      <4>2. k \in Nat /\ \A i \in 1 .. k : messages[i] \in S
        BY <2>3, <2>6, <4>1
      <4>3. messages \in [1 .. k -> S]
        BY <3>1, <4>2
      <4>4. messages \in Seq(S)
        BY <4>2, <4>3
      <4> QED
        BY <4>1, <4>4
    <3> QED
      BY <2>3, <3>1, <3>2
  <2> QED
    BY <2>5, <2>6, <2>7 DEF Splits, len, messages
<1> QED
  BY <1>1, <1>2

LEMMA NoneLeft ==
  ASSUME NEW answer, NEW m, Splits(<< >>, answer, m)
  PROVE  m = Len(answer)
BY DEF Splits

LEMMA NextMessage ==
  ASSUME NEW answer \in Seq(Records), NEW m \in 0 .. Len(answer),
         NEW messages \in Seq(Seq(Records)), messages # << >>, Splits(messages, answer, m)
  PROVE  \E l \in 0 .. Len(answer) :
           /\ Prefix(answer, m) \o Head(messages) = Prefix(answer, l)
           /\ Splits(Tail(messages), answer, l)
<1> DEFINE n == Len(messages)
<1>1. PICK c \in [0 .. n -> 0 .. Len(answer)] :
        /\ c[0] = m /\ c[n] = Len(answer)
        /\ \A i \in 1 .. n : c[i - 1] <= c[i] /\ messages[i] = SubSeq(answer, c[i - 1] + 1, c[i])
  BY DEF Splits
<1>2. n \in Nat \ {0} /\ Head(messages) = messages[1] /\ 1 \in 1 .. n
      /\ Len(Tail(messages)) = n - 1 /\ \A i \in 1 .. n - 1 : Tail(messages)[i] = messages[i + 1]
  OBVIOUS
<1> HIDE DEF n
<1>3. c[1] \in 0 .. Len(answer) /\ m <= c[1] /\ Head(messages) = SubSeq(answer, m + 1, c[1])
  <2>1. c[1 - 1] <= c[1] /\ messages[1] = SubSeq(answer, c[1 - 1] + 1, c[1])
    BY <1>1, <1>2
  <2>2. 1 - 1 = 0 /\ c[1] \in 0 .. Len(answer)
    BY <1>1, <1>2
  <2> QED
    BY <1>1, <1>2, <2>1, <2>2
<1>4. Prefix(answer, m) \o Head(messages) = Prefix(answer, c[1])
  <2> DEFINE l == c[1]
  <2>1. l \in 0 .. Len(answer) /\ m <= l /\ Len(answer) \in Nat
    BY <1>3
  <2>2. Head(messages) = SubSeq(answer, m + 1, l)
    BY <1>3
  <2> HIDE DEF l
  <2>3. SubSeq(answer, 1, m) \o SubSeq(answer, m + 1, l) = SubSeq(answer, 1, l)
    BY <2>1
  <2> QED
    BY <2>2, <2>3 DEF Prefix, l
<1>5. Splits(Tail(messages), answer, c[1])
  <2> DEFINE d == [i \in 0 .. n - 1 |-> c[i + 1]]
  <2>1. \A i \in 0 .. n - 1 : i + 1 \in 0 .. n
    BY <1>2
  <2>2. d \in [0 .. n - 1 -> 0 .. Len(answer)]
    BY <1>1, <2>1
  <2>3. 0 \in 0 .. n - 1 /\ n - 1 \in 0 .. n - 1 /\ (n - 1) + 1 = n
    BY <1>2
  <2>4. d[0] = c[1] /\ d[n - 1] = Len(answer)
    BY <1>1, <2>3
  <2>5. ASSUME NEW i \in 1 .. n - 1
        PROVE  d[i - 1] <= d[i] /\ Tail(messages)[i] = SubSeq(answer, d[i - 1] + 1, d[i])
    <3>1. i + 1 \in 1 .. n /\ (i + 1) - 1 = i /\ i \in 0 .. n - 1 /\ i - 1 \in 0 .. n - 1 /\ (i - 1) + 1 = i
      BY <1>2
    <3>2. d[i] = c[i + 1] /\ d[i - 1] = c[i]
      BY <3>1
    <3> HIDE DEF d
    <3> QED
      BY <1>1, <1>2, <3>1, <3>2
  <2> HIDE DEF d
  <2> QED
    BY <1>2, <2>2, <2>4, <2>5 DEF Splits
<1> QED
  BY <1>3, <1>4, <1>5

\* The loop over the messages stops in the right place.
LEMMA CompleteIsWhole ==
  ASSUME NEW answer, Framed(answer), NEW m \in 0 .. Len(answer), Complete(Prefix(answer, m))
  PROVE  m = Len(answer)
<1>1. answer \in Seq(Records)
  BY DEF Framed
<1>2. Len(Prefix(answer, m)) = m /\ \A i \in 1 .. m : Prefix(answer, m)[i] = answer[i]
  BY <1>1, PrefixElements
<1>3. m >= 2 /\ answer[m].type = "SOA"
  BY <1>2 DEF Complete, Last
<1>4. answer # << >> /\ Len(answer) \in Nat
  BY <1>1, <1>3
<1>5. m \in 2 .. Len(answer) - 1 => FALSE
  BY <1>3, <1>4 DEF Framed
<1> QED
  BY <1>3, <1>4, <1>5

-----------------------------------------------------------------------------
(* What was received is a beginning of one answer.                         *)

ZonesInv ==
  /\ DOMAIN zones = Slaves /\ DOMAIN sent = Slaves /\ todo \subseteq Slaves
  /\ pc \in {"sleep", "next", "asked", "receive", "begin", "commit", "invalidate"}
  /\ pc \notin {"sleep", "next"} => zone \in Slaves
  /\ \A z \in DOMAIN primary : primary[z] \in Zone
  /\ \A z \in Slaves : zones[z] \in Zone
  /\ \A z \in Slaves : \A answer \in sent[z] : Framed(answer)

\* A transfer of k records may be committed: only one that broke off is not whole.
Usable(z, answer, k) == k \in 2 .. Len(answer) /\ (z \notin cut => k = Len(answer))

ReceivedInv ==
  /\ pc = "asked" => rrs = << >>
  /\ pc = "receive" =>
       /\ wire \in Seq(Seq(Records))
       /\ \E answer \in sent[zone] : \E m \in 0 .. Len(answer) :
            rrs = Prefix(answer, m) /\ Splits(wire, answer, m)
  /\ pc \in {"begin", "commit"} => \E answer \in sent[zone] : \E k \in 2 .. Len(answer) :
       Usable(zone, answer, k) /\ rrs = Prefix(answer, k)
  /\ pc = "commit" =>
       existing \in Seq(Records) /\ Contents(zones, zone) \subseteq ToSet(existing) \cup LocalRecords

VersionInv ==
  \A z \in Slaves :
    \/ Pulled(Contents(zones, z)) = Pulled(Contents(InitSecondary, z))
    \/ \E answer \in sent[z] : \E k \in 2 .. Len(answer) :
         Usable(z, answer, k) /\ Pulled(Contents(zones, z)) = Pulled({answer[i] : i \in 1 .. k - 1})

TransferInv == ZonesInv /\ ReceivedInv /\ VersionInv

LEMMA InitTransfer == Init => TransferInv
<1> SUFFICES ASSUME Init PROVE TransferInv
  OBVIOUS
<1>1. ZonesInv
  BY SecondaryAssumption DEF Init, ZonesInv, Slaves
<1>2. ReceivedInv
  BY DEF Init, ReceivedInv
<1>3. VersionInv
  BY DEF Init, VersionInv
<1> QED
  BY <1>1, <1>2, <1>3 DEF TransferInv

\* The steps of the refresh thread and its master before the commit.
LEMMA ReceiveInv ==
  ASSUME TransferInv, WakeUp \/ Connect \/ Answer \/ Receive \/ Closed \/ Broken \/ Begin \/ Invalidate
  PROVE  TransferInv'
<1>0. ZonesInv /\ ReceivedInv /\ VersionInv
  BY DEF TransferInv
<1>1. zones' = zones /\ primary' = primary
  BY DEF WakeUp, Connect, Answer, Receive, Closed, Broken, Begin, Invalidate
<1>a. \A z \in Slaves : Contents(zones, z)' = Contents(zones, z)
  BY <1>1 DEF Contents, ListZone
<1>2. CASE WakeUp \/ Connect \/ Invalidate
  <2>1. ZonesInv' /\ sent' = sent /\ cut' = cut
    BY <1>0, <1>1, <1>2 DEF WakeUp, Connect, Invalidate, ZonesInv, Slaves
  <2>2. ReceivedInv'
    BY <1>0, <1>2 DEF WakeUp, Connect, Invalidate, ReceivedInv
  <2>3. VersionInv'
    BY <1>0, <1>a, <2>1 DEF VersionInv, Usable, Slaves
  <2> QED
    BY <2>1, <2>2, <2>3 DEF TransferInv
<1>3. CASE Answer
  <2>1. pc = "asked" /\ pc' = "receive" /\ zone \in Slaves /\ zone' = zone /\ cut' = cut /\ rrs' = rrs /\ todo' = todo
    BY <1>0, <1>3 DEF Answer, ZonesInv
  <2> DEFINE answer == Axfr(primary, zone)
  <2>2. Framed(answer)
    <3>1. ListZone(primary, zone) \in Seq(Records)
      BY <1>0, EmptySeq DEF ListZone, ZonesInv, Zone
    <3> QED
      BY <3>1, AxfrFramed
  <2>3. PICK n \in Split : wire' = Messages(answer, n) /\ sent' = [sent EXCEPT ![zone] = @ \cup {answer}]
    BY <1>3 DEF Answer
  <2> HIDE DEF answer
  <2>4. answer \in Seq(Records) /\ n \in Nat
    BY <2>2, <2>3, SecondaryAssumption DEF Framed
  <2>5. /\ DOMAIN sent' = Slaves /\ answer \in sent'[zone]
        /\ \A z \in Slaves : sent[z] \subseteq sent'[z] /\ sent'[z] \subseteq sent[z] \cup {answer}
    BY <1>0, <2>1, <2>3 DEF ZonesInv
  <2>6. ZonesInv'
    BY <1>0, <1>1, <2>1, <2>2, <2>5 DEF ZonesInv, Slaves
  <2>7. ReceivedInv'
    <3>1. wire' \in Seq(Seq(Records)) /\ Splits(wire', answer, 0)
      BY <2>3, <2>4, MessagesSplit
    <3>2. 0 \in 0 .. Len(answer) /\ rrs' = Prefix(answer, 0)
      BY <1>0, <2>1, <2>4 DEF ReceivedInv, Prefix
    <3> QED
      BY <2>1, <2>5, <3>1, <3>2 DEF ReceivedInv
  <2>8. VersionInv'
    BY <1>0, <1>a, <2>1, <2>5 DEF VersionInv, Usable, Slaves
  <2> QED
    BY <2>6, <2>7, <2>8 DEF TransferInv
<1>4. CASE Broken /\ pc = "asked"
  <2>1. rrs = << >> /\ rrs' = rrs /\ pc' = "next" /\ sent' = sent /\ cut \subseteq cut' /\ todo' = todo
    BY <1>0, <1>4 DEF Broken, StopReceiving, ReceivedInv, Enough
  <2>2. ZonesInv' /\ ReceivedInv'
    BY <1>0, <1>1, <2>1 DEF ZonesInv, ReceivedInv, Slaves
  <2>3. VersionInv'
    BY <1>0, <1>a, <2>1 DEF VersionInv, Usable, Slaves
  <2> QED
    BY <2>2, <2>3 DEF TransferInv
<1>5. CASE Receive \/ Closed \/ (Broken /\ pc = "receive")
  <2>1. /\ pc = "receive" /\ zone \in Slaves /\ zone' = zone /\ sent' = sent /\ cut \subseteq cut' /\ todo' = todo
    BY <1>0, <1>5 DEF Receive, Closed, Broken, ZonesInv
  <2>a. PICK answer \in sent[zone] : \E m \in 0 .. Len(answer) :
          rrs = Prefix(answer, m) /\ Splits(wire, answer, m)
    BY <1>0, <2>1 DEF ReceivedInv
  <2>2. PICK m \in 0 .. Len(answer) : rrs = Prefix(answer, m) /\ Splits(wire, answer, m)
    BY <2>a
  <2>3. Framed(answer) /\ answer \in Seq(Records) /\ wire \in Seq(Seq(Records)) /\ Len(answer) \in Nat
    <3>1. Framed(answer) /\ wire \in Seq(Seq(Records))
      BY <1>0, <2>1 DEF ZonesInv, ReceivedInv
    <3> QED
      BY <3>1 DEF Framed
  <2>4. ASSUME NEW k \in 0 .. Len(answer), StopReceiving(Prefix(answer, k)),
               zone \notin cut' => k = Len(answer)
        PROVE  ZonesInv' /\ ReceivedInv'
    <3>1. Len(Prefix(answer, k)) = k
      BY <2>3, PrefixElements
    <3>2. pc' = (IF k >= 2 THEN "begin" ELSE "next") /\ rrs' = Prefix(answer, k)
      BY <2>4, <3>1 DEF StopReceiving, Enough
    <3>3. ZonesInv'
      BY <1>0, <1>1, <2>1, <3>2 DEF ZonesInv, Slaves
    <3>4. k >= 2 => k \in 2 .. Len(answer) /\ Usable(zone, answer, k)'
      BY <2>1, <2>4 DEF Usable
    <3>5. ReceivedInv'
      BY <2>1, <2>2, <3>2, <3>4 DEF ReceivedInv
    <3> QED
      BY <3>3, <3>5
  <2>5. ASSUME Receive PROVE ZonesInv' /\ ReceivedInv'
    <3> DEFINE all == rrs \o Head(wire)
    <3>1. wire # << >> /\ \/ StopReceiving(rrs) /\ cut' = cut \cup {zone}
                          \/ Complete(all) /\ StopReceiving(all)
                          \/ rrs' = all /\ wire' = Tail(wire) /\ pc' = pc
      BY <2>5 DEF Receive
    <3>2. PICK l \in 0 .. Len(answer) : all = Prefix(answer, l) /\ Splits(Tail(wire), answer, l)
      BY <2>2, <2>3, <3>1, NextMessage
    <3> HIDE DEF all
    <3>3. CASE StopReceiving(rrs) /\ cut' = cut \cup {zone}
      BY <2>2, <2>4, <3>3
    <3>4. CASE Complete(all) /\ StopReceiving(all)
      <4>1. l = Len(answer)
        BY <2>3, <3>2, <3>4, CompleteIsWhole
      <4> QED
        BY <2>4, <3>2, <3>4, <4>1
    <3>5. CASE rrs' = all /\ wire' = Tail(wire) /\ pc' = pc
      <4>1. Tail(wire) \in Seq(Seq(Records))
        BY <2>3, <3>1
      <4>2. ZonesInv'
        BY <1>0, <1>1, <2>1, <3>5 DEF ZonesInv, Slaves
      <4> QED
        BY <2>1, <2>2, <3>2, <3>5, <4>1, <4>2 DEF ReceivedInv
    <3> QED
      BY <3>1, <3>3, <3>4, <3>5
  <2>6. ASSUME Closed PROVE ZonesInv' /\ ReceivedInv'
    <3>1. wire = << >> /\ StopReceiving(rrs)
      BY <2>6 DEF Closed
    <3>2. m = Len(answer)
      BY <2>2, <3>1, NoneLeft
    <3> QED
      BY <2>2, <2>4, <3>1, <3>2
  <2>7. ASSUME Broken PROVE ZonesInv' /\ ReceivedInv'
    <3>1. StopReceiving(rrs) /\ zone \in cut'
      BY <2>7 DEF Broken
    <3> QED
      BY <2>2, <2>4, <3>1
  <2>8. ZonesInv' /\ ReceivedInv'
    BY <1>5, <2>5, <2>6, <2>7
  <2>9. VersionInv'
    BY <1>0, <1>a, <2>1 DEF VersionInv, Usable, Slaves
  <2> QED
    BY <2>8, <2>9 DEF TransferInv
<1>6. CASE Begin
  <2>1. /\ pc = "begin" /\ pc' = "commit" /\ zone \in Slaves /\ zone' = zone /\ sent' = sent /\ cut' = cut
        /\ todo' = todo /\ rrs' = rrs /\ existing' = ListZone(zones, zone)
    BY <1>0, <1>6 DEF Begin, ZonesInv
  <2>2. ZonesInv'
    BY <1>0, <1>1, <2>1 DEF ZonesInv, Slaves
  <2>3. existing' \in Seq(Records) /\ Contents(zones, zone)' = ToSet(existing')
    BY <1>0, <1>1, <2>1 DEF ZonesInv, Zone, ListZone, Contents
  <2>4. ReceivedInv'
    BY <1>0, <2>1, <2>3 DEF ReceivedInv, Usable
  <2>5. VersionInv'
    BY <1>0, <1>a, <2>1 DEF VersionInv, Usable, Slaves
  <2> QED
    BY <2>2, <2>4, <2>5 DEF TransferInv
<1> QED
  BY <1>2, <1>3, <1>4, <1>5, <1>6 DEF Broken

\* The commit puts what was received in place of what was there at the begin.
LEMMA CommitTransferInv ==
  ASSUME TransferInv, CommitTransfer
  PROVE  TransferInv'
<1>0. ZonesInv /\ ReceivedInv /\ VersionInv
  BY DEF TransferInv
<1>1. /\ pc = "commit" /\ pc' = "invalidate" /\ zone \in Slaves /\ zone' = zone /\ sent' = sent /\ cut' = cut
      /\ todo' = todo /\ primary' = primary
  BY <1>0 DEF CommitTransfer, ZonesInv
<1>a. PICK answer \in sent[zone] : \E k \in 2 .. Len(answer) :
        Usable(zone, answer, k) /\ rrs = Prefix(answer, k)
  BY <1>0, <1>1 DEF ReceivedInv
<1>2. PICK k \in 2 .. Len(answer) : Usable(zone, answer, k) /\ rrs = Prefix(answer, k)
  BY <1>a
<1>3. answer \in Seq(Records) /\ Len(answer) \in Nat /\ k \in 0 .. Len(answer)
  BY <1>0, <1>1, <1>2 DEF ZonesInv, Framed
<1>4. rrs \in Seq(Records) /\ Len(rrs) = k /\ \A i \in 1 .. k : rrs[i] = answer[i]
  BY <1>2, <1>3, PrefixElements
<1>5. existing \in Seq(Records) /\ Contents(zones, zone) \subseteq ToSet(existing) \cup LocalRecords
  BY <1>0, <1>1 DEF ReceivedInv
<1> DEFINE old == zones[zone].rrs
           dels == Deletions(existing)
           adds == Additions(rrs)
           new == Commit(old, zone, dels \o adds, {})
<1>6. dels \in Seq(Operations) /\ Len(dels) = Len(existing) /\ \A i \in 1 .. Len(existing) : dels[i] = DeleteName(existing[i])
  <2>1. Len(existing) \in Nat /\ DOMAIN existing = 1 .. Len(existing)
    BY <1>5
  <2>2. ASSUME NEW i \in 1 .. Len(existing) PROVE DeleteName(existing[i]) \in Operations
    <3>1. existing[i] \in Records
      BY <1>5, <2>1
    <3> QED
      BY <3>1 DEF DeleteName, Operations
  <2> QED
    BY <2>1, <2>2 DEF Deletions
<1>7. adds \in Seq(Operations) /\ Len(adds) = k - 1 /\ \A i \in 1 .. k - 1 : adds[i] = AddRecord(rrs[i])
  <2>1. k \in Nat /\ k >= 2
    BY <1>3
  <2>2. ASSUME NEW i \in 1 .. k - 1 PROVE AddRecord(rrs[i]) \in Operations
    <3>1. rrs[i] \in Records
      BY <1>4, <2>1
    <3> QED
      BY <3>1 DEF AddRecord, Operations
  <2>3. adds = [i \in 1 .. k - 1 |-> AddRecord(rrs[i])]
    BY <1>4 DEF Additions
  <2> QED
    BY <2>1, <2>2, <2>3
<1>8. old \in Seq(Records)
  BY <1>0, <1>1 DEF ZonesInv, Zone
<1>9. zones' = [zones EXCEPT ![zone].rrs = new]
  BY DEF CommitTransfer
<1>10. new \in Seq(Records)
       /\ ToSet(new) = {rr \in ToSet(old) : \A j \in DOMAIN (dels \o adds) : ~Deletes((dels \o adds)[j], rr)}
            \cup {(dels \o adds)[j].rr : j \in {i \in DOMAIN (dels \o adds) : (dels \o adds)[i].op = "add"}}
  <2> HIDE DEF dels, adds, old
  <2>1. dels \o adds \in Seq(Operations)
    BY <1>6, <1>7, ConcatProperties
  <2> QED
    BY <1>8, <2>1, CommitContents
<1> HIDE DEF dels, adds, new
<1> DEFINE ops == dels \o adds
           n == Len(existing)
<1>11. n \in Nat /\ k - 1 \in Nat /\ k - 1 < k
  BY <1>2, <1>3, <1>5
<1>e. DOMAIN ops = 1 .. n + (k - 1) /\ \A j \in 1 .. n + (k - 1) :
        ops[j] = IF j <= n THEN dels[j] ELSE adds[j - n]
  <2>1. /\ Len(dels) \in Nat /\ Len(adds) \in Nat
        /\ DOMAIN (dels \o adds) = 1 .. Len(dels) + Len(adds)
        /\ \A i \in 1 .. Len(dels) + Len(adds) :
             (dels \o adds)[i] = IF i <= Len(dels) THEN dels[i] ELSE adds[i - Len(dels)]
    <3>1. dels \in Seq(Operations) /\ adds \in Seq(Operations)
      BY <1>6, <1>7
    <3> HIDE DEF ops, n
    <3> QED
      BY <3>1, ConcatProperties, LenProperties
  <2>2. Len(dels) = n /\ Len(adds) = k - 1
    BY <1>6, <1>7
  <2> QED
    BY <2>1, <2>2
<1> HIDE DEF ops, n
<1>b. \A i \in 1 .. n : i \in DOMAIN ops /\ ops[i] = DeleteName(existing[i])
  <2> TAKE i \in 1 .. n
  <2>1. i \in 1 .. n + (k - 1) /\ i <= n
    BY <1>11
  <2> QED
    BY <1>6, <1>e, <2>1 DEF n
<1>c. \A i \in 1 .. k - 1 : n + i \in DOMAIN ops /\ ops[n + i] = AddRecord(answer[i])
  <2> TAKE i \in 1 .. k - 1
  <2>1. n + i \in 1 .. n + (k - 1) /\ ~(n + i <= n) /\ (n + i) - n = i /\ i \in 1 .. k
    BY <1>11
  <2> QED
    BY <1>4, <1>7, <1>e, <2>1
<1>d. \A j \in DOMAIN ops : j \in 1 .. n \/ \E i \in 1 .. k - 1 : j = n + i
  <2> TAKE j \in DOMAIN ops
  <2>1. j \in 1 .. n + (k - 1)
    BY <1>e
  <2>2. j \notin 1 .. n => j - n \in 1 .. k - 1 /\ j = n + (j - n)
    BY <1>11, <2>1
  <2> QED
    BY <2>2
<1>12. ToSet(new) \subseteq LocalRecords \cup {answer[i] : i \in 1 .. k - 1}
  <2> SUFFICES ASSUME NEW rr \in ToSet(new), rr \notin LocalRecords
               PROVE  \E i \in 1 .. k - 1 : rr = answer[i]
    OBVIOUS
  <2>1. CASE rr \in ToSet(old) /\ \A j \in DOMAIN ops : ~Deletes(ops[j], rr)
    <3>1. rr \in ToSet(existing)
      BY <1>1, <1>5, <2>1, <1>0 DEF Contents, ListZone, ZonesInv
    <3>2. PICK i \in 1 .. n : rr = existing[i]
      BY <1>5, <3>1 DEF ToSet, n
    <3>3. i \in DOMAIN ops /\ ops[i] = DeleteName(rr)
      BY <1>b, <3>2
    <3>4. Deletes(DeleteName(rr), rr)
      BY DEF Deletes, DeleteName
    <3> QED
      BY <2>1, <3>3, <3>4
  <2>2. CASE \E j \in DOMAIN ops : ops[j].op = "add" /\ rr = ops[j].rr
    <3>1. PICK j \in DOMAIN ops : ops[j].op = "add" /\ rr = ops[j].rr
      BY <2>2
    <3>2. j \notin 1 .. n
      <4>1. ASSUME j \in 1 .. n PROVE FALSE
        <5>1. ops[j] = DeleteName(existing[j])
          BY <1>b, <4>1
        <5> QED
          BY <3>1, <5>1 DEF DeleteName
      <4> QED
        BY <4>1
    <3>3. PICK i \in 1 .. k - 1 : j = n + i
      BY <1>d, <3>2
    <3>4. ops[j] = AddRecord(answer[i])
      BY <1>c, <3>3
    <3> QED
      BY <3>1, <3>4 DEF AddRecord
  <2> QED
    BY <1>10, <2>1, <2>2 DEF ops
<1>13. {answer[i] : i \in 1 .. k - 1} \subseteq ToSet(new)
  <2> SUFFICES ASSUME NEW i \in 1 .. k - 1 PROVE answer[i] \in ToSet(new)
    OBVIOUS
  <2>1. n + i \in DOMAIN ops /\ ops[n + i].op = "add" /\ ops[n + i].rr = answer[i]
    <3>1. n + i \in DOMAIN ops /\ ops[n + i] = AddRecord(answer[i])
      BY <1>c
    <3> QED
      BY <3>1 DEF AddRecord
  <2> QED
    BY <1>10, <2>1 DEF ops
<1>14. /\ DOMAIN zones' = Slaves /\ zones'[zone] \in Zone /\ zones'[zone].rrs = new
       /\ \A z \in Slaves \ {zone} : zones'[z] = zones[z]
  BY <1>0, <1>1, <1>9, <1>10 DEF ZonesInv, Zone
<1>15. /\ Contents(zones, zone)' = ToSet(new)
       /\ \A z \in Slaves \ {zone} : Contents(zones, z)' = Contents(zones, z)
  BY <1>0, <1>1, <1>14 DEF Contents, ListZone, ZonesInv
<1>16. ZonesInv'
  <2>1. \A z \in Slaves : zones'[z] \in Zone
    BY <1>0, <1>14 DEF ZonesInv
  <2> QED
    BY <1>0, <1>1, <1>14, <2>1 DEF ZonesInv, Slaves
<1>17. ReceivedInv'
  BY <1>1 DEF ReceivedInv
<1>18. VersionInv'
  <2>1. Pulled(Contents(zones, zone)') = Pulled({answer[i] : i \in 1 .. k - 1})
    BY <1>12, <1>13, <1>15 DEF Pulled
  <2>2. Usable(zone, answer, k)'
    BY <1>1, <1>2 DEF Usable
  <2>3. ASSUME NEW z \in Slaves
        PROVE  \/ Pulled(Contents(zones, z)') = Pulled(Contents(InitSecondary, z))
               \/ \E a \in sent'[z] : \E l \in 2 .. Len(a) :
                    Usable(z, a, l)' /\ Pulled(Contents(zones, z)') = Pulled({a[i] : i \in 1 .. l - 1})
    <3>1. CASE z = zone
      BY <1>1, <1>2, <2>1, <2>2, <3>1
    <3>2. CASE z # zone
      BY <1>0, <1>1, <1>15, <3>2 DEF VersionInv, Usable
    <3> QED
      BY <3>1, <3>2
  <2> QED
    BY <2>3 DEF VersionInv, Slaves
<1> QED
  BY <1>16, <1>17, <1>18 DEF TransferInv

LEMMA WriteInv ==
  ASSUME TransferInv, Write
  PROVE  TransferInv'
<1>1. PICK u \in Updates : /\ u.zone \in DOMAIN primary
                           /\ primary' = [primary EXCEPT ![u.zone].rrs = Commit(@, u.zone, u.ops, u.serial)]
  BY DEF Write
<1>2. UNCHANGED <<zones, pc, todo, zone, wire, rrs, existing, sent, cut>>
  BY DEF Write, refresh
<1>3. ZonesInv /\ ReceivedInv /\ VersionInv
  BY DEF TransferInv
<1>4. \A z \in DOMAIN primary' : primary'[z] \in Zone
  <2> DEFINE new == Commit(primary[u.zone].rrs, u.zone, u.ops, u.serial)
  <2>1. u.ops \in Seq(Operations) /\ u.serial \in SUBSET Nat
    BY SecondaryAssumption
  <2>2. primary[u.zone].rrs \in Seq(Records)
    BY <1>1, <1>3 DEF ZonesInv, Zone
  <2>3. new \in Seq(Records)
    BY <2>1, <2>2, CommitContents
  <2> HIDE DEF new
  <2>4. primary' = [primary EXCEPT ![u.zone].rrs = new]
    BY <1>1 DEF new
  <2>5. DOMAIN primary' = DOMAIN primary /\ primary'[u.zone] = [primary[u.zone] EXCEPT !.rrs = new]
        /\ \A z \in DOMAIN primary \ {u.zone} : primary'[z] = primary[z]
    BY <1>1, <2>4
  <2>6. [primary[u.zone] EXCEPT !.rrs = new] \in Zone
    BY <1>1, <1>3, <2>3 DEF ZonesInv, Zone
  <2> QED
    BY <1>3, <2>5, <2>6 DEF ZonesInv
<1>5. ZonesInv'
  BY <1>2, <1>3, <1>4 DEF ZonesInv, Slaves
<1>6. ReceivedInv'
  BY <1>2, <1>3 DEF ReceivedInv, Usable, Contents, ListZone
<1>7. VersionInv'
  BY <1>2, <1>3 DEF VersionInv, Usable, Contents, ListZone, Slaves
<1> QED
  BY <1>5, <1>6, <1>7 DEF TransferInv

\* What updates add locally is not counted.
LEMMA LocalInv ==
  ASSUME TransferInv, WriteLocally
  PROVE  TransferInv'
<1>0. ZonesInv /\ ReceivedInv /\ VersionInv
  BY DEF TransferInv
<1>1. PICK y \in Slaves, rr \in LocalRecords :
        zones' = [zones EXCEPT ![y].rrs = Commit(@, y, <<AddRecord(rr)>>, {})]
  BY DEF WriteLocally
<1>2. UNCHANGED <<primary, pc, todo, zone, wire, rrs, existing, sent, cut>>
  BY DEF WriteLocally, refresh
<1> DEFINE old == zones[y].rrs
           ops == <<AddRecord(rr)>>
           new == Commit(old, y, ops, {})
<1>3. ops \in Seq(Operations) /\ DOMAIN ops = {1} /\ ops[1] = AddRecord(rr)
  <2>1. AddRecord(rr) \in Operations
    BY SecondaryAssumption DEF AddRecord, Operations
  <2> QED
    BY <2>1
<1>4. old \in Seq(Records)
  BY <1>0 DEF ZonesInv, Zone
<1>5. new \in Seq(Records) /\ ToSet(new) = ToSet(old) \cup {rr}
  <2> HIDE DEF ops, old
  <2>1. /\ new \in Seq(Records)
        /\ ToSet(new) = {x \in ToSet(old) : \A j \in DOMAIN ops : ~Deletes(ops[j], x)}
                          \cup {ops[j].rr : j \in {i \in DOMAIN ops : ops[i].op = "add"}}
    <3>1. ops \in Seq(Operations) /\ old \in Seq(Records) /\ {} \in SUBSET Nat
      BY <1>3, <1>4
    <3> QED
      BY <3>1, CommitContents
  <2>2. \A x : ~Deletes(ops[1], x)
    BY <1>3 DEF Deletes, AddRecord
  <2>3. ops[1].op = "add" /\ ops[1].rr = rr
    BY <1>3 DEF AddRecord
  <2> HIDE DEF new
  <2> QED
    BY <1>3, <2>1, <2>2, <2>3
<1>6. zones' = [zones EXCEPT ![y].rrs = new]
  BY <1>1
<1> HIDE DEF new
<1>7. /\ DOMAIN zones' = Slaves /\ zones'[y] \in Zone /\ zones'[y].rrs = new
      /\ \A z \in Slaves \ {y} : zones'[z] = zones[z]
  BY <1>0, <1>5, <1>6 DEF ZonesInv, Zone
<1>8. /\ Contents(zones, y) = ToSet(old) /\ Contents(zones, y)' = ToSet(new)
      /\ \A z \in Slaves \ {y} : Contents(zones, z)' = Contents(zones, z)
  BY <1>0, <1>7 DEF Contents, ListZone, ZonesInv
<1>9. \A z \in Slaves : /\ Contents(zones, z)' \subseteq Contents(zones, z) \cup LocalRecords
                        /\ Pulled(Contents(zones, z)') = Pulled(Contents(zones, z))
  BY <1>5, <1>8 DEF Pulled
<1>10. ZonesInv'
  <2>1. \A z \in Slaves : zones'[z] \in Zone
    BY <1>0, <1>7 DEF ZonesInv
  <2> QED
    BY <1>0, <1>2, <1>7, <2>1 DEF ZonesInv, Slaves
<1>11. ReceivedInv'
  <2>1. pc = "commit" => Contents(zones, zone)' \subseteq Contents(zones, zone) \cup LocalRecords
    BY <1>0, <1>2, <1>9 DEF ZonesInv
  <2> QED
    BY <1>0, <1>2, <2>1 DEF ReceivedInv, Usable
<1>12. VersionInv'
  BY <1>0, <1>2, <1>9 DEF VersionInv, Usable, Slaves
<1> QED
  BY <1>10, <1>11, <1>12 DEF TransferInv

LEMMA NextTransfer == TransferInv /\ [Next]_vars => TransferInv'
<1> SUFFICES ASSUME TransferInv, [Next]_vars PROVE TransferInv'
  OBVIOUS
<1>1. ASSUME \/ UNCHANGED vars \/ InvalidateLocally
             \/ \E c \in Clients : Put(c) \/ \E z \in Slaves : Ask(c, z)
      PROVE  TransferInv'
  <2>1. UNCHANGED <<primary, zones, pc, todo, zone, wire, rrs, existing, sent, cut>>
    BY <1>1 DEF vars, refresh, InvalidateLocally, Put, Ask
  <2> QED
    BY <2>1 DEF TransferInv, ZonesInv, ReceivedInv, VersionInv, Usable, Contents, ListZone, Slaves
<1> QED
  BY <1>1, ReceiveInv, CommitTransferInv, WriteInv, LocalInv DEF Next, Refresh

\* What the secondary holds of a zone, but for what was added locally, is one
\* version the master sent, or the beginning of one if a transfer broke off:
\* however the messages are cut and updates fall between them
\* (server.cpp:227-255).
THEOREM OneVersionAtATime == Spec => []OneVersion
<1>1. TransferInv => OneVersion
  <2> SUFFICES ASSUME TransferInv, NEW z \in Slaves,
                      Pulled(Contents(zones, z)) # Pulled(Contents(InitSecondary, z))
               PROVE  \E answer \in sent[z] :
                        \E n \in (IF z \in cut THEN 1 .. Len(answer) - 1 ELSE {Len(answer) - 1}) :
                          Pulled(Contents(zones, z)) = Pulled({answer[i] : i \in 1 .. n})
    BY DEF OneVersion
  <2>1. PICK answer \in sent[z] : \E k \in 2 .. Len(answer) :
          Usable(z, answer, k) /\ Pulled(Contents(zones, z)) = Pulled({answer[i] : i \in 1 .. k - 1})
    BY DEF TransferInv, VersionInv
  <2>2. PICK k \in 2 .. Len(answer) :
          Usable(z, answer, k) /\ Pulled(Contents(zones, z)) = Pulled({answer[i] : i \in 1 .. k - 1})
    BY <2>1
  <2>3. Len(answer) \in Nat
    BY DEF TransferInv, ZonesInv, Framed
  <2>4. k - 1 \in (IF z \in cut THEN 1 .. Len(answer) - 1 ELSE {Len(answer) - 1})
    BY <2>2, <2>3 DEF Usable
  <2> QED
    BY <2>2, <2>4
<1> QED
  BY <1>1, InitTransfer, NextTransfer, PTL DEF Spec

=============================================================================
