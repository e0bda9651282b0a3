---------------------------- MODULE EngineProofs -----------------------------
(***************************************************************************)
(* Proofs about Engine for any set of threads, any zones at start, any     *)
(* requests and any size of the cache.                                     *)
(***************************************************************************)
EXTENDS EngineProperties, TLAPS, FiniteSetTheorems, SequenceTheorems, WellFoundedInduction

\* Where a thread can stand.
Labels == {"idle"} \cup ReadPCs \cup WritePCs

\* A step of a write that neither changes a zone nor the cache.
Bookkeeping(t) ==
  \/ t \in Workers /\ ReceiveUpdate(t)
  \/ t = Api /\ ReceiveApi
  \/ Find(t) \/ Begin(t) \/ ReadSoa(t) \/ Notify(t)

\* What such a step does to what the properties below speak of.
OnlyMoves(t) ==
  /\ pc[t] # "invalidate"
  /\ \E label \in Labels \ (ReadPCs \cup {"invalidate"}) : pc' = [pc EXCEPT ![t] = label]
  /\ UNCHANGED <<zones, nextInc, cache, frame, history>>

\* A step that may change a zone, and what it does: the change is either
\* silent or leaves the thread at its invalidation.
Writing(t) == Create(t) \/ Delete(t) \/ CommitTx(t) \/ CommitDangling(t)

\* A changed zone: silent in a writer that goes on without invalidating.
ChangesZones(t) ==
  /\ version' = version + 1
  /\ changedAt' = epoch
  /\ \/ /\ silentAt' = epoch
        /\ \E label \in {"idle", "find"} : pc' = [pc EXCEPT ![t] = label]
     \/ silentAt' = silentAt /\ pc' = [pc EXCEPT ![t] = "invalidate"]

\* A write that found its zone gone, or changed nothing.
LeavesZones(t) ==
  /\ UNCHANGED <<zones, version, changedAt, silentAt>>
  /\ \/ \E label \in {"idle", "find", "invalidate"} : pc' = [pc EXCEPT ![t] = label]
     \/ UNCHANGED pc

-----------------------------------------------------------------------------
(* The steps of the writers, reduced to their effect.                      *)

\* Requests, findZone, begin, the SOA read and NOTIFY only move a thread on.
LEMMA BookkeepingMoves ==
  ASSUME NEW t \in Threads, Bookkeeping(t)
  PROVE  OnlyMoves(t)
<1> USE DEF OnlyMoves, Goto, Labels, ReadPCs, WritePCs, BeginWrite, Reply
<1>1. CASE t \in Workers /\ ReceiveUpdate(t)
  BY <1>1 DEF ReceiveUpdate
<1>2. CASE t = Api /\ ReceiveApi
  BY <1>2 DEF ReceiveApi
<1>3. CASE Find(t)
  BY <1>3 DEF Find
<1>4. CASE Begin(t)
  BY <1>4 DEF Begin
<1>5. CASE ReadSoa(t)
  BY <1>5 DEF ReadSoa
<1>6. CASE Notify(t)
  BY <1>6 DEF Notify
<1> QED
  BY <1>1, <1>2, <1>3, <1>4, <1>5, <1>6 DEF Bookkeeping

\* createZone, deleteZone and commit change the zones, if they do, in one of
\* the two ways ChangesZones names, and never touch the cache.
LEMMA WritingChanges ==
  ASSUME NEW t \in Threads, Writing(t), nextInc \in Nat
  PROVE  /\ pc[t] # "invalidate"
         /\ nextInc' \in Nat
         /\ UNCHANGED <<cache, frame, epoch, seen>>
         /\ ChangesZones(t) \/ LeavesZones(t)
<1> USE DEF ChangesZones, LeavesZones, Goto, Reply, Changed
<1>1. CASE Create(t)
  BY <1>1 DEF Create
<1>2. CASE Delete(t)
  BY <1>2 DEF Delete
<1>3. CASE CommitTx(t)
  BY <1>3 DEF CommitTx, CommitTo, AfterCommit
<1>4. CASE CommitDangling(t)
  <2>1. /\ pc[t] # "invalidate"
        /\ UNCHANGED <<nextInc, cache, frame, epoch, seen>>
    BY <1>4 DEF CommitDangling
  <2>2. CASE UNCHANGED <<zones, version, changedAt, silentAt>> /\ AfterCommit(t)
    BY <2>1, <2>2 DEF AfterCommit
  <2>3. ASSUME NEW zone, CommitTo(t, zone, "stray"), AfterCommit(t) PROVE ChangesZones(t)
    BY <2>3 DEF CommitTo, AfterCommit
  <2>4. CASE UNCHANGED <<zones, version, changedAt, silentAt, pc>>
    BY <2>1, <2>4
  <2> QED
    BY <1>4, <2>1, <2>2, <2>3, <2>4 DEF CommitDangling
<1> QED
  BY <1>1, <1>2, <1>3, <1>4 DEF Writing

\* Next, effect by effect; only a commit through a dangling pointer stops the
\* process.
LEMMA NextCases ==
  ASSUME Next
  PROVE  /\ up' \in {up, FALSE}
         /\ \/ \E w \in Workers : \/ ReceiveQuery(w) \/ CacheHit(w) \/ CacheMiss(w)
                                  \/ AnswerStep(w) \/ CachePut(w)
            \/ \E t \in Threads : Bookkeeping(t) \/ Writing(t) \/ Invalidate(t)
<1>1. CASE Accept
  BY <1>1 DEF Accept, Bookkeeping, Threads
<1>2. ASSUME NEW t \in Threads, t \in Workers, ReadStep(t), UNCHANGED up
      PROVE  \E w \in Workers : CacheHit(w) \/ CacheMiss(w) \/ AnswerStep(w) \/ CachePut(w)
  BY <1>2 DEF ReadStep
<1>3. ASSUME NEW t \in Threads, WriteStep(t), UNCHANGED up
      PROVE  Bookkeeping(t) \/ Writing(t) \/ Invalidate(t)
  BY <1>3 DEF WriteStep, Bookkeeping, Writing
<1>4. ASSUME NEW t \in Threads, CommitTx(t) PROVE Writing(t) /\ UNCHANGED up
  BY <1>4 DEF CommitTx, Writing
<1>5. ASSUME NEW t \in Threads, CommitDangling(t) PROVE Writing(t) /\ up' \in {up, FALSE}
  BY <1>5 DEF CommitDangling, Writing
<1> QED
  BY <1>1, <1>2, <1>3, <1>4, <1>5 DEF Next, Serve

-----------------------------------------------------------------------------
(* Type correctness.                                                       *)

\* At start every thread is idle and the cache is empty.
LEMMA InitTypeOK == Init => TypeOK
<1> SUFFICES ASSUME Init PROVE TypeOK
  OBVIOUS
<1>1. nextInc \in Nat
  BY FS_CardinalityType, EngineAssumption DEF Init
<1>2. pc \in [Threads -> {"idle"} \cup ReadPCs \cup WritePCs]
  BY DEF Init
<1>3. DOMAIN cache = {}
  BY DEF Init
<1> QED
  BY <1>1, <1>2, <1>3 DEF Init, TypeOK, NotSeen, Threads

\* Every step keeps control, the history and the cache well formed.
LEMMA NextTypeOK == TypeOK /\ [Next]_vars => TypeOK'
<1> SUFFICES ASSUME TypeOK, [Next]_vars PROVE TypeOK'
  OBVIOUS
<1> USE DEF TypeOK
<1>up. up' \in BOOLEAN
  BY NextCases DEF vars, serverVars
<1>1. ASSUME NEW w \in Workers, ReceiveQuery(w) PROVE TypeOK'
  BY <1>1, <1>up DEF ReceiveQuery, Goto, ReadPCs, Threads
<1>2. ASSUME NEW w \in Workers, CacheHit(w) PROVE TypeOK'
  BY <1>2, <1>up DEF CacheHit, Respond, NotSeen, Goto, Threads
<1>3. ASSUME NEW w \in Workers, CacheMiss(w) PROVE TypeOK'
  BY <1>3, <1>up DEF CacheMiss, Goto, ReadPCs, Threads, history
<1>4. ASSUME NEW w \in Workers, AnswerStep(w) PROVE TypeOK'
  <2>1. UNCHANGED <<nextInc, cache, epoch, version, changedAt, silentAt>>
    BY <1>4 DEF AnswerStep
  <2>2. CASE Respond(w)
    BY <2>1, <2>2, <1>up DEF Respond, NotSeen, Goto, Threads
  <2>3. ASSUME NEW f,
               f.at # "done" \/ Cacheable(f.resp),
               frame' = [frame EXCEPT ![w] = f],
               seen' = [seen EXCEPT ![w] = [since |-> @.since,
                                            versions |-> @.versions \cup {version}]],
               Goto(w, IF f.at = "done" THEN "put" ELSE "answer")
        PROVE  TypeOK'
    <3>1. seen' \in [Workers -> [since : Nat, versions : SUBSET Nat]]
      BY <2>3
    <3>2. \A v \in Workers : seen'[v].since \in 0 .. epoch /\ seen'[v].versions \subseteq 0 .. version
      BY <2>3
    <3>3. pc' \in [Threads -> {"idle"} \cup ReadPCs \cup WritePCs]
      BY <2>3 DEF Goto, ReadPCs
    <3>4. DOMAIN frame' = Workers
      BY <2>3
    <3>5. \A v \in Workers : pc'[v] = "put" =>
            CacheSize > 0 /\ frame'[v].resp.rcode \in {"NOERROR", "NXDOMAIN"}
      <4> TAKE v \in Workers
      <4>1. CASE v = w
        BY <2>3, <4>1 DEF Goto, Threads, Cacheable
      <4>2. CASE v # w
        BY <2>3, <4>2 DEF Goto, Threads
      <4> QED
        BY <4>1, <4>2
    <3> QED
      BY <2>1, <3>1, <3>2, <3>3, <3>4, <3>5, <1>up
  <2> QED
    BY <1>4, <2>2, <2>3 DEF AnswerStep
<1>5. ASSUME NEW w \in Workers, CachePut(w) PROVE TypeOK'
  BY <1>5, <1>up DEF CachePut, Respond, NotSeen, Put, Goto, Threads
<1>6. ASSUME NEW t \in Threads, Bookkeeping(t) PROVE TypeOK'
  <2>1. PICK label \in Labels \ {"put", "invalidate"} : pc' = [pc EXCEPT ![t] = label]
    BY <1>6, BookkeepingMoves DEF OnlyMoves, ReadPCs
  <2>2. UNCHANGED <<nextInc, cache, frame, history>>
    BY <1>6, BookkeepingMoves DEF OnlyMoves, ReadPCs
  <2> QED
    BY <2>1, <2>2, <1>up DEF Labels, Threads, history
<1>7. ASSUME NEW t \in Threads, Writing(t) PROVE TypeOK'
  <2>1. /\ nextInc' \in Nat
        /\ UNCHANGED <<cache, frame, epoch, seen>>
        /\ ChangesZones(t) \/ LeavesZones(t)
    BY <1>7, WritingChanges
  <2>2. /\ pc' \in [Threads -> Labels]
        /\ \A s \in Threads : pc'[s] = "put" => pc[s] = "put"
    <3>1. \/ UNCHANGED pc
          \/ \E label \in Labels \ {"put"} : pc' = [pc EXCEPT ![t] = label]
      BY <2>1 DEF ChangesZones, LeavesZones, Labels, WritePCs, ReadPCs
    <3> QED
      BY <3>1 DEF Labels
  <2>3. /\ version' \in {version, version + 1}
        /\ changedAt' \in 0 .. epoch
        /\ silentAt' \in 0 .. changedAt'
    BY <2>1 DEF ChangesZones, LeavesZones
  <2> QED
    BY <2>1, <2>2, <2>3, <1>up DEF Labels, Threads
<1>8. ASSUME NEW t \in Threads, Invalidate(t) PROVE TypeOK'
  BY <1>8, <1>up DEF Invalidate, Reply, Goto, WritePCs, Threads
<1>9. CASE UNCHANGED vars
  BY <1>9 DEF vars, serverVars, history
<1> QED
  BY <1>1, <1>2, <1>3, <1>4, <1>5, <1>6, <1>7, <1>8, <1>9, NextCases

\* Control, the history and the cache stay well formed: the cache never holds
\* a refusal, nor an entry older than its last invalidation.
THEOREM TypeCorrect == Spec => []TypeOK
  BY InitTypeOK, NextTypeOK, PTL DEF Spec

-----------------------------------------------------------------------------
(* The bound of the cache.                                                 *)

CacheBoundedInv == IsFiniteSet(DOMAIN cache) /\ CacheBounded

\* PacketCache::put keeps the number of entries within a bound that is not 0.
LEMMA PutBounded ==
  ASSUME NEW entries, NEW key, NEW entry, CacheSize \in Nat \ {0},
         IsFiniteSet(DOMAIN entries), Cardinality(DOMAIN entries) <= CacheSize
  PROVE  /\ IsFiniteSet(DOMAIN Put(entries, key, entry))
         /\ Cardinality(DOMAIN Put(entries, key, entry)) <= CacheSize
<1> DEFINE kept == IF Cardinality(DOMAIN entries) >= CacheSize THEN {} ELSE DOMAIN entries
<1>1. DOMAIN Put(entries, key, entry) = kept \cup {key}
  BY DEF Put
<1>2. /\ IsFiniteSet(kept)
      /\ Cardinality(kept) \in Nat
      /\ Cardinality(kept) < CacheSize
  BY FS_EmptySet, FS_CardinalityType
<1>3. /\ IsFiniteSet(kept \cup {key})
      /\ \/ Cardinality(kept \cup {key}) = Cardinality(kept)
         \/ Cardinality(kept \cup {key}) = Cardinality(kept) + 1
  BY <1>2, FS_AddElement
<1> HIDE DEF kept
<1> QED
  BY <1>1, <1>2, <1>3

\* The cache never holds more than cache_size entries.
THEOREM CacheStaysBounded == Spec => []CacheBounded
<1>1. Init => CacheBoundedInv
  <2> SUFFICES ASSUME Init PROVE CacheBoundedInv
    OBVIOUS
  <2>1. DOMAIN cache = {}
    BY DEF Init
  <2> QED
    BY <2>1, FS_EmptySet, EngineAssumption DEF CacheBoundedInv, CacheBounded
<1>2. TypeOK /\ CacheBoundedInv /\ [Next]_vars => CacheBoundedInv'
  <2> SUFFICES ASSUME TypeOK, CacheBoundedInv, [Next]_vars PROVE CacheBoundedInv'
    OBVIOUS
  <2> USE DEF CacheBoundedInv, CacheBounded
  <2>1. ASSUME NEW w \in Workers, CachePut(w) PROVE CacheBoundedInv'
    <3>1. CacheSize \in Nat \ {0}
      BY <2>1, EngineAssumption DEF TypeOK, CachePut
    <3> QED
      BY <2>1, <3>1, PutBounded DEF CachePut
  <2>2. ASSUME NEW w \in Workers, CacheMiss(w) PROVE CacheBoundedInv'
    <3>1. DOMAIN cache' \subseteq DOMAIN cache
      BY <2>2 DEF CacheMiss
    <3> QED
      BY <3>1, FS_Subset, FS_CardinalityType, EngineAssumption
  <2>3. ASSUME NEW t \in Threads, Invalidate(t) PROVE CacheBoundedInv'
    <3>1. DOMAIN cache' = {}
      BY <2>3 DEF Invalidate
    <3> QED
      BY <3>1, FS_EmptySet, EngineAssumption
  <2>4. CASE UNCHANGED cache
    BY <2>4
  <2>5. ASSUME NEW w \in Workers, ReceiveQuery(w) \/ CacheHit(w) \/ AnswerStep(w)
        PROVE  UNCHANGED cache
    BY <2>5 DEF ReceiveQuery, CacheHit, AnswerStep
  <2>6. ASSUME NEW t \in Threads, Bookkeeping(t) \/ Writing(t) PROVE UNCHANGED cache
    BY <2>6, BookkeepingMoves, WritingChanges DEF OnlyMoves, TypeOK
  <2>7. UNCHANGED vars => UNCHANGED cache
    BY DEF vars, serverVars
  <2> QED
    BY <2>1, <2>2, <2>3, <2>4, <2>5, <2>6, <2>7, NextCases
<1>3. CacheBoundedInv => CacheBounded
  BY DEF CacheBoundedInv
<1> QED
  BY <1>1, <1>2, <1>3, TypeCorrect, PTL DEF Spec

-----------------------------------------------------------------------------
(* Coherence of the cache with the zones.                                  *)

\* At start nothing has changed and nothing was read.
LEMMA InitCoherenceInv == Init => CoherenceInv
  BY DEF Init, CoherenceInv, ChangePending, EntriesFresh, ReadsFresh, NotSeen

\* A step that does not invalidate keeps what CoherenceInv says of the queries
\* in progress and of the cache; an invalidation starts them afresh.
LEMMA NextCoherenceInv == TypeOK /\ CoherenceInv /\ [Next]_vars => CoherenceInv'
<1> SUFFICES ASSUME TypeOK, CoherenceInv, [Next]_vars PROVE CoherenceInv'
  OBVIOUS
<1> USE DEF CoherenceInv
<1>1. ASSUME NEW w \in Workers, ReceiveQuery(w) PROVE CoherenceInv'
  <2>1. UNCHANGED <<cache, epoch, version, changedAt, silentAt>>
    BY <1>1 DEF ReceiveQuery
  <2>2. ChangePending'
    BY <1>1, <2>1 DEF TypeOK, ReceiveQuery, Goto, ChangePending, Threads
  <2>3. EntriesFresh'
    BY <2>1 DEF EntriesFresh
  <2>4. ReadsFresh'
    BY <1>1, <2>1 DEF TypeOK, ReceiveQuery, ReadsFresh
  <2> QED
    BY <2>2, <2>3, <2>4
<1>2. ASSUME NEW w \in Workers, CacheHit(w) PROVE CoherenceInv'
  <2>1. UNCHANGED <<cache, epoch, version, changedAt, silentAt>>
    BY <1>2 DEF CacheHit
  <2>2. ChangePending'
    BY <1>2, <2>1 DEF TypeOK, CacheHit, Respond, Goto, ChangePending, Threads
  <2>3. EntriesFresh'
    BY <2>1 DEF EntriesFresh
  <2>4. ReadsFresh'
    BY <1>2, <2>1 DEF TypeOK, CacheHit, Respond, NotSeen, ReadsFresh
  <2> QED
    BY <2>2, <2>3, <2>4
<1>3. ASSUME NEW w \in Workers, CacheMiss(w) PROVE CoherenceInv'
  <2>1. UNCHANGED history
    BY <1>3 DEF CacheMiss
  <2>2. ChangePending'
    BY <1>3, <2>1 DEF TypeOK, CacheMiss, Goto, ChangePending, Threads, history
  <2>3. EntriesFresh'
    BY <1>3, <2>1 DEF CacheMiss, EntriesFresh, history
  <2>4. ReadsFresh'
    BY <2>1 DEF ReadsFresh, history
  <2> QED
    BY <2>2, <2>3, <2>4
<1>4. ASSUME NEW w \in Workers, AnswerStep(w) PROVE CoherenceInv'
  <2>1. UNCHANGED <<cache, epoch, version, changedAt, silentAt>> /\ pc[w] = "answer"
    BY <1>4 DEF AnswerStep
  <2>2. \E label \in {"idle", "put", "answer"} : pc' = [pc EXCEPT ![w] = label]
    BY <1>4 DEF AnswerStep, Respond, Goto
  <2>3. \/ seen' = [seen EXCEPT ![w] = NotSeen]
        \/ seen' = [seen EXCEPT ![w] = [since |-> @.since, versions |-> @.versions \cup {version}]]
    BY <1>4 DEF AnswerStep, Respond
  <2>4. ChangePending'
    BY <2>1, <2>2 DEF TypeOK, ChangePending, Threads
  <2>5. EntriesFresh'
    BY <2>1 DEF EntriesFresh
  <2>6. ReadsFresh'
    <3>1. CASE seen' = [seen EXCEPT ![w] = NotSeen]
      BY <2>1, <3>1 DEF TypeOK, ReadsFresh, NotSeen
    <3>2. CASE seen' = [seen EXCEPT ![w] = [since |-> @.since,
                                            versions |-> @.versions \cup {version}]]
      BY <2>1, <3>2 DEF TypeOK, ReadsFresh
    <3> QED
      BY <2>3, <3>1, <3>2
  <2> QED
    BY <2>4, <2>5, <2>6
<1>5. ASSUME NEW w \in Workers, CachePut(w) PROVE CoherenceInv'
  <2>1. UNCHANGED <<epoch, version, changedAt, silentAt>> /\ pc[w] = "put"
    BY <1>5 DEF CachePut
  <2>2. ChangePending'
    BY <1>5, <2>1 DEF TypeOK, CachePut, Respond, Goto, ChangePending, Threads
  <2>3. EntriesFresh'
    BY <1>5, <2>1 DEF TypeOK, CachePut, Put, EntriesFresh, ReadsFresh
  <2>4. ReadsFresh'
    BY <1>5, <2>1 DEF TypeOK, CachePut, Respond, NotSeen, ReadsFresh
  <2> QED
    BY <2>2, <2>3, <2>4
<1>6. ASSUME NEW t \in Threads, Bookkeeping(t) PROVE CoherenceInv'
  <2>1. UNCHANGED <<cache, history>> /\ pc[t] # "invalidate"
    BY <1>6, BookkeepingMoves DEF OnlyMoves
  <2>2. PICK label \in Labels : pc' = [pc EXCEPT ![t] = label]
    BY <1>6, BookkeepingMoves DEF OnlyMoves
  <2> QED
    BY <2>1, <2>2 DEF TypeOK, ChangePending, EntriesFresh, ReadsFresh, history
<1>7. ASSUME NEW t \in Threads, Writing(t) PROVE CoherenceInv'
  <2>1. /\ pc[t] # "invalidate"
        /\ UNCHANGED <<cache, frame, epoch, seen>>
        /\ ChangesZones(t) \/ LeavesZones(t)
    BY <1>7, WritingChanges DEF TypeOK
  <2>2. CASE ChangesZones(t)
    <3>1. ChangePending'
      BY <2>1, <2>2 DEF TypeOK, ChangesZones, ChangePending
    <3>2. changedAt' = epoch'
      BY <2>1, <2>2 DEF ChangesZones
    <3>3. ~(changedAt' < epoch')
      BY <2>1, <3>2 DEF TypeOK
    <3> QED
      BY <3>1, <3>3 DEF EntriesFresh, ReadsFresh
  <2>3. CASE LeavesZones(t)
    <3>1. ChangePending'
      BY <2>1, <2>3 DEF TypeOK, LeavesZones, ChangePending
    <3> QED
      BY <2>1, <2>3, <3>1 DEF LeavesZones, EntriesFresh, ReadsFresh
  <2> QED
    BY <2>1, <2>2, <2>3
<1>8. ASSUME NEW t \in Threads, Invalidate(t) PROVE CoherenceInv'
  <2>1. /\ epoch' = epoch + 1
        /\ UNCHANGED <<version, changedAt, seen>>
        /\ DOMAIN cache' = {}
    BY <1>8 DEF Invalidate
  <2> QED
    BY <2>1 DEF TypeOK, ChangePending, EntriesFresh, ReadsFresh
<1>9. CASE UNCHANGED vars
  BY <1>9 DEF vars, serverVars, history, ChangePending, EntriesFresh, ReadsFresh
<1> QED
  BY <1>1, <1>2, <1>3, <1>4, <1>5, <1>6, <1>7, <1>8, <1>9, NextCases

\* What was read since the cache was last invalidated is current if nothing
\* has changed since, and a change waits for its invalidation.
THEOREM CoherenceInvariant == Spec => []CoherenceInv
  BY TypeCorrect, InitCoherenceInv, NextCoherenceInv, PTL DEF Spec

\* Whatever the threads do, an answer that did not straddle an invalidation is
\* current once the writes in progress have invalidated the cache, unless a
\* zone was created since its query began.
THEOREM CacheCoherent == Spec => []UnracedEntriesCurrent
<1>1. TypeOK /\ CoherenceInv => UnracedEntriesCurrent
  <2> SUFFICES ASSUME TypeOK, CoherenceInv, Quiet,
                      NEW k \in DOMAIN cache, Unraced(cache[k])
               PROVE  cache[k].versions \subseteq {version}
    BY DEF UnracedEntriesCurrent
  <2>1. cache[k].since = epoch /\ silentAt < epoch
    BY DEF Unraced, TypeOK
  <2>2. changedAt < epoch
    BY <2>1 DEF CoherenceInv, ChangePending, Quiet, TypeOK
  <2> QED
    BY <2>1, <2>2 DEF CoherenceInv, EntriesFresh
<1> QED
  BY <1>1, TypeCorrect, CoherenceInvariant, PTL

-----------------------------------------------------------------------------
(* Updates are announced.                                                  *)

\* A write kept in tx has the fields that the steps change one by one.
TxFields == {"kind", "zone"}

Announced(z) == \A rr \in ToSet(Lookup(zones, z, z, "SOA")) : <<z, rr.num>> \in notified

\* A zone that an update changed last is announced, or an update of it is about to
\* announce it.
NotifyInv ==
  /\ DOMAIN pc = Threads /\ DOMAIN tx = Threads
  /\ \A t \in Threads : TxFields \subseteq DOMAIN tx[t]
  /\ \A z \in updated :
       Announced(z) \/ \E t \in Threads : Announcing(t) /\ tx[t].zone = z

\* At start no update has been made.
LEMMA InitNotifyInv == Init => NotifyInv
BY DEF Init, NotifyInv, NoTx, TxFields

\* A step that changes no zone, after which its thread still announces what it
\* announced before, or has announced it.
LEMMA MovesKeepNotifyInv ==
  ASSUME NotifyInv, NEW t \in Threads, NEW label,
         UNCHANGED <<zones, updated>>, notified \subseteq notified',
         pc' = [pc EXCEPT ![t] = label],
         DOMAIN tx' = Threads, \A s \in Threads \ {t} : tx'[s] = tx[s],
         TxFields \subseteq DOMAIN tx'[t],
         Announcing(t) => \/ Announcing(t)' /\ tx'[t].zone = tx[t].zone
                          \/ \E z : z = tx[t].zone /\ Announced(z)'
  PROVE  NotifyInv'
<1>1. \A z : Announced(z) => Announced(z)'
  BY DEF Announced
<1>2. \A s \in Threads \ {t} : pc'[s] = pc[s] /\ (Announcing(s)' <=> Announcing(s))
  BY DEF NotifyInv, Announcing
<1>3. ASSUME NEW z \in updated
      PROVE  Announced(z)' \/ \E s \in Threads : Announcing(s)' /\ tx'[s].zone = z
  <2>1. CASE Announced(z)
    BY <1>1, <2>1
  <2>2. ASSUME NEW s \in Threads, Announcing(s), tx[s].zone = z
        PROVE  Announced(z)' \/ \E r \in Threads : Announcing(r)' /\ tx'[r].zone = z
    <3>1. CASE s = t
      BY <2>2, <3>1
    <3>2. CASE s # t
      BY <1>2, <2>2, <3>2
    <3> QED
      BY <3>1, <3>2
  <2> QED
    BY <2>1, <2>2 DEF NotifyInv
<1> QED
  BY <1>3 DEF NotifyInv

\* A step that changes one zone, and has yet to announce it if it is an update's.
LEMMA ChangesKeepNotifyInv ==
  ASSUME NotifyInv, NEW t \in Threads, NEW zone, NEW label,
         \A z : z # zone => Lookup(zones', z, z, "SOA") = Lookup(zones, z, z, "SOA"),
         updated' \subseteq updated \cup {zone}, notified' = notified,
         pc' = [pc EXCEPT ![t] = label], ~Announcing(t),
         DOMAIN tx' = Threads, \A s \in Threads : TxFields \subseteq DOMAIN tx'[s],
         \A s \in Threads \ {t} : tx'[s].zone = tx[s].zone /\ tx'[s].kind = tx[s].kind,
         zone \in updated' => Announcing(t)' /\ tx'[t].zone = zone
  PROVE  NotifyInv'
<1>1. \A z : z # zone /\ Announced(z) => Announced(z)'
  BY DEF Announced
<1>2. \A s \in Threads \ {t} : pc'[s] = pc[s] /\ (Announcing(s)' <=> Announcing(s))
  BY DEF NotifyInv, Announcing
<1>3. ASSUME NEW z \in updated', z # zone
      PROVE  Announced(z)' \/ \E s \in Threads : Announcing(s)' /\ tx'[s].zone = z
  <2>1. CASE Announced(z)
    BY <1>1, <1>3, <2>1
  <2>2. ASSUME NEW s \in Threads, Announcing(s), tx[s].zone = z
        PROVE  \E r \in Threads : Announcing(r)' /\ tx'[r].zone = z
    BY <1>2, <2>2
  <2> QED
    BY <1>3, <2>1, <2>2 DEF NotifyInv
<1> QED
  BY <1>3 DEF NotifyInv

\* What the SOA of a zone is depends on nothing else.
LEMMA OtherZonesSoa ==
  ASSUME NEW z, z \in DOMAIN zones' <=> z \in DOMAIN zones,
         z \in DOMAIN zones => zones'[z] = zones[z]
  PROVE  Lookup(zones', z, z, "SOA") = Lookup(zones, z, z, "SOA")
<1>1. ListZone(zones', z) = ListZone(zones, z)
  BY DEF ListZone
<1> QED
  BY <1>1 DEF Lookup

LEMMA CommitToChanges ==
  ASSUME NEW t \in Threads, NEW zone, NEW kind, CommitTo(t, zone, kind)
  PROVE  /\ \A z : z # zone => Lookup(zones', z, z, "SOA") = Lookup(zones, z, z, "SOA")
         /\ updated' \subseteq updated \cup {zone}
         /\ zone \in updated' => kind = "update"
<1>1. DOMAIN zones' = DOMAIN zones
  BY DEF CommitTo
<1>2. ASSUME NEW z, z # zone PROVE Lookup(zones', z, z, "SOA") = Lookup(zones, z, z, "SOA")
  <2>1. z \in DOMAIN zones => zones'[z] = zones[z]
    BY <1>2 DEF CommitTo
  <2> QED
    BY <1>1, <2>1, OtherZonesSoa
<1> QED
  BY <1>2 DEF CommitTo, Changed

LEMMA NextNotifyInv ==
  ASSUME NotifyInv, [Next]_vars
  PROVE  NotifyInv'
<1> USE DEF Goto, Reply, TxFields
<1>d. DOMAIN pc = Threads /\ DOMAIN tx = Threads /\ \A t \in Threads : TxFields \subseteq DOMAIN tx[t]
  BY DEF NotifyInv
<1>n. TxFields \subseteq DOMAIN NoTx
  BY DEF NoTx
\* A step of a thread that announces nothing, and changes no zone.
<1>k. ASSUME NEW t \in Threads, NEW label, NEW write, pc' = [pc EXCEPT ![t] = label],
             tx' = [tx EXCEPT ![t] = write], TxFields \subseteq DOMAIN write,
             UNCHANGED <<zones, notified, updated>>, ~Announcing(t)
      PROVE  NotifyInv'
  BY <1>k, <1>d, MovesKeepNotifyInv
<1>m. ASSUME NEW t \in Threads, NEW label, pc' = [pc EXCEPT ![t] = label],
             UNCHANGED <<tx, zones, notified, updated>>, ~Announcing(t)
      PROVE  NotifyInv'
  BY <1>m, <1>d, MovesKeepNotifyInv
<1>1. ASSUME NEW w \in Workers,
             ReceiveQuery(w) \/ CacheHit(w) \/ CacheMiss(w) \/ AnswerStep(w) \/ CachePut(w)
      PROVE  NotifyInv'
  <2>1. UNCHANGED <<tx, zones, notified, updated>>
    BY <1>1 DEF ReceiveQuery, CacheHit, CacheMiss, AnswerStep, CachePut, history
  <2>2. \E label : pc' = [pc EXCEPT ![w] = label]
    BY <1>1 DEF ReceiveQuery, CacheHit, CacheMiss, AnswerStep, CachePut, Respond
  <2>3. w \in Threads /\ ~Announcing(w)
    BY <1>1 DEF ReceiveQuery, CacheHit, CacheMiss, AnswerStep, CachePut, Announcing, Threads
  <2> QED
    BY <1>m, <2>1, <2>2, <2>3
\* A request becomes a write.
<1>b. ASSUME NEW t \in Threads, NEW label, NEW write,
             BeginWrite(t, write, label), TxFields \subseteq DOMAIN write
      PROVE  NotifyInv'
  <2>1. /\ UNCHANGED <<zones, notified, updated>> /\ ~Announcing(t)
        /\ pc' = [pc EXCEPT ![t] = label] /\ tx' = [tx EXCEPT ![t] = write]
    BY <1>b DEF BeginWrite, history, Announcing
  <2> QED
    BY <1>b, <1>k, <2>1
<1>2. ASSUME NEW w \in Workers, ReceiveUpdate(w) PROVE NotifyInv'
  <2>1. PICK u \in Updates :
          BeginWrite(w, [NoTx EXCEPT !.kind = "update", !.zone = u.zone, !.auth = u.auth,
                                     !.ops = UpdateOps(u.section)], "find")
    BY <1>2 DEF ReceiveUpdate
  <2> DEFINE write == [NoTx EXCEPT !.kind = "update", !.zone = u.zone, !.auth = u.auth,
                                   !.ops = UpdateOps(u.section)]
  <2>2. TxFields \subseteq DOMAIN write
    BY DEF NoTx
  <2>3. BeginWrite(w, write, "find")
    BY <2>1
  <2> HIDE DEF write
  <2> QED
    BY <1>b, <2>2, <2>3 DEF Threads
<1>3. ASSUME ReceiveApi PROVE NotifyInv'
  <2>1. PICK req \in ApiRequests :
          LET write == [NoTx EXCEPT !.kind = req.kind, !.zone = req.zone]
          IN  \/ /\ req.kind = "POST"
                 /\ BeginWrite(Api, [write EXCEPT !.ops = PostOps(req.rrsets),
                                                  !.soa = PostSoa(req)], "create")
              \/ /\ req.kind = "PATCH"
                 /\ BeginWrite(Api, [write EXCEPT !.ops = PatchOps(req.rrsets)], "find")
              \/ /\ req.kind = "DELETE"
                 /\ BeginWrite(Api, write, "find")
    BY <1>3 DEF ReceiveApi
  <2> DEFINE base == [NoTx EXCEPT !.kind = req.kind, !.zone = req.zone]
             post == [base EXCEPT !.ops = PostOps(req.rrsets), !.soa = PostSoa(req)]
             patch == [base EXCEPT !.ops = PatchOps(req.rrsets)]
  <2>2. /\ TxFields \subseteq DOMAIN post /\ TxFields \subseteq DOMAIN patch
        /\ TxFields \subseteq DOMAIN base
    BY DEF NoTx
  <2>3. \/ BeginWrite(Api, post, "create")
        \/ BeginWrite(Api, patch, "find")
        \/ BeginWrite(Api, base, "find")
    BY <2>1
  <2> HIDE DEF base, post, patch
  <2> QED
    BY <1>b, <2>2, <2>3 DEF Threads
<1>4. ASSUME NEW t \in Threads, Find(t) \/ Begin(t) \/ ReadSoa(t) PROVE NotifyInv'
  <2>1. UNCHANGED <<zones, notified, updated>> /\ ~Announcing(t)
    BY <1>4 DEF Find, Begin, ReadSoa, history, Announcing
  <2>2. \E label : pc' = [pc EXCEPT ![t] = label]
    BY <1>4 DEF Find, Begin, ReadSoa
  <2>3. \E write : tx' = [tx EXCEPT ![t] = write] /\ TxFields \subseteq DOMAIN write
    <3>1. CASE tx' = [tx EXCEPT ![t] = NoTx]
      BY <1>n, <3>1
    <3>2. CASE \E zone : tx' = [tx EXCEPT ![t].zone = zone]
      BY <1>d, <3>2
    <3>3. CASE \E inc : tx' = [tx EXCEPT ![t].inc = inc]
      BY <1>d, <3>3
    <3>4. ASSUME NEW serial, NEW readAt,
                 tx' = [tx EXCEPT ![t].serial = serial, ![t].readAt = readAt]
          PROVE  \E write : tx' = [tx EXCEPT ![t] = write] /\ TxFields \subseteq DOMAIN write
      <4> DEFINE write == [tx[t] EXCEPT !.serial = serial, !.readAt = readAt]
      <4>1. tx' = [tx EXCEPT ![t] = write]
        BY <1>d, <3>4
      <4>2. TxFields \subseteq DOMAIN write
        BY <1>d
      <4> HIDE DEF write
      <4> QED
        BY <4>1, <4>2
    <3>5. CASE Find(t)
      BY <3>1, <3>2, <3>5 DEF Find
    <3>6. CASE Begin(t)
      BY <3>1, <3>3, <3>6 DEF Begin
    <3>7. CASE ReadSoa(t)
      BY <3>4, <3>7 DEF ReadSoa
    <3> QED
      BY <1>4, <3>5, <3>6, <3>7
  <2> QED
    BY <1>k, <2>1, <2>2, <2>3
<1>5. ASSUME NEW t \in Threads, Create(t) PROVE NotifyInv'
  <2>0. notified' = notified /\ ~Announcing(t)
    BY <1>5 DEF Create, Announcing
  <2>1. \/ Reply(t)
        \/ pc' = [pc EXCEPT ![t] = "find"] /\ UNCHANGED tx
    BY <1>5 DEF Create
  <2>2. /\ \E label : pc' = [pc EXCEPT ![t] = label]
        /\ DOMAIN tx' = Threads /\ \A s \in Threads : TxFields \subseteq DOMAIN tx'[s]
        /\ \A s \in Threads \ {t} : tx'[s] = tx[s]
    BY <1>d, <1>n, <2>1
  <2>3. CASE UNCHANGED <<zones, updated>>
    BY <2>0, <2>2, <2>3, MovesKeepNotifyInv
  <2>4. CASE /\ zones' = CreateZone(zones, tx[t].zone, nextInc, tx[t].soa[1])
             /\ updated' = updated \ {tx[t].zone}
    <3>1. ASSUME NEW z, z # tx[t].zone
          PROVE  Lookup(zones', z, z, "SOA") = Lookup(zones, z, z, "SOA")
      <4>1. z \in DOMAIN zones' <=> z \in DOMAIN zones
        BY <2>4, <3>1 DEF CreateZone
      <4>2. z \in DOMAIN zones => zones'[z] = zones[z]
        BY <2>4, <3>1 DEF CreateZone
      <4> QED
        BY <4>1, <4>2, OtherZonesSoa
    <3> QED
      BY <2>0, <2>2, <2>4, <3>1, ChangesKeepNotifyInv
  <2> QED
    BY <1>5, <2>3, <2>4 DEF Create, Changed
<1>6. ASSUME NEW t \in Threads, Delete(t) PROVE NotifyInv'
  <2> DEFINE zone == tx[t].zone
  <2>0. /\ notified' = notified /\ ~Announcing(t) /\ pc' = [pc EXCEPT ![t] = "invalidate"]
        /\ updated' = updated \ {zone} /\ zones' = DeleteZone(zones, zone)
    BY <1>6 DEF Delete, Changed, Announcing
  <2>1. tx' = [s \in Threads |-> IF tx[s].inc = zones[zone].inc
                                THEN [tx[s] EXCEPT !.freed = nextInc] ELSE tx[s]]
    BY <1>6 DEF Delete
  <2>2. /\ DOMAIN tx' = Threads /\ \A s \in Threads : TxFields \subseteq DOMAIN tx'[s]
        /\ \A s \in Threads \ {t} : tx'[s].zone = tx[s].zone /\ tx'[s].kind = tx[s].kind
    BY <1>d, <2>1
  <2> HIDE DEF zone
  <2>3. ASSUME NEW z, z # zone PROVE Lookup(zones', z, z, "SOA") = Lookup(zones, z, z, "SOA")
    <3>1. z \in DOMAIN zones' <=> z \in DOMAIN zones
      BY <2>0, <2>3 DEF DeleteZone
    <3>2. z \in DOMAIN zones => zones'[z] = zones[z]
      BY <2>0, <2>3 DEF DeleteZone
    <3> QED
      BY <3>1, <3>2, OtherZonesSoa
  <2> QED
    BY <2>0, <2>2, <2>3, ChangesKeepNotifyInv
\* A commit, of a write to its zone or of one that strays.
<1>c. ASSUME NEW t \in Threads, NEW zone, NEW kind, pc[t] = "commit", notified' = notified,
             CommitTo(t, zone, kind), AfterCommit(t),
             kind = "update" => tx[t].kind = "update" /\ tx[t].zone = zone
      PROVE  NotifyInv'
  <2>0. ~Announcing(t)
    BY <1>c DEF Announcing
  <2>1. /\ \A z : z # zone => Lookup(zones', z, z, "SOA") = Lookup(zones, z, z, "SOA")
        /\ updated' \subseteq updated \cup {zone}
        /\ zone \in updated' => kind = "update"
    BY <1>c, CommitToChanges
  <2>2. /\ \E label : pc' = [pc EXCEPT ![t] = label]
        /\ DOMAIN tx' = Threads /\ \A s \in Threads : TxFields \subseteq DOMAIN tx'[s]
        /\ \A s \in Threads \ {t} : tx'[s] = tx[s]
    BY <1>c, <1>d, <1>n DEF AfterCommit
  <2>3. kind = "update" => Announcing(t)' /\ tx'[t].zone = zone
    BY <1>c, <1>d DEF AfterCommit, Announcing
  <2> QED
    BY <1>c, <2>0, <2>1, <2>2, <2>3, ChangesKeepNotifyInv
<1>7. ASSUME NEW t \in Threads, CommitTx(t) PROVE NotifyInv'
  BY <1>7, <1>c DEF CommitTx
<1>8. ASSUME NEW t \in Threads, CommitDangling(t) PROVE NotifyInv'
  <2>1. pc[t] = "commit" /\ notified' = notified /\ ~Announcing(t)
    BY <1>8 DEF CommitDangling, Announcing
  <2>2. CASE UNCHANGED <<zones, updated>> /\ AfterCommit(t)
    <3>1. \/ Reply(t)
          \/ pc' = [pc EXCEPT ![t] = "invalidate"] /\ UNCHANGED tx
      BY <2>2 DEF AfterCommit
    <3> QED
      BY <1>k, <1>m, <1>n, <2>1, <2>2, <3>1
  <2>3. ASSUME NEW zone, CommitTo(t, zone, "stray"), AfterCommit(t) PROVE NotifyInv'
    BY <1>c, <2>1, <2>3
  <2>4. CASE UNCHANGED <<zones, updated, pc, tx>>
    BY <2>1, <2>4 DEF NotifyInv, Announced, Announcing
  <2> QED
    BY <1>8, <2>2, <2>3, <2>4 DEF CommitDangling
<1>9. ASSUME NEW t \in Threads, Invalidate(t) PROVE NotifyInv'
  <2>0. UNCHANGED <<zones, notified, updated>> /\ pc[t] = "invalidate"
    BY <1>9 DEF Invalidate
  <2>1. CASE tx[t].kind = "update"
    <3>1. pc' = [pc EXCEPT ![t] = "notify"] /\ UNCHANGED tx
      BY <1>9, <2>1 DEF Invalidate
    <3>2. Announcing(t)'
      BY <1>d, <3>1 DEF Announcing
    <3> QED
      BY <1>d, <2>0, <3>1, <3>2, MovesKeepNotifyInv
  <2>2. CASE tx[t].kind # "update"
    <3>1. Reply(t) /\ ~Announcing(t)
      BY <1>9, <2>0, <2>2 DEF Invalidate, Announcing
    <3> QED
      BY <1>k, <1>n, <2>0, <3>1
  <2> QED
    BY <2>1, <2>2
<1>10. ASSUME NEW t \in Threads, Notify(t) PROVE NotifyInv'
  <2> PICK z : z = tx[t].zone
    OBVIOUS
  <2>1. /\ UNCHANGED <<zones, updated>> /\ Reply(t)
        /\ notified' = notified \cup {<<z, rr.num>> : rr \in ToSet(Lookup(zones, z, z, "SOA"))}
    BY <1>10 DEF Notify, history
  <2>2. Announced(z)'
    BY <2>1 DEF Announced
  <2> QED
    BY <1>d, <1>n, <2>1, <2>2, MovesKeepNotifyInv
<1>11. CASE UNCHANGED vars
  BY <1>11 DEF vars, serverVars, history, NotifyInv, Announced, Announcing
<1> QED
  BY <1>1, <1>2, <1>3, <1>4, <1>5, <1>6, <1>7, <1>8, <1>9, <1>10, <1>11, NextCases
     DEF Bookkeeping, Writing

\* The serial that an update leaves in its zone is sent in a NOTIFY for that zone
\* before the threads that update it are done, unless something else changes the
\* zone after it: whatever they, the API and a deletion of the zone do meanwhile.
THEOREM UpdatesAreAnnounced == Spec => []LastUpdateNotified
<1>1. NotifyInv => LastUpdateNotified
  BY DEF NotifyInv, LastUpdateNotified, Announced
<1>2. NotifyInv /\ [Next]_vars => NotifyInv'
  BY NextNotifyInv
<1> QED
  BY <1>1, <1>2, InitNotifyInv, PTL DEF Spec

-----------------------------------------------------------------------------
(* Recursion along a sequence, which FlattenSeq is.                        *)

\* Induction over the numbers, for a set that holds 0 and with each number the next.
LEMMA NatsBySteps ==
  ASSUME NEW S, 0 \in S, \A n \in Nat : n \in S => n + 1 \in S
  PROVE  Nat \subseteq S
<1> DEFINE Out == Nat \ S
<1>1. SUFFICES ASSUME Out # {} PROVE FALSE
  OBVIOUS
<1>2. PICK m \in Out : \A k \in Out : ~(<<k, m>> \in OpToRel(<, Nat))
  <2>1. IsWellFoundedOn(OpToRel(<, Nat), Nat)
    BY NatLessThanWellFounded
  <2> HIDE DEF Out
  <2>2. Out \subseteq Nat
    BY DEF Out
  <2> QED
    BY <1>1, <2>1, <2>2, WFMin
<1>3. m # 0 /\ m - 1 \in Nat /\ m - 1 \notin Out
  <2>1. m \in Nat /\ m # 0
    OBVIOUS
  <2>2. m - 1 \in Nat /\ <<m - 1, m>> \in OpToRel(<, Nat)
    BY <2>1 DEF OpToRel
  <2> QED
    BY <1>2, <2>1, <2>2
<1> QED
  BY <1>3

\* What the first m members of seqs amount to, one after the other.
Flattened(f, seqs, S, m) ==
  /\ f \in [0 .. m -> Seq(S)]
  /\ f[0] = << >>
  /\ \A i \in 1 .. m : f[i] = f[i - 1] \o seqs[i]

\* Sequences can be flattened member by member.
LEMMA FlattenedExists ==
  ASSUME NEW S, NEW seqs \in Seq(Seq(S))
  PROVE  \E f : Flattened(f, seqs, S, Len(seqs))
<1> DEFINE n == Len(seqs)
           Found == {m \in Nat : m <= n => \E f : Flattened(f, seqs, S, m)}
<1>1. 0 \in Found
  <2>1. Flattened([i \in {0} |-> << >>], seqs, S, 0)
    BY EmptySeq DEF Flattened
  <2> QED
    BY <2>1
<1>2. ASSUME NEW m \in Nat, m \in Found PROVE m + 1 \in Found
  <2>1. CASE ~(m + 1 <= n)
    BY <2>1
  <2>2. CASE m + 1 <= n
    <3>1. m <= n /\ m + 1 \in 1 .. n /\ n \in Nat
      BY <2>2
    <3>2. PICK f : Flattened(f, seqs, S, m)
      BY <1>2, <3>1
    <3>3. f[m] \in Seq(S) /\ seqs[m + 1] \in Seq(S)
      BY <3>1, <3>2 DEF Flattened
    <3> DEFINE last == f[m] \o seqs[m + 1]
               g == [i \in 0 .. m + 1 |-> IF i = m + 1 THEN last ELSE f[i]]
    <3>4. last \in Seq(S)
      BY <3>3, ConcatProperties
    <3>5. g[m + 1] = last /\ \A i \in 0 .. m : g[i] = f[i]
      <4>1. m + 1 \in 0 .. m + 1 /\ \A i \in 0 .. m : i \in 0 .. m + 1 /\ i # m + 1
        OBVIOUS
      <4> HIDE DEF last
      <4> QED
        BY <4>1
    <3>6. g \in [0 .. m + 1 -> Seq(S)] /\ g[0] = << >>
      BY <3>2, <3>4 DEF Flattened
    <3>7. ASSUME NEW i \in 1 .. m + 1 PROVE g[i] = g[i - 1] \o seqs[i]
      <4> HIDE DEF g
      <4>1. CASE i = m + 1
        <5>1. i - 1 = m /\ m \in 0 .. m
          BY <4>1
        <5> QED
          BY <3>5, <4>1, <5>1
      <4>2. CASE i # m + 1
        <5>1. i \in 1 .. m /\ i \in 0 .. m /\ i - 1 \in 0 .. m
          BY <4>2
        <5> QED
          BY <3>2, <3>5, <5>1 DEF Flattened
      <4> QED
        BY <4>1, <4>2
    <3> HIDE DEF g
    <3>8. Flattened(g, seqs, S, m + 1)
      BY <3>6, <3>7 DEF Flattened
    <3> QED
      BY <3>8
  <2> QED
    BY <2>1, <2>2
<1>3. n \in Nat /\ n <= n
  OBVIOUS
<1>4. n \in Found
  <2> HIDE DEF Found, n
  <2> QED
    BY <1>1, <1>2, <1>3, NatsBySteps
<1> QED
  BY <1>3, <1>4

\* FlattenSeq, which is one recursive function, does just that.
LEMMA FlattenSteps ==
  ASSUME NEW S, NEW seqs \in Seq(Seq(S))
  PROVE  \E f : Flattened(f, seqs, S, Len(seqs)) /\ FlattenSeq(seqs) = f[Len(seqs)]
<1> DEFINE n == Len(seqs)
           Iter(it) == it = [i \in 1 .. n |-> IF i = 1 THEN seqs[i] ELSE it[i - 1] \o seqs[i]]
           it == CHOOSE it : Iter(it)
<1>0. n \in Nat
  OBVIOUS
<1>1. PICK f : Flattened(f, seqs, S, n)
  BY FlattenedExists
<1>a. f[0] = << >> /\ \A i \in 1 .. n : seqs[i] \in Seq(S) /\ f[i] = f[i - 1] \o seqs[i]
  BY <1>1 DEF Flattened
<1>2. CASE n = 0
  <2>1. seqs = << >>
    BY <1>2
  <2>2. FlattenSeq(seqs) = << >>
    BY <2>1 DEF FlattenSeq
  <2> QED
    BY <1>1, <1>2, <2>2 DEF Flattened
<1>3. CASE n # 0
  <2>1. FlattenSeq(seqs) = it[n]
    BY <1>3, Zenon DEF FlattenSeq
  <2>2. Iter([i \in 1 .. n |-> f[i]])
    <3>1. ASSUME NEW i \in 1 .. n
          PROVE  f[i] = IF i = 1 THEN seqs[i] ELSE [k \in 1 .. n |-> f[k]][i - 1] \o seqs[i]
      <4>1. CASE i = 1
        <5>1. f[1] = << >> \o seqs[1] /\ seqs[1] \in Seq(S)
          <6>1. f[1] = f[0] \o seqs[1]
            <7>1. 1 \in 1 .. n /\ 1 - 1 = 0
              BY <1>0, <1>3
            <7> HIDE DEF n
            <7> QED
              BY <1>a, <7>1
          <6> QED
            BY <1>a, <4>1, <6>1
        <5> QED
          BY <4>1, <5>1, ConcatEmptySeq
      <4>2. CASE i # 1
        <5>1. i - 1 \in 1 .. n
          BY <4>2
        <5> QED
          BY <1>a, <4>2, <5>1
      <4> QED
        BY <4>1, <4>2
    <3> QED
      BY <3>1
  <2>3. Iter(it)
    <3> HIDE DEF Iter
    <3> QED
      BY <2>2
  <2> HIDE DEF it
  <2>4. \A i \in 1 .. n : it[i] = IF i = 1 THEN seqs[i] ELSE it[i - 1] \o seqs[i]
    <3> HIDE DEF n
    <3> QED
      BY <2>3
  <2> HIDE DEF n, Iter
  <2> DEFINE Same == {m \in Nat : m \in 1 .. n => it[m] = f[m]}
  <2>5. 0 \in Same
    OBVIOUS
  <2>6. ASSUME NEW m \in Nat, m \in Same PROVE m + 1 \in Same
    <3>1. SUFFICES ASSUME m + 1 \in 1 .. n PROVE it[m + 1] = f[m + 1]
      OBVIOUS
    <3>2. (m + 1) - 1 = m
      OBVIOUS
    <3>3. it[m + 1] = IF m = 0 THEN seqs[m + 1] ELSE it[m] \o seqs[m + 1]
      BY <2>4, <3>1, <3>2
    <3>4. f[m + 1] = f[m] \o seqs[m + 1] /\ seqs[m + 1] \in Seq(S)
      BY <1>a, <3>1, <3>2
    <3>5. CASE m = 0
      BY <1>a, <3>3, <3>4, <3>5, ConcatEmptySeq
    <3>6. CASE m # 0
      <4>1. m \in 1 .. n
        BY <1>0, <3>1, <3>6
      <4> QED
        BY <2>6, <3>3, <3>4, <3>6, <4>1
    <3> QED
      BY <3>5, <3>6
  <2>7. n \in Same
    <3> HIDE DEF Same
    <3> QED
      BY <1>0, <2>5, <2>6, NatsBySteps
  <2>8. it[n] = f[n]
    BY <1>0, <1>3, <2>7
  <2> QED
    BY <1>1, <2>1, <2>8 DEF n
<1> QED
  BY <1>2, <1>3

\* FlattenSeq makes one sequence of several.
LEMMA FlattenSeqIsSeq ==
  ASSUME NEW S, NEW seqs \in Seq(Seq(S))
  PROVE  FlattenSeq(seqs) \in Seq(S)
<1>1. PICK f : Flattened(f, seqs, S, Len(seqs)) /\ FlattenSeq(seqs) = f[Len(seqs)]
  BY FlattenSteps
<1>2. Len(seqs) \in 0 .. Len(seqs)
  BY LenProperties
<1> QED
  BY <1>1, <1>2 DEF Flattened

\* One that is no longer than these together.
LEMMA FlattenSeqIsShort ==
  ASSUME NEW S, NEW seqs \in Seq(Seq(S)), NEW c \in {1, 2}, \A i \in DOMAIN seqs : Len(seqs[i]) <= c
  PROVE  Len(FlattenSeq(seqs)) <= c * Len(seqs)
<1> DEFINE n == Len(seqs)
<1>0. n \in Nat /\ DOMAIN seqs = 1 .. n
  OBVIOUS
<1>1. PICK f : Flattened(f, seqs, S, n) /\ FlattenSeq(seqs) = f[n]
  BY FlattenSteps
<1> DEFINE Short == {m \in Nat : m <= n => Len(f[m]) <= c * m}
<1>2. 0 \in Short
  BY <1>1 DEF Flattened
<1>3. ASSUME NEW m \in Nat, m \in Short PROVE m + 1 \in Short
  <2>1. SUFFICES ASSUME m + 1 <= n PROVE Len(f[m + 1]) <= c * (m + 1)
    OBVIOUS
  <2>2. m \in 0 .. n /\ m + 1 \in 1 .. n /\ (m + 1) - 1 = m /\ m <= n
    BY <1>0, <2>1
  <2>3. m + 1 \in DOMAIN seqs /\ Len(f[m]) <= c * m
    BY <1>0, <1>3, <2>2
  <2> HIDE DEF n, Short
  <2>4. Len(seqs[m + 1]) <= c /\ seqs[m + 1] \in Seq(S)
    BY <2>3
  <2>5. f[m] \in Seq(S) /\ f[m + 1] = f[m] \o seqs[m + 1]
    BY <1>1, <2>2 DEF Flattened, n
  <2>6. Len(f[m + 1]) = Len(f[m]) + Len(seqs[m + 1]) /\ Len(f[m]) \in Nat /\ Len(seqs[m + 1]) \in Nat
    BY <2>4, <2>5, ConcatProperties, LenProperties
  <2>7. c * (m + 1) = c * m + c /\ c * m \in Nat /\ c \in Nat
    <3>1. CASE c = 1
      BY <3>1
    <3>2. CASE c = 2
      BY <3>2
    <3> QED
      BY <3>1, <3>2
  <2> DEFINE a == Len(f[m])
             b == Len(seqs[m + 1])
             d == Len(f[m + 1])
             p == c * m
             r == c * (m + 1)
  <2>8. a \in Nat /\ b \in Nat /\ d = a + b /\ a <= p /\ b <= c /\ r = p + c /\ p \in Nat
    BY <2>3, <2>4, <2>6, <2>7
  <2>9. d <= r
    <3> HIDE DEF a, b, d, p, r
    <3> QED
      BY <2>7, <2>8
  <2> QED
    BY <2>9
<1>4. n \in Short
  <2> HIDE DEF Short, n
  <2> QED
    BY <1>0, <1>2, <1>3, NatsBySteps
<1> QED
  BY <1>0, <1>1, <1>4 DEF Flattened

\* ElementsAt keeps elements at the positions, and no other.
LEMMA ElementsKept ==
  ASSUME NEW S, NEW seq \in Seq(S), NEW positions
  PROVE  /\ ElementsAt(seq, positions) \in Seq({seq[i] : i \in positions \cap DOMAIN seq})
         /\ ElementsAt(seq, positions) \in Seq(S)
         /\ Len(ElementsAt(seq, positions)) <= Len(seq)
<1> DEFINE kept == {seq[i] : i \in positions \cap DOMAIN seq}
           seqs == [i \in DOMAIN seq |-> IF i \in positions THEN <<seq[i]>> ELSE << >>]
<1>1. seqs \in Seq(Seq(kept)) /\ Len(seqs) = Len(seq) /\ \A i \in DOMAIN seqs : Len(seqs[i]) <= 1
  <2>1. Len(seq) \in Nat /\ DOMAIN seq = 1 .. Len(seq)
    OBVIOUS
  <2>2. ASSUME NEW i \in 1 .. Len(seq) PROVE seqs[i] \in Seq(kept) /\ Len(seqs[i]) <= 1
    <3>1. CASE i \in positions
      <4>1. seq[i] \in kept /\ seqs[i] = <<seq[i]>>
        BY <2>1, <3>1
      <4> HIDE DEF kept, seqs
      <4> QED
        BY <4>1
    <3>2. CASE i \notin positions
      BY <2>1, <3>2, EmptySeq
    <3> QED
      BY <3>1, <3>2
  <2>3. seqs = [i \in 1 .. Len(seq) |-> seqs[i]]
    BY <2>1
  <2> HIDE DEF seqs, kept
  <2> QED
    BY <2>1, <2>2, <2>3, IsASeq
<1>2. ElementsAt(seq, positions) = FlattenSeq(seqs)
  BY DEF ElementsAt
<1>3. kept \subseteq S
  OBVIOUS
<1> HIDE DEF seqs
<1>5. FlattenSeq(seqs) \in Seq(kept) /\ Len(FlattenSeq(seqs)) <= 1 * Len(seqs)
  <2> HIDE DEF kept
  <2> QED
    BY <1>1, FlattenSeqIsSeq, FlattenSeqIsShort
<1>6. FlattenSeq(seqs) \in Seq(S)
  <2> HIDE DEF kept
  <2> QED
    BY <1>3, <1>5
<1>7. Len(FlattenSeq(seqs)) <= Len(seq)
  BY <1>1, <1>5
<1> QED
  BY <1>2, <1>5, <1>6, <1>7

-----------------------------------------------------------------------------
(* Records stay records.                                                   *)

\* Names, and what a transaction does with a record.
Name == Seq(STRING)
Ops == [op : {"add", "rrset", "name"}, rr : EngineRRs]

\* A lookup returns records of the zone that are what it asks for.
LEMMA LookupKept ==
  ASSUME NEW db, NEW z, NEW n, NEW t, ListZone(db, z) \in Seq(EngineRRs)
  PROVE  /\ Lookup(db, z, n, t) \in Seq(EngineRRs)
         /\ Len(Lookup(db, z, n, t)) <= Len(ListZone(db, z))
         /\ \A i \in DOMAIN Lookup(db, z, n, t) :
              \E j \in DOMAIN ListZone(db, z) :
                /\ Lookup(db, z, n, t)[i] = ListZone(db, z)[j]
                /\ ListZone(db, z)[j].name = n
                /\ t # "ANY" => ListZone(db, z)[j].type = t
<1> DEFINE rrs == ListZone(db, z)
           places == {i \in DOMAIN rrs : rrs[i].name = n /\ t \in {"ANY", rrs[i].type}}
           kept == {rrs[i] : i \in places \cap DOMAIN rrs}
           found == ElementsAt(rrs, places)
<1>1. Lookup(db, z, n, t) = found
  BY DEF Lookup
<1>2. \A x \in kept : \E j \in DOMAIN rrs :
        x = rrs[j] /\ rrs[j].name = n /\ (t # "ANY" => rrs[j].type = t)
  OBVIOUS
<1>3. found \in Seq(kept) /\ found \in Seq(EngineRRs) /\ Len(found) <= Len(rrs)
  <2> HIDE DEF rrs, places
  <2> QED
    BY ElementsKept DEF rrs
<1>4. \A i \in DOMAIN found : found[i] \in kept
  <2> HIDE DEF found, kept
  <2> QED
    BY <1>3
<1> QED
  BY <1>1, <1>2, <1>3, <1>4

\* The serial of the SOA changes nothing else.
LEMMA ApexSerialSet ==
  ASSUME NEW rrs \in Seq(EngineRRs), NEW apex, NEW serial \in Nat
  PROVE  LET set == SetApexSerial(rrs, apex, serial)
         IN  /\ set \in Seq(EngineRRs)
             /\ \A i \in DOMAIN set :
                  set[i].type = "SOA" /\ set[i].name = apex => set[i].num = serial
<1> DEFINE n == Len(rrs)
           rec(i) == IF rrs[i].type = "SOA" /\ rrs[i].name = apex
                     THEN [rrs[i] EXCEPT !.num = serial] ELSE rrs[i]
           set == [i \in 1 .. n |-> rec(i)]
<1>1. n \in Nat /\ DOMAIN rrs = 1 .. n
  BY LenProperties
<1>2. SetApexSerial(rrs, apex, serial) = set
  BY <1>1 DEF SetApexSerial
<1>3. \A i \in 1 .. n : /\ rec(i) \in EngineRRs
                        /\ rec(i).type = "SOA" /\ rec(i).name = apex => rec(i).num = serial
  <2> TAKE i \in 1 .. n
  <2>1. rrs[i] \in EngineRRs
    BY <1>1
  <2> QED
    BY <2>1 DEF EngineRRs
<1>4. DOMAIN set = 1 .. n /\ \A i \in 1 .. n : set[i] = rec(i)
  OBVIOUS
<1> HIDE DEF rec
<1>5. set \in Seq(EngineRRs)
  <2> HIDE DEF n
  <2> QED
    BY <1>1, <1>3, IsASeq
<1> QED
  BY <1>2, <1>3, <1>4, <1>5

\* A commit leaves records, and the serial at the apex if it has one.
LEMMA CommitRecords ==
  ASSUME NEW rrs \in Seq(EngineRRs), NEW apex, NEW ops \in Seq(Ops), NEW serial \in SUBSET Nat
  PROVE  LET after == Commit(rrs, apex, ops, serial)
         IN  /\ after \in Seq(EngineRRs)
             /\ \A n \in Nat : serial = {n} =>
                  \A i \in DOMAIN after :
                    after[i].type = "SOA" /\ after[i].name = apex => after[i].num = n
<1> DEFINE keep == {i \in DOMAIN rrs : \A j \in DOMAIN ops : ~Deletes(ops[j], rrs[i])}
           added == [i \in DOMAIN ops |-> ops[i].rr]
           add == {i \in DOMAIN ops : ops[i].op = "add"}
           kept == ElementsAt(rrs, keep)
           adds == ElementsAt(added, add)
           all == kept \o adds
<1>1. added \in Seq(EngineRRs)
  <2> DEFINE n == Len(ops)
  <2>1. n \in Nat /\ DOMAIN ops = 1 .. n
    BY LenProperties
  <2>2. \A i \in 1 .. n : ops[i].rr \in EngineRRs
    <3>1. \A i \in 1 .. n : ops[i] \in Ops
      BY <2>1
    <3> QED
      BY <3>1 DEF Ops
  <2>3. added = [i \in 1 .. n |-> ops[i].rr]
    BY <2>1
  <2> HIDE DEF n
  <2> QED
    BY <2>1, <2>2, <2>3, IsASeq
<1>2. Commit(rrs, apex, ops, serial) =
        IF serial = {} THEN all ELSE SetApexSerial(all, apex, CHOOSE s \in serial : TRUE)
  BY DEF Commit
<1> HIDE DEF keep, add, added
<1>3. kept \in Seq(EngineRRs) /\ adds \in Seq(EngineRRs)
  BY <1>1, ElementsKept
<1> HIDE DEF kept, adds
<1>4. all \in Seq(EngineRRs)
  BY <1>3, ConcatProperties
<1> HIDE DEF all
<1>5. CASE serial = {}
  BY <1>2, <1>4, <1>5
<1>6. CASE serial # {}
  <2> DEFINE s == CHOOSE s \in serial : TRUE
  <2>1. s \in serial /\ s \in Nat
    BY <1>6
  <2>2. Commit(rrs, apex, ops, serial) = SetApexSerial(all, apex, s)
    BY <1>2, <1>6
  <2>3. \A n \in Nat : serial = {n} => s = n
    BY <2>1
  <2> HIDE DEF s
  <2> QED
    BY <1>4, <2>1, <2>2, <2>3, ApexSerialSet
<1> QED
  BY <1>5, <1>6

\* What is done with a record is an operation.
LEMMA OpTyped ==
  ASSUME NEW rr \in EngineRRs
  PROVE  AddRecord(rr) \in Ops /\ DeleteRrset(rr) \in Ops /\ DeleteName(rr) \in Ops
<1> HIDE DEF EngineRRs
<1> QED
  BY DEF Ops, DeleteName, DeleteRrset, AddRecord

\* The operations of requests are operations on records.
LEMMA UpdateOpsTyped ==
  ASSUME NEW u \in Updates
  PROVE  UpdateOps(u.section) \in Seq(Ops)
<1> DEFINE sec == u.section
           Items == [class : STRING, empty : BOOLEAN, rr : EngineRRs]
           n == Len(sec)
           op(i) == IF sec[i].class = "ANY" /\ sec[i].empty
                    THEN IF sec[i].rr.type = "ANY" THEN DeleteName(sec[i].rr) ELSE DeleteRrset(sec[i].rr)
                    ELSE IF sec[i].class = "NONE" THEN DeleteRrset(sec[i].rr) ELSE AddRecord(sec[i].rr)
<1>1. sec \in Seq(Items)
  BY RequestsAssumption
<1>2. n \in Nat /\ DOMAIN sec = 1 .. n
  BY <1>1, LenProperties
<1>3. UpdateOps(sec) = [i \in 1 .. n |-> op(i)]
  BY <1>2 DEF UpdateOps
<1>4. \A i \in 1 .. n : op(i) \in Ops
  <2> TAKE i \in 1 .. n
  <2>1. sec[i] \in Items
    <3> HIDE DEF Items, sec, n
    <3> QED
      BY <1>1, <1>2
  <2>2. sec[i].rr \in EngineRRs
    BY <2>1
  <2> QED
    BY <2>2, OpTyped
<1> QED
  <2> HIDE DEF op, n, sec
  <2>1. UpdateOps(sec) \in Seq(Ops)
    BY <1>2, <1>3, <1>4, IsASeq
  <2> QED
    BY <2>1 DEF sec

\* Additions of records are operations on records.
LEMMA AddsTyped ==
  ASSUME NEW rrs \in Seq(EngineRRs)
  PROVE  [i \in DOMAIN rrs |-> AddRecord(rrs[i])] \in Seq(Ops)
<1> DEFINE n == Len(rrs)
<1>1. n \in Nat /\ DOMAIN rrs = 1 .. n
  BY LenProperties
<1>2. \A i \in 1 .. n : rrs[i] \in EngineRRs
  BY <1>1
<1>3. \A i \in 1 .. n : AddRecord(rrs[i]) \in Ops
  BY <1>2, OpTyped
<1> HIDE DEF n
<1> QED
  BY <1>1, <1>3, IsASeq

\* A changed RRset of a request to the API.
Rrsets == [change : STRING, rr : EngineRRs, rrs : Seq(EngineRRs)]

\* The changes that a PATCH asks for are operations on records.
LEMMA PatchOpsTyped ==
  ASSUME NEW rrsets \in Seq(Rrsets)
  PROVE  PatchOps(rrsets) \in Seq(Ops)
<1> DEFINE n == Len(rrsets)
           op(i) == IF rrsets[i].change = "delete" THEN <<DeleteRrset(rrsets[i].rr)>>
                    ELSE ReplaceRrset(rrsets[i].rr, rrsets[i].rrs)
           seqs == [i \in 1 .. n |-> op(i)]
<1>1. n \in Nat /\ DOMAIN rrsets = 1 .. n /\ \A i \in 1 .. n : rrsets[i] \in Rrsets
  BY LenProperties
<1>2. \A i \in 1 .. n : op(i) \in Seq(Ops)
  <2> TAKE i \in 1 .. n
  <2>1. rrsets[i].rr \in EngineRRs /\ rrsets[i].rrs \in Seq(EngineRRs)
    BY <1>1 DEF Rrsets
  <2>2. DeleteRrset(rrsets[i].rr) \in Ops
    BY <2>1, OpTyped
  <2> DEFINE d == DeleteRrset(rrsets[i].rr)
             adds == [j \in DOMAIN rrsets[i].rrs |-> AddRecord(rrsets[i].rrs[j])]
  <2>3. adds \in Seq(Ops)
    BY <2>1, AddsTyped
  <2>4. op(i) \in {<<d>>, <<d>> \o adds}
    BY DEF ReplaceRrset
  <2> HIDE DEF d, adds, op
  <2>5. <<d>> \in Seq(Ops)
    BY <2>2 DEF d
  <2>6. <<d>> \o adds \in Seq(Ops)
    BY <2>3, <2>5, ConcatProperties
  <2> QED
    BY <2>4, <2>5, <2>6
<1>3. PatchOps(rrsets) = FlattenSeq(seqs)
  BY <1>1 DEF PatchOps
<1> HIDE DEF op, n
<1>4. seqs \in Seq(Seq(Ops))
  BY <1>1, <1>2, IsASeq
<1> HIDE DEF seqs
<1> QED
  BY <1>3, <1>4, FlattenSeqIsSeq

\* All records that a request names.
LEMMA AllRecords ==
  ASSUME NEW rrsets \in Seq(Rrsets)
  PROVE  FlattenSeq([i \in DOMAIN rrsets |-> rrsets[i].rrs]) \in Seq(EngineRRs)
<1> DEFINE n == Len(rrsets)
           seqs == [i \in 1 .. n |-> rrsets[i].rrs]
<1>1. n \in Nat /\ DOMAIN rrsets = 1 .. n /\ \A i \in 1 .. n : rrsets[i] \in Rrsets
  BY LenProperties
<1>2. \A i \in 1 .. n : rrsets[i].rrs \in Seq(EngineRRs)
  BY <1>1 DEF Rrsets
<1>3. [i \in DOMAIN rrsets |-> rrsets[i].rrs] = seqs
  BY <1>1
<1> HIDE DEF n
<1>4. seqs \in Seq(Seq(EngineRRs))
  BY <1>1, <1>2, IsASeq
<1> HIDE DEF seqs
<1> QED
  BY <1>3, <1>4, FlattenSeqIsSeq

\* The zone that a POST creates has records, and the SOA of a new zone is one.
LEMMA PostTyped ==
  ASSUME NEW req \in ApiRequests
  PROVE  /\ req.zone \in Name
         /\ PostOps(req.rrsets) \in Seq(Ops) /\ PatchOps(req.rrsets) \in Seq(Ops)
         /\ PostSoa(req) \in Seq(EngineRRs) /\ PostSoa(req) # << >>
<1>1. req.rrsets \in Seq(Rrsets) /\ req.zone \in Name
  BY RequestsAssumption DEF Rrsets, Name
<1> DEFINE all == FlattenSeq([i \in DOMAIN req.rrsets |-> req.rrsets[i].rrs])
           others == {i \in DOMAIN all : all[i].type # "SOA"}
           rrs == ElementsAt(all, others)
           of == {i \in DOMAIN req.rrsets : req.rrsets[i].rr.type = "SOA" /\ req.rrsets[i].rrs # << >>}
           sets == ElementsAt(req.rrsets, of)
<1>2. all \in Seq(EngineRRs)
  BY <1>1, AllRecords
<1>3. PostOps(req.rrsets) = [i \in DOMAIN rrs |-> AddRecord(rrs[i])]
  BY DEF PostOps
<1> DEFINE made(target, num) ==
             [name |-> req.zone, type |-> "SOA", ttl |-> 3600, target |-> target, num |-> num]
           soa == IF sets = << >> THEN made(Root, 1)
                  ELSE made(Last(sets).rrs[1].target, Last(sets).rrs[1].num)
<1>4. PostSoa(req) = <<soa>>
  BY DEF PostSoa
<1>5. rrs \in Seq(EngineRRs)
  <2> HIDE DEF all, others
  <2> QED
    BY <1>2, ElementsKept
<1>6. ASSUME NEW target \in Name, NEW num \in Nat PROVE made(target, num) \in EngineRRs
  BY <1>1, <1>6 DEF EngineRRs, Name, Types
<1>7. PostOps(req.rrsets) \in Seq(Ops)
  <2> HIDE DEF rrs
  <2> QED
    BY <1>3, <1>5, AddsTyped
<1>8. sets # << >> => Last(sets).rrs[1] \in EngineRRs
  <2> DEFINE kept == {req.rrsets[i] : i \in of \cap DOMAIN req.rrsets}
  <2>1. sets \in Seq(kept)
    <3> HIDE DEF of
    <3> QED
      BY <1>1, ElementsKept
  <2> HIDE DEF sets
  <2>2. SUFFICES ASSUME sets # << >> PROVE Last(sets).rrs[1] \in EngineRRs
    OBVIOUS
  <2>3. Last(sets) \in kept
    <3> HIDE DEF kept
    <3> QED
      BY <2>1, <2>2 DEF Last
  <2>a. PICK i \in of \cap DOMAIN req.rrsets : Last(sets) = req.rrsets[i]
    BY <2>3
  <2>4. i \in DOMAIN req.rrsets /\ Last(sets) = req.rrsets[i] /\ req.rrsets[i].rrs # << >>
    BY <2>a
  <2>5. req.rrsets[i].rrs \in Seq(EngineRRs)
    <3>1. req.rrsets[i] \in Rrsets
      BY <1>1, <2>4
    <3> QED
      BY <3>1 DEF Rrsets
  <2> QED
    BY <2>4, <2>5
<1> HIDE DEF made, sets
<1>9. soa \in EngineRRs
  <2>1. CASE sets = << >>
    <3>1. Root \in Name /\ 1 \in Nat
      BY EmptySeq DEF Root, Name
    <3> QED
      BY <1>6, <2>1, <3>1
  <2>2. CASE sets # << >>
    <3>1. PICK rr \in EngineRRs : rr = Last(sets).rrs[1]
      BY <1>8, <2>2
    <3>2. rr.target \in Name /\ rr.num \in Nat
      BY DEF EngineRRs, Name
    <3> QED
      BY <1>6, <2>2, <3>1, <3>2
  <2> QED
    BY <2>1, <2>2
<1> HIDE DEF soa
<1>10. <<soa>> \in Seq(EngineRRs) /\ <<soa>> # << >>
  BY <1>9
<1> QED
  BY <1>1, <1>4, <1>7, <1>10, PatchOpsTyped

\* A sequence of one element has a first one.
LEMMA OneElement ==
  ASSUME NEW S, NEW s \in Seq(S), Len(s) = 1
  PROVE  s # << >> /\ 1 \in DOMAIN s /\ s[1] \in S
OBVIOUS

-----------------------------------------------------------------------------
(* The serials.                                                            *)

\* What a zone holds, and what a write carries with it.
ZoneContents == [inc : Nat, rrs : Seq(EngineRRs)]
WriteFields == {"kind", "zone", "auth", "inc", "freed", "ops", "soa", "serial", "readAt"}

\* The serial that a write of a zone is to set.
NextSerial(db, z) ==
  LET soa == Lookup(db, z, z, "SOA") IN IF soa = << >> THEN {} ELSE {BumpSerial(soa[1].num)}

\* A write w that goes on at label, when the zones db have changed v times: it
\* is made of records, and a serial read since the last change is current.
WriteInv(db, v, label, w) ==
  /\ WriteFields \subseteq DOMAIN w
  /\ w.ops \in Seq(Ops) /\ w.serial \in SUBSET Nat
  /\ label = "create" => w.soa \in Seq(EngineRRs) /\ w.soa # << >> /\ w.zone \in Name
  /\ label = "commit" /\ w.kind \in {"update", "PATCH"} =>
       w.readAt \in 0 .. v /\ (w.readAt = v => w.serial = NextSerial(db, w.zone))

\* Zones are made of records, and each serial that was read is current or known stale.
SerialInv ==
  /\ \A z \in DOMAIN zones : zones[z] \in ZoneContents
  /\ DOMAIN tx = Threads
  /\ \A t \in Threads : WriteInv(zones, version, pc[t], tx[t])

\* A thread that writes nothing has nothing to keep.
LEMMA NoTxInv ==
  ASSUME NEW db, NEW v
  PROVE  WriteInv(db, v, "idle", NoTx)
BY EmptySeq DEF WriteInv, NoTx, WriteFields

\* A zone has records, and so its SOA has a number.
LEMMA ZoneRecords ==
  ASSUME SerialInv, NEW z
  PROVE  /\ ListZone(zones, z) \in Seq(EngineRRs)
         /\ NextSerial(zones, z) \in SUBSET Nat
<1>1. ListZone(zones, z) \in Seq(EngineRRs)
  BY EmptySeq DEF SerialInv, ZoneContents, ListZone
<1> DEFINE soa == Lookup(zones, z, z, "SOA")
<1>2. soa \in Seq(EngineRRs)
  BY <1>1, LookupKept
<1>3. soa # << >> => soa[1] \in EngineRRs
  BY <1>2
<1>4. NextSerial(zones, z) = IF soa = << >> THEN {} ELSE {BumpSerial(soa[1].num)}
  BY DEF NextSerial
<1> HIDE DEF soa
<1>5. soa # << >> => BumpSerial(soa[1].num) \in Nat
  BY <1>3, EngineAssumption DEF EngineRRs, BumpSerial
<1> QED
  BY <1>1, <1>4, <1>5

\* What the step of another thread leaves of a write.
LEMMA WriteKept ==
  ASSUME NEW db, NEW db2, NEW v \in Nat, NEW v2, NEW label, NEW w, WriteInv(db, v, label, w),
         (db2 = db /\ v2 = v) \/ v2 = v + 1
  PROVE  WriteInv(db2, v2, label, w) /\ \A x : WriteInv(db2, v2, label, [w EXCEPT !.freed = x])
<1>1. WriteInv(db2, v2, label, w)
  BY DEF WriteInv
<1>2. ASSUME NEW x PROVE WriteInv(db2, v2, label, [w EXCEPT !.freed = x])
  <2> DEFINE u == [w EXCEPT !.freed = x]
  <2>1. /\ DOMAIN u = DOMAIN w /\ u.ops = w.ops /\ u.serial = w.serial /\ u.soa = w.soa
        /\ u.zone = w.zone /\ u.kind = w.kind /\ u.readAt = w.readAt
    BY <1>1 DEF WriteInv, WriteFields
  <2> HIDE DEF u
  <2>2. WriteInv(db2, v2, label, u)
    BY <1>1, <2>1 DEF WriteInv
  <2> QED
    BY <2>2 DEF u
<1> QED
  BY <1>1, <1>2

\* A thread that moves on with the write it has, or another.
LEMMA MovesKeepSerialInv ==
  ASSUME TypeOK, SerialInv, NEW t \in Threads, NEW label, NEW write,
         pc' = [pc EXCEPT ![t] = label],
         DOMAIN tx' = Threads, tx'[t] = write,
         \A s \in Threads \ {t} : tx'[s] = tx[s] \/ \E x : tx'[s] = [tx[s] EXCEPT !.freed = x],
         UNCHANGED <<zones, version>> \/ version' = version + 1,
         \A z \in DOMAIN zones' : zones'[z] \in ZoneContents,
         WriteInv(zones', version', label, write)
  PROVE  SerialInv'
<1>1. version \in Nat /\ pc'[t] = label /\ \A s \in Threads \ {t} : pc'[s] = pc[s]
  BY DEF TypeOK
<1>2. ASSUME NEW s \in Threads \ {t} PROVE WriteInv(zones', version', pc'[s], tx'[s])
  <2>1. WriteInv(zones, version, pc[s], tx[s])
    BY DEF SerialInv
  <2>2. PICK db, v, db2, v2 : db = zones /\ v = version /\ db2 = zones' /\ v2 = version'
    OBVIOUS
  <2>3. /\ WriteInv(db2, v2, pc[s], tx[s])
        /\ \A x : WriteInv(db2, v2, pc[s], [tx[s] EXCEPT !.freed = x])
    BY <1>1, <2>1, <2>2, WriteKept
  <2> QED
    BY <1>1, <2>2, <2>3
<1>3. \A s \in Threads : WriteInv(zones', version', pc'[s], tx'[s])
  BY <1>1, <1>2
<1> QED
  BY <1>3 DEF SerialInv

\* A commit to one zone leaves zones of records.
LEMMA CommitToTyped ==
  ASSUME TypeOK, SerialInv, NEW t \in Threads, NEW zone, NEW kind, CommitTo(t, zone, kind)
  PROVE  /\ version' = version + 1
         /\ DOMAIN zones' = DOMAIN zones
         /\ \A z \in DOMAIN zones' : zones'[z] \in ZoneContents
         /\ zone \in DOMAIN zones => \A n \in Nat : tx[t].serial = {n} =>
              \A i \in DOMAIN zones'[zone].rrs :
                zones'[zone].rrs[i].type = "SOA" /\ zones'[zone].rrs[i].name = zone =>
                  zones'[zone].rrs[i].num = n
<1> DEFINE after == Commit(zones[zone].rrs, zone, tx[t].ops, tx[t].serial)
<1>1. zones' = [zones EXCEPT ![zone].rrs = after] /\ version' = version + 1
  BY DEF CommitTo, Changed
<1>2. tx[t].ops \in Seq(Ops) /\ tx[t].serial \in SUBSET Nat
  BY DEF SerialInv, WriteInv
<1>3. zone \in DOMAIN zones => zones[zone].rrs \in Seq(EngineRRs)
  BY DEF SerialInv, ZoneContents
<1>4. zone \in DOMAIN zones =>
        /\ after \in Seq(EngineRRs)
        /\ \A n \in Nat : tx[t].serial = {n} =>
             \A i \in DOMAIN after : after[i].type = "SOA" /\ after[i].name = zone => after[i].num = n
  BY <1>2, <1>3, CommitRecords
<1> HIDE DEF after
<1>5. \A z \in DOMAIN zones : zones[z] \in ZoneContents
  BY DEF SerialInv
<1>6. DOMAIN zones' = DOMAIN zones /\ \A z \in DOMAIN zones' : zones'[z] \in ZoneContents
  BY <1>1, <1>4, <1>5 DEF ZoneContents
<1>7. zone \in DOMAIN zones => zones'[zone].rrs = after
  BY <1>1, <1>5 DEF ZoneContents
<1> QED
  BY <1>1, <1>4, <1>6, <1>7

\* The zones at start are made of records and nothing is being written.
LEMMA InitSerialInv == Init => SerialInv
<1> SUFFICES ASSUME Init PROVE SerialInv
  OBVIOUS
<1>1. \A z \in DOMAIN zones : zones[z] \in ZoneContents
  BY RequestsAssumption DEF Init, ZoneContents
<1>2. \A t \in Threads : pc[t] = "idle" /\ tx[t] = NoTx
  BY DEF Init
<1> QED
  BY <1>1, <1>2, NoTxInv DEF SerialInv, Init

\* Every step keeps the zones made of records and a serial read current.
LEMMA NextSerialInv == TypeOK /\ SerialInv /\ [Next]_vars => SerialInv'
<1> SUFFICES ASSUME TypeOK, SerialInv, [Next]_vars PROVE SerialInv'
  OBVIOUS
<1> USE DEF Goto
<1>t. /\ DOMAIN tx = Threads /\ \A z \in DOMAIN zones : zones[z] \in ZoneContents
      /\ \A t \in Threads : WriteInv(zones, version, pc[t], tx[t])
      /\ version \in Nat /\ nextInc \in Nat
  BY DEF SerialInv, TypeOK
<1>l. ASSUME NEW db, NEW v, NEW label, NEW w, WriteInv(db, v, label, w),
             NEW to, to \notin {"create", "commit"}
      PROVE  WriteInv(db, v, to, w)
  BY <1>l DEF WriteInv
\* The write goes on, is over, or goes on at a zone found.
<1>r. ASSUME NEW t \in Threads, Reply(t), UNCHANGED <<zones, version>> PROVE SerialInv'
  BY <1>r, <1>t, NoTxInv, MovesKeepSerialInv DEF Reply
<1>g. ASSUME NEW t \in Threads, NEW label, label \notin {"create", "commit"},
             pc' = [pc EXCEPT ![t] = label], UNCHANGED <<tx, zones, version>>
      PROVE  SerialInv'
  BY <1>g, <1>t, <1>l, MovesKeepSerialInv
<1>1. ASSUME NEW w \in Workers,
             ReceiveQuery(w) \/ CacheHit(w) \/ CacheMiss(w) \/ AnswerStep(w) \/ CachePut(w)
      PROVE  SerialInv'
  <2>1. UNCHANGED <<tx, zones, version>>
    BY <1>1 DEF ReceiveQuery, CacheHit, CacheMiss, AnswerStep, CachePut, history
  <2>2. \E label \in {"idle"} \cup ReadPCs : pc' = [pc EXCEPT ![w] = label]
    BY <1>1 DEF ReceiveQuery, CacheHit, CacheMiss, AnswerStep, CachePut, Respond, ReadPCs
  <2> QED
    BY <1>g, <2>1, <2>2 DEF Threads, ReadPCs
<1>b. ASSUME NEW t \in Threads, NEW label, NEW write, BeginWrite(t, write, label),
             WriteInv(zones, version, label, write)
      PROVE  SerialInv'
  <2>1. /\ UNCHANGED <<zones, version>>
        /\ pc' = [pc EXCEPT ![t] = label] /\ tx' = [tx EXCEPT ![t] = write]
    BY <1>b DEF BeginWrite, history
  <2> QED
    BY <1>b, <1>t, <2>1, MovesKeepSerialInv
<1>2. ASSUME NEW w \in Workers, ReceiveUpdate(w) PROVE SerialInv'
  <2>1. PICK u \in Updates :
          BeginWrite(w, [NoTx EXCEPT !.kind = "update", !.zone = u.zone, !.auth = u.auth,
                                     !.ops = UpdateOps(u.section)], "find")
    BY <1>2 DEF ReceiveUpdate
  <2> DEFINE ops == UpdateOps(u.section)
             write == [NoTx EXCEPT !.kind = "update", !.zone = u.zone, !.auth = u.auth, !.ops = ops]
  <2>2. ops \in Seq(Ops)
    BY UpdateOpsTyped
  <2>3. BeginWrite(w, write, "find")
    BY <2>1
  <2> HIDE DEF ops
  <2>4. WriteInv(zones, version, "find", write)
    BY <2>2 DEF NoTx, WriteInv, WriteFields
  <2> HIDE DEF write
  <2> QED
    BY <1>b, <2>3, <2>4 DEF Threads
<1>3. ASSUME ReceiveApi PROVE SerialInv'
  <2>1. PICK req \in ApiRequests :
          LET write == [NoTx EXCEPT !.kind = req.kind, !.zone = req.zone]
          IN  \/ /\ req.kind = "POST"
                 /\ BeginWrite(Api, [write EXCEPT !.ops = PostOps(req.rrsets),
                                                  !.soa = PostSoa(req)], "create")
              \/ /\ req.kind = "PATCH"
                 /\ BeginWrite(Api, [write EXCEPT !.ops = PatchOps(req.rrsets)], "find")
              \/ /\ req.kind = "DELETE"
                 /\ BeginWrite(Api, write, "find")
    BY <1>3 DEF ReceiveApi
  <2> DEFINE post == PostOps(req.rrsets)
             patch == PatchOps(req.rrsets)
             soa == PostSoa(req)
             kind == req.kind
             zone == req.zone
             base == [NoTx EXCEPT !.kind = kind, !.zone = zone]
             posted == [base EXCEPT !.ops = post, !.soa = soa]
             patched == [base EXCEPT !.ops = patch]
  <2>2. /\ post \in Seq(Ops) /\ patch \in Seq(Ops)
        /\ soa \in Seq(EngineRRs) /\ soa # << >> /\ zone \in Name
    BY PostTyped
  <2>3. \/ BeginWrite(Api, posted, "create") \/ BeginWrite(Api, patched, "find")
        \/ BeginWrite(Api, base, "find")
    BY <2>1
  <2> HIDE DEF post, patch, soa, kind, zone
  <2>4. /\ WriteInv(zones, version, "create", posted) /\ WriteInv(zones, version, "find", patched)
        /\ WriteInv(zones, version, "find", base)
    BY <2>2, EmptySeq DEF NoTx, WriteInv, WriteFields
  <2> HIDE DEF posted, patched, base
  <2> QED
    BY <1>b, <2>3, <2>4 DEF Threads
<1>4. ASSUME NEW t \in Threads, Find(t) PROVE SerialInv'
  <2>0. UNCHANGED <<zones, version>>
    BY <1>4 DEF Find, history
  <2>1. ASSUME NEW zone, tx' = [tx EXCEPT ![t].zone = zone], NEW label \in {"delete", "begin"},
               pc' = [pc EXCEPT ![t] = label]
        PROVE  SerialInv'
    <3> DEFINE write == [tx[t] EXCEPT !.zone = zone]
    <3>1. WriteInv(zones, version, label, write)
      <4>1. WriteInv(zones, version, pc[t], tx[t])
        BY <1>t
      <4> QED
        BY <4>1 DEF WriteInv, WriteFields
    <3>2. tx'[t] = write /\ DOMAIN tx' = Threads /\ \A s \in Threads \ {t} : tx'[s] = tx[s]
      BY <1>t, <2>1
    <3> HIDE DEF write
    <3> QED
      BY <1>t, <2>0, <2>1, <3>1, <3>2, MovesKeepSerialInv
  <2> QED
    BY <1>4, <1>r, <2>0, <2>1 DEF Find
<1>5. ASSUME NEW t \in Threads, Begin(t) PROVE SerialInv'
  <2>0. UNCHANGED <<zones, version>>
    BY <1>5 DEF Begin, history
  <2>1. ASSUME NEW inc, tx' = [tx EXCEPT ![t].inc = inc], NEW label \in {"commit", "soa"},
               label = "commit" => tx[t].kind = "POST", pc' = [pc EXCEPT ![t] = label]
        PROVE  SerialInv'
    <3> DEFINE write == [tx[t] EXCEPT !.inc = inc]
    <3>1. WriteInv(zones, version, label, write)
      <4>1. WriteInv(zones, version, pc[t], tx[t])
        BY <1>t
      <4> QED
        BY <2>1, <4>1 DEF WriteInv, WriteFields
    <3>2. tx'[t] = write /\ DOMAIN tx' = Threads /\ \A s \in Threads \ {t} : tx'[s] = tx[s]
      BY <1>t, <2>1
    <3> HIDE DEF write
    <3> QED
      BY <1>t, <2>0, <2>1, <3>1, <3>2, MovesKeepSerialInv
  <2> QED
    BY <1>5, <1>r, <2>0, <2>1 DEF Begin
<1>6. ASSUME NEW t \in Threads, ReadSoa(t) PROVE SerialInv'
  <2> DEFINE serial == NextSerial(zones, tx[t].zone)
             write == [tx[t] EXCEPT !.serial = serial, !.readAt = version]
  <2>1. /\ UNCHANGED <<zones, version>> /\ pc' = [pc EXCEPT ![t] = "commit"]
        /\ tx' = [tx EXCEPT ![t].serial = serial, ![t].readAt = version]
    BY <1>6 DEF ReadSoa, history, NextSerial
  <2>2. serial \in SUBSET Nat
    BY ZoneRecords
  <2>3. serial = NextSerial(zones, tx[t].zone)
    OBVIOUS
  <2> HIDE DEF serial
  <2>4. WriteInv(zones, version, "commit", write)
    <3>1. WriteInv(zones, version, pc[t], tx[t])
      BY <1>t
    <3>2. /\ DOMAIN write = DOMAIN tx[t] /\ write.ops = tx[t].ops /\ write.serial = serial
          /\ write.readAt = version /\ write.zone = tx[t].zone
      BY <3>1 DEF WriteInv, WriteFields
    <3> HIDE DEF write
    <3> QED
      BY <1>t, <2>2, <2>3, <3>1, <3>2 DEF WriteInv
  <2>5. tx'[t] = write /\ DOMAIN tx' = Threads /\ \A s \in Threads \ {t} : tx'[s] = tx[s]
    BY <1>t, <2>1
  <2> HIDE DEF write
  <2> QED
    BY <1>t, <2>1, <2>4, <2>5, MovesKeepSerialInv
<1>7. ASSUME NEW t \in Threads, Notify(t) PROVE SerialInv'
  BY <1>7, <1>r DEF Notify, history
<1>8. ASSUME NEW t \in Threads, Create(t) PROVE SerialInv'
  <2>0. WriteInv(zones, version, "create", tx[t])
    BY <1>8, <1>t DEF Create
  <2>1. CASE tx[t].zone \in DOMAIN zones
    BY <1>8, <1>r, <2>1 DEF Create
  <2>2. CASE tx[t].zone \notin DOMAIN zones
    <3>1. /\ zones' = CreateZone(zones, tx[t].zone, nextInc, tx[t].soa[1])
          /\ version' = version + 1
          /\ Reply(t) \/ (pc' = [pc EXCEPT ![t] = "find"] /\ UNCHANGED tx)
      BY <1>8, <2>2 DEF Create, Changed
    <3> DEFINE soa == [tx[t].soa[1] EXCEPT !.name = tx[t].zone, !.type = "SOA"]
    <3>2. soa \in EngineRRs
      <4>1. tx[t].soa[1] \in EngineRRs /\ tx[t].zone \in Name
        BY <2>0 DEF WriteInv
      <4> QED
        BY <4>1 DEF EngineRRs, Types, Name
    <3>3. zones' = [z \in DOMAIN zones \cup {tx[t].zone} |->
                     IF z = tx[t].zone THEN [inc |-> nextInc, rrs |-> <<soa>>] ELSE zones[z]]
      BY <3>1 DEF CreateZone
    <3> HIDE DEF soa
    <3>4. [inc |-> nextInc, rrs |-> <<soa>>] \in ZoneContents
      BY <1>t, <3>2 DEF ZoneContents
    <3>5. \A z \in DOMAIN zones' : zones'[z] \in ZoneContents
      BY <1>t, <3>3, <3>4
    <3>6. CASE Reply(t)
      BY <1>t, <3>1, <3>5, <3>6, NoTxInv, MovesKeepSerialInv DEF Reply
    <3>7. CASE pc' = [pc EXCEPT ![t] = "find"] /\ UNCHANGED tx
      <4>1. WriteInv(zones', version', "find", tx[t])
        BY <2>0 DEF WriteInv
      <4> QED
        BY <1>t, <3>1, <3>5, <3>7, <4>1, MovesKeepSerialInv
    <3> QED
      BY <3>1, <3>6, <3>7
  <2> QED
    BY <2>1, <2>2
\* A commit, and what comes after it.
<1>c. ASSUME NEW t \in Threads, AfterCommit(t),
             UNCHANGED <<zones, version>> \/ version' = version + 1,
             \A z \in DOMAIN zones' : zones'[z] \in ZoneContents
      PROVE  SerialInv'
  <2>1. CASE Reply(t)
    BY <1>c, <1>t, <2>1, NoTxInv, MovesKeepSerialInv DEF Reply
  <2>2. CASE pc' = [pc EXCEPT ![t] = "invalidate"] /\ UNCHANGED tx
    <3>1. WriteInv(zones', version', "invalidate", tx[t])
      BY <1>t DEF WriteInv
    <3> QED
      BY <1>c, <1>t, <2>2, <3>1, MovesKeepSerialInv
  <2> QED
    BY <1>c, <2>1, <2>2 DEF AfterCommit
<1>9. ASSUME NEW t \in Threads, CommitTx(t) PROVE SerialInv'
  <2>1. CommitTo(t, tx[t].zone, tx[t].kind) /\ AfterCommit(t)
    BY <1>9 DEF CommitTx
  <2> QED
    BY <1>c, <2>1, CommitToTyped
<1>10. ASSUME NEW t \in Threads, CommitDangling(t) PROVE SerialInv'
  <2>1. CASE UNCHANGED <<zones, version>> /\ AfterCommit(t)
    BY <1>c, <1>t, <2>1
  <2>2. ASSUME NEW zone, CommitTo(t, zone, "stray"), AfterCommit(t) PROVE SerialInv'
    BY <1>c, <2>2, CommitToTyped
  <2>3. CASE UNCHANGED <<zones, version, pc, tx>>
    BY <2>3 DEF SerialInv
  <2> QED
    BY <1>10, <2>1, <2>2, <2>3 DEF CommitDangling
<1>11. ASSUME NEW t \in Threads, Delete(t) PROVE SerialInv'
  <2>1. /\ version' = version + 1 /\ pc' = [pc EXCEPT ![t] = "invalidate"]
        /\ zones' = DeleteZone(zones, tx[t].zone)
        /\ tx' = [s \in Threads |-> IF tx[s].inc = zones[tx[t].zone].inc
                                    THEN [tx[s] EXCEPT !.freed = nextInc] ELSE tx[s]]
    BY <1>11 DEF Delete, Changed
  <2>2. \A s \in Threads : tx'[s] = tx[s] \/ tx'[s] = [tx[s] EXCEPT !.freed = nextInc]
    BY <2>1
  <2>3. \A z \in DOMAIN zones' : zones'[z] \in ZoneContents
    BY <1>t, <2>1 DEF DeleteZone
  <2> PICK db : db = zones'
    OBVIOUS
  <2>4. WriteInv(db, version', "invalidate", tx'[t])
    <3>1. WriteInv(zones, version, "invalidate", tx[t])
      BY <1>t, <1>l
    <3>2. /\ WriteInv(db, version', "invalidate", tx[t])
          /\ WriteInv(db, version', "invalidate", [tx[t] EXCEPT !.freed = nextInc])
      BY <1>t, <2>1, <3>1, WriteKept
    <3> QED
      BY <2>2, <3>2
  <2>5. DOMAIN tx' = Threads
    BY <2>1
  <2>6. \A s \in Threads \ {t} : tx'[s] = tx[s] \/ \E x : tx'[s] = [tx[s] EXCEPT !.freed = x]
    BY <2>2
  <2> QED
    BY <2>1, <2>3, <2>4, <2>5, <2>6, MovesKeepSerialInv
<1>12. ASSUME NEW t \in Threads, Invalidate(t) PROVE SerialInv'
  <2>1. UNCHANGED <<zones, version>>
    BY <1>12 DEF Invalidate
  <2>2. Reply(t) \/ (pc' = [pc EXCEPT ![t] = "notify"] /\ UNCHANGED tx)
    BY <1>12 DEF Invalidate
  <2> QED
    BY <1>r, <1>g, <2>1, <2>2
<1>13. CASE UNCHANGED vars
  BY <1>13 DEF vars, serverVars, history, SerialInv
<1> QED
  BY <1>1, <1>2, <1>3, <1>4, <1>5, <1>6, <1>7, <1>8, <1>9, <1>10, <1>11, <1>12, <1>13, NextCases
     DEF Bookkeeping, Writing

\* Whatever the zones and the writes, a commit whose serial is current moves
\* the serial of its zone one forward.
THEOREM UnracedWritesBump == Spec => UnracedSerialBumped
<1> DEFINE Bumps == \A t \in Threads :
       CommitTx(t) /\ tx[t].kind \in {"update", "PATCH"} /\ tx[t].readAt = version =>
         LET z == tx[t].zone
         IN  HasSerial(zones, z) /\ HasSerial(zones', z) =>
               Serial(zones', z) = BumpSerial(Serial(zones, z))
<1>1. TypeOK /\ SerialInv => Bumps
  <2> SUFFICES ASSUME TypeOK, SerialInv, NEW t \in Threads, CommitTx(t),
                      tx[t].kind \in {"update", "PATCH"}, tx[t].readAt = version,
                      NEW z, z = tx[t].zone, HasSerial(zones, z), HasSerial(zones', z)
               PROVE  Serial(zones', z) = BumpSerial(Serial(zones, z))
    OBVIOUS
  <2>1. pc[t] = "commit" /\ CommitTo(t, z, tx[t].kind)
    BY DEF CommitTx
  <2>2. tx[t].serial = NextSerial(zones, z)
    BY <2>1 DEF SerialInv, WriteInv
  <2>3. NextSerial(zones, z) = {BumpSerial(Serial(zones, z))}
    <3> DEFINE found == Lookup(zones, z, z, "SOA")
    <3>1. found # << >>
      <4>1. Len(found) = 1
        BY DEF HasSerial
      <4>2. found \in Seq(EngineRRs)
        BY ZoneRecords, LookupKept
      <4> HIDE DEF found
      <4> QED
        BY <4>1, <4>2, OneElement
    <3> QED
      BY <3>1 DEF NextSerial, Serial
  <2> DEFINE n == BumpSerial(Serial(zones, z))
             after == zones'[z].rrs
  <2>4. n \in Nat
    BY <2>3, ZoneRecords
  <2>5. z \in DOMAIN zones /\ z \in DOMAIN zones' /\ tx[t].serial = {n}
    BY <2>2, <2>3 DEF HasSerial
  <2> HIDE DEF n
  <2>6. /\ after \in Seq(EngineRRs)
        /\ \A i \in DOMAIN after : after[i].type = "SOA" /\ after[i].name = z => after[i].num = n
    <3>1. zones'[z] \in ZoneContents
      BY <2>1, <2>5, CommitToTyped
    <3> QED
      BY <2>1, <2>4, <2>5, <3>1, CommitToTyped DEF ZoneContents
  <2> PICK db : db = zones'
    OBVIOUS
  <2>7. ListZone(db, z) = after
    BY <2>5 DEF ListZone
  <2> HIDE DEF after
  <2> DEFINE soa == Lookup(db, z, z, "SOA")
  <2>8. /\ soa \in Seq(EngineRRs)
        /\ \A i \in DOMAIN soa : \E j \in DOMAIN after :
             soa[i] = after[j] /\ after[j].name = z /\ after[j].type = "SOA"
    <3>1. ListZone(db, z) \in Seq(EngineRRs)
      BY <2>6, <2>7
    <3>2. /\ soa \in Seq(EngineRRs)
          /\ \A i \in DOMAIN soa : \E j \in DOMAIN ListZone(db, z) :
               /\ soa[i] = ListZone(db, z)[j] /\ ListZone(db, z)[j].name = z
               /\ "SOA" # "ANY" => ListZone(db, z)[j].type = "SOA"
      BY <3>1, LookupKept
    <3> HIDE DEF soa
    <3> QED
      BY <2>7, <3>2
  <2>9. Len(soa) = 1
    BY DEF HasSerial
  <2> HIDE DEF soa
  <2>10. soa[1].num = n
    BY <2>6, <2>8, <2>9
  <2>11. Serial(db, z) = n
    BY <2>10 DEF Serial, soa
  <2> QED
    BY <2>11 DEF n
<1>2. SerialInv /\ TypeOK /\ [Next]_vars => SerialInv'
  BY NextSerialInv
<1>3. TypeOK /\ SerialInv /\ [Next]_vars => [Bumps]_vars
  BY <1>1
<1> QED
  BY <1>2, <1>3, InitSerialInv, TypeCorrect, PTL DEF Spec, UnracedSerialBumped

-----------------------------------------------------------------------------
(* A question is answered in so many calls when nothing is written.        *)

\* Where answerQuery can stand, and what its frame holds.
Calls == {"zone", "cut", "referral", "glue", "cname", "match", "wild", "wildcname",
          "exists", "soa", "done"}
FrameFields == {"at", "q", "zone", "name", "found", "hop", "todo", "resp"}
GlueCalls == {GlueTarget(rr) : rr \in EngineRRs} \X {"A", "AAAA"}

\* The zones db are made of records.
Zoned(db) == \A z \in DOMAIN db : db[z] \in ZoneContents

\* What is enough calls for the wildcards, the denial or the glue.
Walk(db, q) == 4 + 2 * Len(q.qname) + 2 * Len(ListZone(db, FindZone(db, q.qname)))

\* The frame f of the question q needs at most n calls more.
Ends(db, q, f, n) ==
  /\ FrameFields \subseteq DOMAIN f /\ f.q = q /\ f.at \in Calls
  /\ f.at \notin {"zone", "done"} => f.zone = FindZone(db, q.qname)
  /\ f.at = "zone" => f.hop = 0 /\ n >= MaxCalls(db, q)
  /\ f.at = "cut" => f.hop = 0 /\ n >= Walk(db, q) + 2 * MaxHops + 1
  /\ f.at = "referral" => n >= Walk(db, q)
  /\ f.at = "glue" => f.todo \in Seq(GlueCalls) /\ f.todo # << >> /\ n >= Len(f.todo)
  /\ f.at = "cname" => f.hop \in 0 .. MaxHops - 1 /\ n >= Walk(db, q) + 2 * (MaxHops - f.hop)
  /\ f.at = "match" => f.hop \in 0 .. MaxHops - 1 /\ n + 1 >= Walk(db, q) + 2 * (MaxHops - f.hop)
  /\ f.at = "wild" => f.name \in Name /\ n >= 2 * Len(f.name) + 4
  /\ f.at = "wildcname" => f.name \in Name /\ n >= 2 * Len(f.name) + 3
  /\ f.at = "exists" => n >= 2
  /\ f.at = "soa" => n >= 1

\* The bounds are numbers.
LEMMA WalkIs ==
  ASSUME NEW db, Zoned(db), NEW q, q.qname \in Name
  PROVE  LET zone == FindZone(db, q.qname)
         IN  /\ ListZone(db, zone) \in Seq(EngineRRs)
             /\ Len(q.qname) \in Nat /\ Len(ListZone(db, zone)) \in Nat
             /\ Walk(db, q) = 4 + 2 * Len(q.qname) + 2 * Len(ListZone(db, zone))
             /\ MaxCalls(db, q) = IF Enclosing(db, q.qname) = {} THEN 1
                                  ELSE Walk(db, q) + 2 * MaxHops + 2
             /\ MaxCalls(db, q) \in Nat \ {0} /\ Walk(db, q) \in Nat
<1> DEFINE zone == FindZone(db, q.qname)
<1>1. ListZone(db, zone) \in Seq(EngineRRs)
  BY EmptySeq DEF Zoned, ZoneContents, ListZone
<1> DEFINE l == Len(q.qname)
           r == Len(ListZone(db, zone))
<1>2. l \in Nat /\ r \in Nat
  BY <1>1, LenProperties DEF Name
<1>3. /\ Walk(db, q) = 4 + 2 * l + 2 * r
      /\ MaxCalls(db, q) = IF Enclosing(db, q.qname) = {} THEN 1 ELSE 6 + 2 * MaxHops + 2 * l + 2 * r
  BY DEF Walk, MaxCalls
<1>4. MaxHops \in Nat
  BY MaxHopsAssumption
<1> HIDE DEF l, r
<1>5. /\ MaxCalls(db, q) = IF Enclosing(db, q.qname) = {} THEN 1 ELSE Walk(db, q) + 2 * MaxHops + 2
      /\ MaxCalls(db, q) \in Nat \ {0} /\ Walk(db, q) \in Nat
  BY <1>2, <1>3, <1>4
<1> QED
  BY <1>1, <1>2, <1>3, <1>5 DEF l, r

\* A parent has a label less, until the root.
LEMMA ParentShorter ==
  ASSUME NEW n \in Name
  PROVE  /\ Parent(n) \in Name /\ Len(n) \in Nat /\ Len(Parent(n)) \in Nat
         /\ Len(Parent(n)) <= Len(n)
         /\ n # Root => Len(Parent(n)) = Len(n) - 1
<1>1. CASE Len(n) <= 1
  <2>1. Parent(n) = << >> /\ (n # Root => Len(n) = 1)
    BY <1>1 DEF Parent, Name, Root
  <2> QED
    BY <2>1, EmptySeq DEF Name
<1>2. CASE Len(n) > 1
  <2>1. Parent(n) = SubSeq(n, 2, Len(n)) /\ Len(n) \in Nat
    BY <1>2 DEF Parent, Name
  <2> QED
    BY <1>2, <2>1 DEF Name
<1>3. Len(n) \in Nat
  BY DEF Name
<1> QED
  BY <1>1, <1>2, <1>3

\* addGlue asks for the addresses of each record at most.
LEMMA GlueIsShort ==
  ASSUME NEW zone, NEW rrs \in Seq(EngineRRs)
  PROVE  /\ GlueLookups(zone, rrs) \in Seq(GlueCalls)
         /\ Len(GlueLookups(zone, rrs)) <= 2 * Len(rrs)
<1> DEFINE n == Len(rrs)
           Of(i) == << <<GlueTarget(rrs[i]), "A">>, <<GlueTarget(rrs[i]), "AAAA">> >>
           of(i) == IF InZone(GlueTarget(rrs[i]), zone) THEN Of(i) ELSE << >>
           seqs == [i \in 1 .. n |-> of(i)]
<1>1. n \in Nat /\ DOMAIN rrs = 1 .. n /\ \A i \in 1 .. n : rrs[i] \in EngineRRs
  BY LenProperties
<1>2. GlueLookups(zone, rrs) = FlattenSeq(seqs)
  BY <1>1 DEF GlueLookups
<1>3. \A i \in 1 .. n : of(i) \in Seq(GlueCalls) /\ Len(of(i)) <= 2
  <2> TAKE i \in 1 .. n
  <2>1. <<GlueTarget(rrs[i]), "A">> \in GlueCalls /\ <<GlueTarget(rrs[i]), "AAAA">> \in GlueCalls
    BY <1>1 DEF GlueCalls
  <2>2. \A a \in GlueCalls, b \in GlueCalls : <<a, b>> \in Seq(GlueCalls) /\ Len(<<a, b>>) = 2
    OBVIOUS
  <2>3. << >> \in Seq(GlueCalls) /\ Len(<< >>) = 0
    BY EmptySeq
  <2> PICK a, b : a = <<GlueTarget(rrs[i]), "A">> /\ b = <<GlueTarget(rrs[i]), "AAAA">>
    OBVIOUS
  <2>4. of(i) = <<a, b>> \/ of(i) = << >>
    OBVIOUS
  <2> HIDE DEF of
  <2>5. <<a, b>> \in Seq(GlueCalls) /\ Len(<<a, b>>) = 2
    BY <2>1, <2>2
  <2> PICK s, c : s = of(i) /\ c = <<a, b>>
    OBVIOUS
  <2>6. c \in Seq(GlueCalls) /\ Len(c) = 2 /\ s \in {c, << >>}
    BY <2>4, <2>5
  <2>7. s \in Seq(GlueCalls) /\ Len(s) \in {0, 2}
    <3>1. CASE s = c
      BY <2>6, <3>1
    <3>2. CASE s = << >>
      BY <2>3, <3>2
    <3> QED
      BY <2>6, <3>1, <3>2
  <2>8. Len(s) <= 2
    <3> PICK n0 : n0 = Len(s)
      OBVIOUS
    <3>1. n0 = 0 \/ n0 = 2
      BY <2>7
    <3>2. n0 <= 2
      BY <3>1
    <3> QED
      BY <3>2
  <2> QED
    BY <2>7, <2>8
<1> HIDE DEF of, n
<1>4. seqs \in Seq(Seq(GlueCalls)) /\ Len(seqs) = n /\ \A i \in DOMAIN seqs : Len(seqs[i]) <= 2
  BY <1>1, <1>3, IsASeq
<1> HIDE DEF seqs
<1> QED
  BY <1>2, <1>4, FlattenSeqIsSeq, FlattenSeqIsShort DEF n

\* A response that is complete.
LEMMA DoneEnds ==
  ASSUME NEW db, NEW q, NEW f, NEW n, FrameFields \subseteq DOMAIN f, f.q = q
  PROVE  Ends(db, q, Done(f), n)
<1> DEFINE g == Done(f)
<1>1. FrameFields \subseteq DOMAIN g /\ g.q = q /\ g.at = "done"
  BY DEF Done, FrameFields
<1> HIDE DEF g
<1>2. Ends(db, q, g, n)
  BY <1>1 DEF Ends, Calls
<1> QED
  BY <1>2 DEF g

\* A referral: two calls for each of its name servers.
LEMMA WithGlueEnds ==
  ASSUME NEW db, Zoned(db), NEW q, q.qname \in Name, NEW f, NEW n \in Nat,
         FrameFields \subseteq DOMAIN f, f.q = q, f.zone = FindZone(db, q.qname),
         NEW rrs \in Seq(EngineRRs), Len(rrs) <= Len(ListZone(db, f.zone)), n + 1 >= Walk(db, q)
  PROVE  Ends(db, q, WithGlue(f, rrs), n)
<1> DEFINE todo == GlueLookups(f.zone, rrs)
<1>1. todo \in Seq(GlueCalls) /\ Len(todo) <= 2 * Len(rrs) /\ Len(todo) \in Nat /\ Len(rrs) \in Nat
  BY GlueIsShort, LenProperties
<1>2. n >= Len(todo)
  <2> DEFINE a == Len(todo)
             b == Len(rrs)
             c == Len(ListZone(db, f.zone))
             l == Len(q.qname)
  <2>1. c \in Nat /\ l \in Nat /\ Walk(db, q) = 4 + 2 * l + 2 * c
    BY WalkIs
  <2>2. a \in Nat /\ b \in Nat /\ a <= 2 * b /\ b <= c
    BY <1>1
  <2> HIDE DEF a, b, c, l
  <2>3. n >= a
    BY <2>1, <2>2
  <2> QED
    BY <2>3 DEF a
<1> HIDE DEF todo
<1>3. CASE todo = << >>
  BY <1>3, DoneEnds DEF WithGlue, todo
<1>4. CASE todo # << >>
  <2> DEFINE g == [f EXCEPT !.at = "glue", !.todo = todo]
  <2>1. WithGlue(f, rrs) = g
    BY <1>4 DEF WithGlue, todo
  <2>2. /\ FrameFields \subseteq DOMAIN g /\ g.q = q /\ g.at = "glue" /\ g.zone = f.zone
        /\ g.todo = todo
    BY DEF FrameFields
  <2> HIDE DEF g
  <2>3. Ends(db, q, g, n)
    BY <1>1, <1>2, <1>4, <2>2 DEF Ends, Calls
  <2> QED
    BY <2>1, <2>3
<1> QED
  BY <1>3, <1>4

\* The wildcards: two calls for each label of the name.
LEMMA TryWildcardEnds ==
  ASSUME NEW db, NEW q, NEW f, NEW n \in Nat,
         FrameFields \subseteq DOMAIN f, f.q = q, f.zone = FindZone(db, q.qname),
         NEW p \in Name, n >= 2 * Len(p) + 4
  PROVE  Ends(db, q, TryWildcard(f, p), n)
<1> DEFINE g == TryWildcard(f, p)
<1>1. /\ FrameFields \subseteq DOMAIN g /\ g.q = q /\ g.at \in {"wild", "exists"} /\ g.zone = f.zone
      /\ g.name = p
  BY DEF FrameFields, TryWildcard
<1>2. Len(p) \in Nat
  BY DEF Name
<1> HIDE DEF g
<1>3. Ends(db, q, g, n)
  BY <1>1, <1>2 DEF Ends, Calls
<1> QED
  BY <1>3 DEF g

\* Each call brings the answer nearer, whatever the zone holds: aliases that
\* run in circles, delegations below each other, names of one label.
LEMMA StepEnds ==
  ASSUME NEW db, Zoned(db), NEW q, q.qname \in Name,
         NEW f, NEW n \in Nat, Ends(db, q, f, n), f.at # "done"
  PROVE  n # 0 /\ Ends(db, q, Step(db, f), n - 1)
<1> DEFINE w == Walk(db, q)
           l == Len(q.qname)
<1>0. /\ FrameFields \subseteq DOMAIN f /\ f.q = q /\ f.at \in Calls /\ MaxHops \in Nat \ {0}
      /\ f.at # "zone" => f.zone = FindZone(db, q.qname)
  BY MaxHopsAssumption DEF Ends
<1>w. w \in Nat /\ l \in Nat /\ w >= 4 + 2 * l
  <2> DEFINE r == Len(ListZone(db, FindZone(db, q.qname)))
  <2>1. r \in Nat /\ l \in Nat /\ w = 4 + 2 * l + 2 * r
    BY WalkIs
  <2> HIDE DEF r, l, w
  <2> QED
    BY <2>1
<1>p. Parent(q.qname) \in Name /\ Len(Parent(q.qname)) \in Nat /\ Len(Parent(q.qname)) <= l
  BY ParentShorter
<1> HIDE DEF w, l
\* A call that leaves n - 1 of n, and where it goes.
<1>g. ASSUME NEW g, FrameFields \subseteq DOMAIN g, g.q = q, g.at \in Calls, g.zone = FindZone(db, q.qname),
             g.at \notin {"zone", "glue"},
             g.at = "cut" => g.hop = 0 /\ n - 1 >= w + 2 * MaxHops + 1,
             g.at = "referral" => n - 1 >= w,
             g.at = "cname" => g.hop \in 0 .. MaxHops - 1 /\ n - 1 >= w + 2 * (MaxHops - g.hop),
             g.at = "match" => g.hop \in 0 .. MaxHops - 1 /\ n >= w + 2 * (MaxHops - g.hop),
             g.at = "wild" => g.name \in Name /\ n - 1 >= 2 * Len(g.name) + 4,
             g.at = "wildcname" => g.name \in Name /\ n - 1 >= 2 * Len(g.name) + 3,
             g.at = "exists" => n - 1 >= 2,
             g.at = "soa" => n - 1 >= 1
      PROVE  Ends(db, q, g, n - 1)
  BY <1>g DEF Ends, w
<1>1. CASE f.at = "zone"
  <2>1. f.hop = 0 /\ n >= MaxCalls(db, q) /\ Step(db, f) = ZoneStep(db, f)
    BY <1>1 DEF Ends, Step
  <2>2. CASE Enclosing(db, q.qname) = {}
    <3> DEFINE g == [f EXCEPT !.resp.rcode = "REFUSED"]
    <3>1. FrameFields \subseteq DOMAIN g /\ g.q = q
      BY <1>0 DEF FrameFields
    <3>2. Step(db, f) = Done(g)
      BY <1>0, <2>1, <2>2 DEF ZoneStep
    <3>3. n # 0
      <4>1. MaxCalls(db, q) \in Nat \ {0}
        BY WalkIs
      <4> QED
        BY <2>1, <4>1
    <3> HIDE DEF g
    <3> QED
      BY <3>1, <3>2, <3>3, DoneEnds
  <2>3. CASE Enclosing(db, q.qname) # {}
    <3> DEFINE g == [f EXCEPT !.zone = FindZone(db, q.qname), !.at = "cut"]
    <3>1. /\ FrameFields \subseteq DOMAIN g /\ g.q = q /\ g.at = "cut" /\ g.hop = 0
          /\ g.zone = FindZone(db, q.qname)
      BY <1>0, <2>1 DEF FrameFields
    <3>2. Step(db, f) = g
      BY <1>0, <2>1, <2>3 DEF ZoneStep
    <3>3. n >= w + 2 * MaxHops + 2
      BY <2>1, <2>3, WalkIs DEF w
    <3> HIDE DEF g
    <3> QED
      BY <1>0, <1>w, <1>g, <3>1, <3>2, <3>3 DEF Calls
  <2> QED
    BY <2>2, <2>3
<1>2. CASE f.at = "cut"
  <2>1. f.hop = 0 /\ n >= w + 2 * MaxHops + 1 /\ Step(db, f) = CutStep(db, f)
    BY <1>2 DEF Ends, Step, w
  <2> DEFINE cut == FindDelegation(db, f.zone, q.qname)
             auth == [f EXCEPT !.resp.aa = TRUE]
             ref == [f EXCEPT !.name = cut, !.at = "referral"]
             hinfo == AddAnswers(auth, <<Hinfo(q.qname)>>)
             own == [auth EXCEPT !.at = "cname"]
  <2>2. Step(db, f) \in {ref, Done(hinfo), own}
    BY <1>0, <2>1 DEF CutStep
  <2>3. /\ FrameFields \subseteq DOMAIN ref /\ ref.q = q /\ ref.at = "referral" /\ ref.zone = f.zone
        /\ FrameFields \subseteq DOMAIN own /\ own.q = q /\ own.at = "cname" /\ own.zone = f.zone
        /\ own.hop = f.hop
        /\ FrameFields \subseteq DOMAIN hinfo /\ hinfo.q = q
    BY <1>0 DEF FrameFields, AddAnswers
  <2> HIDE DEF ref, own, hinfo
  <2>4. Ends(db, q, ref, n - 1)
    BY <1>0, <1>2, <1>w, <1>g, <2>1, <2>3 DEF Calls
  <2>5. Ends(db, q, own, n - 1)
    BY <1>0, <1>2, <1>w, <1>g, <2>1, <2>3 DEF Calls
  <2>6. n # 0 /\ Ends(db, q, Done(hinfo), n - 1)
    BY <1>0, <1>w, <2>1, <2>3, DoneEnds
  <2> QED
    BY <2>2, <2>4, <2>5, <2>6
<1>3. CASE f.at = "referral"
  <2> DEFINE ns == Lookup(db, f.zone, f.name, "NS")
             g == [f EXCEPT !.resp.authority = @ \o ns]
  <2>1. n >= w /\ Step(db, f) = WithGlue(g, ns)
    BY <1>3 DEF Ends, Step, ReferralStep, w
  <2>2. /\ FrameFields \subseteq DOMAIN g /\ g.q = q /\ g.zone = f.zone
    BY <1>0 DEF FrameFields
  <2>3. ns \in Seq(EngineRRs) /\ Len(ns) <= Len(ListZone(db, f.zone))
    <3>1. ListZone(db, f.zone) \in Seq(EngineRRs)
      BY <1>0, <1>3, WalkIs
    <3> QED
      BY <3>1, LookupKept
  <2>4. n - 1 \in Nat /\ n # 0 /\ (n - 1) + 1 >= Walk(db, q)
    BY <1>w, <2>1 DEF w
  <2> HIDE DEF g, ns
  <2> QED
    BY <1>0, <1>3, <2>1, <2>2, <2>3, <2>4, WithGlueEnds
<1>4. CASE f.at = "glue"
  <2> DEFINE call == Head(f.todo)
             g == [f EXCEPT !.resp.additional = @ \o Lookup(db, f.zone, call[1], call[2]),
                            !.todo = Tail(@)]
  <2>1. /\ f.todo \in Seq(GlueCalls) /\ f.todo # << >> /\ n >= Len(f.todo)
        /\ Step(db, f) = IF g.todo = << >> THEN Done(g) ELSE g
    BY <1>4 DEF Ends, Step, GlueStep
  <2>2. Tail(f.todo) \in Seq(GlueCalls) /\ Len(Tail(f.todo)) = Len(f.todo) - 1 /\ Len(f.todo) \in Nat
    BY <2>1
  <2>3. /\ FrameFields \subseteq DOMAIN g /\ g.q = q /\ g.at = "glue" /\ g.zone = f.zone
        /\ g.todo = Tail(f.todo)
    BY <1>0, <1>4 DEF FrameFields
  <2> HIDE DEF g
  <2>4. n # 0
    BY <2>1, <2>2
  <2>5. CASE g.todo = << >>
    BY <2>1, <2>3, <2>4, <2>5, DoneEnds
  <2>6. CASE g.todo # << >>
    <3>1. n - 1 >= Len(g.todo)
      BY <2>1, <2>2, <2>3
    <3>2. Ends(db, q, g, n - 1)
      BY <1>0, <1>4, <2>2, <2>3, <2>6, <3>1 DEF Ends, Calls
    <3> QED
      BY <2>1, <2>4, <2>6, <3>2
  <2> QED
    BY <2>5, <2>6
<1>5. CASE f.at = "cname"
  <2> DEFINE g == [f EXCEPT !.found = Lookup(db, f.zone, f.name, "CNAME"), !.at = "match"]
  <2>1. f.hop \in 0 .. MaxHops - 1 /\ n >= w + 2 * (MaxHops - f.hop) /\ Step(db, f) = g
    BY <1>5 DEF Ends, Step, CnameStep, w
  <2>2. /\ FrameFields \subseteq DOMAIN g /\ g.q = q /\ g.at = "match" /\ g.zone = f.zone /\ g.hop = f.hop
    BY <1>0 DEF FrameFields
  <2> HIDE DEF g
  <2>3. n # 0
    BY <1>0, <1>w, <2>1
  <2>4. Ends(db, q, g, n - 1)
    BY <1>0, <1>5, <1>w, <1>g, <2>1, <2>2 DEF Calls
  <2> QED
    BY <2>1, <2>3, <2>4
<1>6. CASE f.at = "match"
  <2>1. f.hop \in 0 .. MaxHops - 1 /\ n + 1 >= w + 2 * (MaxHops - f.hop) /\ Step(db, f) = MatchStep(db, f)
    BY <1>6 DEF Ends, Step, w
  <2>2. n - 1 \in Nat /\ n # 0 /\ n >= w + 1 /\ f.zone = FindZone(db, q.qname)
    BY <1>0, <1>6, <1>w, <2>1
  <2> DEFINE match == Lookup(db, f.zone, f.name, q.qtype)
             isAlias == q.qtype # "CNAME" /\ f.found # << >>
             target == f.found[1].target
             next == [AddAnswers(f, f.found) EXCEPT !.name = target, !.hop = @ + 1, !.found = << >>]
             chase == [next EXCEPT !.at = "cname"]
             parent == Parent(q.qname)
             own == AddAnswers([f EXCEPT !.found = << >>], match)
  <2>3. \/ Step(db, f) = Done(next)
        \/ next.hop < MaxHops /\ Step(db, f) = chase
        \/ Step(db, f) \in {TryWildcard(next, parent), TryWildcard(f, parent), Done(own), WithGlue(own, match)}
    BY <1>0, <2>1 DEF MatchStep
  <2>4. /\ FrameFields \subseteq DOMAIN next /\ next.q = q /\ next.zone = f.zone /\ next.hop = f.hop + 1
        /\ FrameFields \subseteq DOMAIN chase /\ chase.q = q /\ chase.zone = f.zone
        /\ chase.at = "cname" /\ chase.hop = next.hop
        /\ FrameFields \subseteq DOMAIN own /\ own.q = q /\ own.zone = f.zone
    BY <1>0 DEF FrameFields, AddAnswers
  <2>5. match \in Seq(EngineRRs) /\ Len(match) <= Len(ListZone(db, f.zone))
    BY <2>2, WalkIs, LookupKept
  <2>6. n - 1 >= 2 * Len(parent) + 4
    BY <1>p, <1>w, <2>2
  <2> HIDE DEF next, chase, own, match, parent
  <2>7. Ends(db, q, Done(next), n - 1) /\ Ends(db, q, Done(own), n - 1)
    BY <2>4, DoneEnds
  <2>8. Ends(db, q, TryWildcard(next, parent), n - 1) /\ Ends(db, q, TryWildcard(f, parent), n - 1)
    BY <1>0, <1>p, <2>2, <2>4, <2>6, TryWildcardEnds DEF parent
  <2>9. Ends(db, q, WithGlue(own, match), n - 1)
    <3>1. (n - 1) + 1 >= Walk(db, q)
      BY <1>w, <2>2 DEF w
    <3> QED
      BY <2>2, <2>4, <2>5, <3>1, WithGlueEnds
  <2>10. next.hop < MaxHops => Ends(db, q, chase, n - 1)
    <3>1. SUFFICES ASSUME next.hop < MaxHops PROVE Ends(db, q, chase, n - 1)
      OBVIOUS
    <3>2. chase.hop \in 0 .. MaxHops - 1 /\ n - 1 >= w + 2 * (MaxHops - chase.hop)
      <4> DEFINE h == f.hop
                 c == chase.hop
      <4>1. c = h + 1 /\ c < MaxHops /\ h \in Nat /\ n + 1 >= w + 2 * (MaxHops - h)
        BY <2>1, <2>4, <3>1
      <4> HIDE DEF h, c
      <4>2. c \in 0 .. MaxHops - 1 /\ n - 1 >= w + 2 * (MaxHops - c)
        BY <1>0, <1>w, <4>1
      <4> QED
        BY <4>2 DEF c
    <3> QED
      BY <1>0, <1>6, <1>g, <2>2, <2>4, <3>2 DEF Calls
  <2> QED
    BY <2>2, <2>3, <2>7, <2>8, <2>9, <2>10
<1>7. CASE f.at = "wild"
  <2> DEFINE g == [f EXCEPT !.found = Lookup(db, f.zone, Wildcard(f.name), f.q.qtype), !.at = "wildcname"]
  <2>1. f.name \in Name /\ n >= 2 * Len(f.name) + 4 /\ Step(db, f) = g
    BY <1>7 DEF Ends, Step, WildStep
  <2>2. /\ FrameFields \subseteq DOMAIN g /\ g.q = q /\ g.at = "wildcname" /\ g.zone = f.zone
        /\ g.name = f.name
    BY <1>0 DEF FrameFields
  <2> HIDE DEF g
  <2>3. Len(f.name) \in Nat
    BY <2>1, ParentShorter
  <2>4. Ends(db, q, g, n - 1)
    BY <1>0, <1>7, <1>g, <2>1, <2>2, <2>3 DEF Calls
  <2> QED
    BY <2>1, <2>3, <2>4
<1>8. CASE f.at = "wildcname"
  <2>1. f.name \in Name /\ n >= 2 * Len(f.name) + 3 /\ Step(db, f) = WildCnameStep(db, f)
    BY <1>8 DEF Ends, Step
  <2>2. /\ Parent(f.name) \in Name /\ Len(f.name) \in Nat
        /\ f.name # Root => Len(Parent(f.name)) = Len(f.name) - 1
    BY <2>1, ParentShorter
  <2>3. n - 1 \in Nat /\ n # 0 /\ f.zone = FindZone(db, q.qname)
    BY <1>0, <1>8, <2>1, <2>2
  <2> DEFINE cname == Lookup(db, f.zone, Wildcard(f.name), "CNAME")
             wild == IF f.found = << >> THEN cname ELSE f.found
             synth == [i \in DOMAIN wild |-> [wild[i] EXCEPT !.name = q.qname]]
             own == AddAnswers(f, synth)
             none == [f EXCEPT !.at = "exists"]
             above == TryWildcard(f, Parent(f.name))
  <2>4. Step(db, f) \in {Done(own), none} \/ (f.name # Root /\ Step(db, f) = above)
    BY <1>0, <2>1 DEF WildCnameStep
  <2>5. /\ FrameFields \subseteq DOMAIN own /\ own.q = q
        /\ FrameFields \subseteq DOMAIN none /\ none.q = q /\ none.at = "exists" /\ none.zone = f.zone
    BY <1>0 DEF FrameFields, AddAnswers
  <2> HIDE DEF own, none
  <2>6. Ends(db, q, Done(own), n - 1)
    BY <2>5, DoneEnds
  <2>7. Ends(db, q, none, n - 1)
    BY <1>g, <2>1, <2>2, <2>3, <2>5 DEF Calls
  <2>8. f.name # Root => Ends(db, q, above, n - 1)
    <3>1. SUFFICES ASSUME f.name # Root PROVE Ends(db, q, above, n - 1)
      OBVIOUS
    <3>2. n - 1 >= 2 * Len(Parent(f.name)) + 4
      BY <2>1, <2>2, <3>1
    <3> QED
      BY <1>0, <2>2, <2>3, <3>2, TryWildcardEnds
  <2> QED
    BY <2>3, <2>4, <2>6, <2>7, <2>8
<1>9. CASE f.at = "exists"
  <2> DEFINE g == [f EXCEPT !.at = "soa",
                            !.resp.rcode = IF NameExists(db, f.zone, f.q.qname) THEN @ ELSE "NXDOMAIN"]
  <2>1. n >= 2 /\ Step(db, f) = g
    BY <1>9 DEF Ends, Step, ExistsStep
  <2>2. FrameFields \subseteq DOMAIN g /\ g.q = q /\ g.at = "soa" /\ g.zone = f.zone
    BY <1>0 DEF FrameFields
  <2> HIDE DEF g
  <2>3. Ends(db, q, g, n - 1)
    BY <1>0, <1>9, <1>g, <2>1, <2>2 DEF Calls
  <2> QED
    BY <2>1, <2>3
<1>10. CASE f.at = "soa"
  <2> DEFINE g == [f EXCEPT !.resp.authority = @ \o Lookup(db, f.zone, f.zone, "SOA")]
  <2>1. n >= 1 /\ Step(db, f) = Done(g)
    BY <1>10 DEF Ends, Step, SoaStep
  <2>2. FrameFields \subseteq DOMAIN g /\ g.q = q
    BY <1>0 DEF FrameFields
  <2> HIDE DEF g
  <2> QED
    BY <2>1, <2>2, DoneEnds
<1> QED
  BY <1>0, <1>1, <1>2, <1>3, <1>4, <1>5, <1>6, <1>7, <1>8, <1>9, <1>10 DEF Calls

\* The frames of the first m calls.
Went(r, db, q, m) ==
  /\ DOMAIN r = 0 .. m /\ r[0] = Start(q)
  /\ \A n \in 1 .. m : r[n] = Goes(db, r[n - 1])

\* The recursive function Run takes one call after the other.
LEMMA RunIs ==
  ASSUME NEW db, NEW q, MaxCalls(db, q) \in Nat
  PROVE  Went(Run(db, q), db, q, MaxCalls(db, q))
<1> DEFINE max == MaxCalls(db, q)
           Found == {m \in Nat : \E r : Went(r, db, q, m)}
           Iter(r) == r = [n \in 0 .. max |-> IF n = 0 THEN Start(q) ELSE Goes(db, r[n - 1])]
           run == CHOOSE r : Iter(r)
<1>1. 0 \in Found
  <2>1. Went([i \in 0 .. 0 |-> Start(q)], db, q, 0)
    BY DEF Went
  <2> QED
    BY <2>1
<1>2. ASSUME NEW m \in Nat, m \in Found PROVE m + 1 \in Found
  <2>1. PICK r : Went(r, db, q, m)
    BY <1>2
  <2> DEFINE last == Goes(db, r[m])
             g == [i \in 0 .. m + 1 |-> IF i = m + 1 THEN last ELSE r[i]]
  <2>2. DOMAIN g = 0 .. m + 1 /\ g[m + 1] = last /\ \A i \in 0 .. m : g[i] = r[i]
    <3>1. m + 1 \in 0 .. m + 1 /\ \A i \in 0 .. m : i \in 0 .. m + 1 /\ i # m + 1
      OBVIOUS
    <3> HIDE DEF last
    <3> QED
      BY <3>1
  <2>3. last = Goes(db, r[m])
    OBVIOUS
  <2> HIDE DEF g, last
  <2>4. ASSUME NEW i \in 1 .. m + 1 PROVE g[i] = Goes(db, g[i - 1])
    <3>1. CASE i = m + 1
      <4>1. i - 1 = m /\ m \in 0 .. m
        BY <3>1
      <4> QED
        BY <2>2, <2>3, <3>1, <4>1
    <3>2. CASE i # m + 1
      <4>1. i \in 1 .. m /\ i \in 0 .. m /\ i - 1 \in 0 .. m
        BY <3>2
      <4> QED
        BY <2>1, <2>2, <4>1 DEF Went
    <3> QED
      BY <3>1, <3>2
  <2>5. g[0] = Start(q)
    BY <2>1, <2>2 DEF Went
  <2>6. Went(g, db, q, m + 1)
    BY <2>2, <2>4, <2>5 DEF Went
  <2> QED
    BY <2>6
<1>3. max \in Found
  <2> HIDE DEF Found, max
  <2>1. max \in Nat
    BY DEF max
  <2> QED
    BY <1>1, <1>2, <2>1, NatsBySteps
<1>4. PICK r : Went(r, db, q, max)
  BY <1>3
<1>5. Run(db, q) = run
  BY Zenon DEF Run
<1>n. max \in Nat
  OBVIOUS
<1> HIDE DEF max
<1>6. Iter([n \in 0 .. max |-> r[n]])
  <2>1. ASSUME NEW n \in 0 .. max
        PROVE  r[n] = IF n = 0 THEN Start(q) ELSE Goes(db, [k \in 0 .. max |-> r[k]][n - 1])
    <3>1. CASE n = 0
      BY <1>4, <3>1 DEF Went
    <3>2. CASE n # 0
      <4>1. n \in 1 .. max /\ n - 1 \in 0 .. max
        BY <1>n, <3>2
      <4> QED
        BY <1>4, <3>2, <4>1 DEF Went
    <3> QED
      BY <3>1, <3>2
  <2> QED
    BY <2>1
<1>7. Iter(run)
  <2> HIDE DEF Iter
  <2> QED
    BY <1>6
<1> HIDE DEF run
<1>8. Went(run, db, q, max)
  <2>1. DOMAIN run = 0 .. max /\ \A n \in 0 .. max : run[n] = IF n = 0 THEN Start(q) ELSE Goes(db, run[n - 1])
    BY <1>7
  <2>2. 0 \in 0 .. max /\ \A n \in 1 .. max : n \in 0 .. max /\ n # 0
    BY DEF max
  <2> QED
    BY <2>1, <2>2 DEF Went
<1> QED
  BY <1>5, <1>8 DEF max

\* Within MaxCalls calls the answer is done, and stays as it is.
LEMMA RunEnds ==
  ASSUME NEW db, Zoned(db), NEW q, q.qname \in Name
  PROVE  LET run == Run(db, q)
             max == MaxCalls(db, q)
         IN  /\ max \in Nat /\ Went(run, db, q, max)
             /\ \A n \in 0 .. max : Ends(db, q, run[n], max - n)
             /\ \A n \in 0 .. max : run[n].at = "done" => run[max] = run[n]
             /\ run[max].at = "done"
<1> DEFINE run == Run(db, q)
           max == MaxCalls(db, q)
<1>1. max \in Nat
  BY WalkIs
<1>2. Went(run, db, q, max)
  BY <1>1, RunIs
<1> HIDE DEF run, max
<1> DEFINE Good == {n \in Nat : n <= max => Ends(db, q, run[n], max - n)}
<1>3. 0 \in Good
  <2>1. run[0] = Start(q) /\ max - 0 = max
    BY <1>1, <1>2 DEF Went
  <2>2. Ends(db, q, Start(q), max)
    <3> PICK f : f = Start(q)
      OBVIOUS
    <3>1. FrameFields \subseteq DOMAIN f /\ f.q = q /\ f.at = "zone" /\ f.hop = 0
      BY DEF Start, FrameFields
    <3>2. Ends(db, q, f, max)
      BY <1>1, <3>1 DEF Ends, Calls, max
    <3> QED
      BY <3>2
  <2> QED
    BY <2>1, <2>2
<1>4. ASSUME NEW n \in Nat, n \in Good PROVE n + 1 \in Good
  <2>1. SUFFICES ASSUME n + 1 <= max PROVE Ends(db, q, run[n + 1], max - (n + 1))
    OBVIOUS
  <2>2. Ends(db, q, run[n], max - n) /\ max - n \in Nat /\ (max - n) - 1 = max - (n + 1)
    BY <1>1, <1>4, <2>1
  <2>3. run[n + 1] = Goes(db, run[n])
    <3>1. n + 1 \in 1 .. max /\ (n + 1) - 1 = n
      BY <1>1, <2>1
    <3> QED
      BY <1>2, <3>1 DEF Went
  <2>4. CASE run[n].at = "done"
    <3>1. run[n + 1] = run[n]
      BY <2>3, <2>4 DEF Goes
    <3> QED
      BY <2>2, <2>4, <3>1 DEF Ends
  <2>5. CASE run[n].at # "done"
    <3>1. run[n + 1] = Step(db, run[n])
      BY <2>3, <2>5 DEF Goes
    <3> QED
      BY <2>2, <2>5, <3>1, StepEnds
  <2> QED
    BY <2>4, <2>5
<1>5. \A n \in 0 .. max : Ends(db, q, run[n], max - n)
  <2>1. Nat \subseteq Good
    <3> HIDE DEF Good
    <3> QED
      BY <1>3, <1>4, NatsBySteps
  <2> QED
    BY <1>1, <2>1
<1>6. run[max].at = "done"
  <2>1. Ends(db, q, run[max], 0)
    <3>1. max \in 0 .. max /\ max - max = 0
      BY <1>1
    <3> QED
      BY <1>5, <3>1
  <2> QED
    BY <2>1, StepEnds
<1>7. ASSUME NEW n \in 0 .. max, run[n].at = "done" PROVE run[max] = run[n]
  <2> DEFINE Same == {k \in Nat : n + k <= max => run[n + k] = run[n]}
  <2>1. 0 \in Same
    OBVIOUS
  <2>2. ASSUME NEW k \in Nat, k \in Same PROVE k + 1 \in Same
    <3>1. SUFFICES ASSUME n + (k + 1) <= max PROVE run[n + (k + 1)] = run[n]
      OBVIOUS
    <3>2. n + (k + 1) \in 1 .. max /\ (n + (k + 1)) - 1 = n + k /\ n + k <= max
      BY <1>1, <3>1
    <3>3. run[n + (k + 1)] = Goes(db, run[n + k]) /\ run[n + k] = run[n]
      BY <1>2, <2>2, <3>2 DEF Went
    <3> QED
      BY <1>7, <3>3 DEF Goes
  <2>3. Nat \subseteq Same
    <3> HIDE DEF Same
    <3> QED
      BY <2>1, <2>2, NatsBySteps
  <2>4. max - n \in Nat /\ n + (max - n) = max
    BY <1>1
  <2> QED
    BY <1>1, <2>3, <2>4
<1> QED
  BY <1>1, <1>2, <1>5, <1>6, <1>7 DEF run, max

\* A call keeps the question, whatever was written since the last one.
LEMMA StepKeepsQuestion ==
  ASSUME NEW db, NEW f, FrameFields \subseteq DOMAIN f, f.at \in Calls, f.at # "done"
  PROVE  LET g == Step(db, f) IN FrameFields \subseteq DOMAIN g /\ g.at \in Calls /\ g.q = f.q
<1> DEFINE Keeps(g) == FrameFields \subseteq DOMAIN g /\ g.at \in Calls /\ g.q = f.q
\* What the parts of a step do.
<1>d. ASSUME NEW g, FrameFields \subseteq DOMAIN g, g.q = f.q PROVE Keeps(Done(g))
  BY <1>d DEF Done, FrameFields, Calls
<1>w. ASSUME NEW g, FrameFields \subseteq DOMAIN g, g.q = f.q, NEW parent PROVE Keeps(TryWildcard(g, parent))
  BY <1>w DEF TryWildcard, FrameFields, Calls
<1>a. ASSUME NEW g, FrameFields \subseteq DOMAIN g, g.q = f.q, NEW rrs
      PROVE  FrameFields \subseteq DOMAIN AddAnswers(g, rrs) /\ AddAnswers(g, rrs).q = f.q
  BY <1>a DEF AddAnswers, FrameFields
<1>e. ASSUME NEW g, FrameFields \subseteq DOMAIN g, g.q = f.q, NEW todo
      PROVE  Keeps([g EXCEPT !.at = "glue", !.todo = todo])
  BY <1>e DEF FrameFields, Calls
<1>g. ASSUME NEW g, FrameFields \subseteq DOMAIN g, g.q = f.q, NEW rrs PROVE Keeps(WithGlue(g, rrs))
  <2> HIDE DEF Keeps
  <2> QED
    BY <1>d, <1>e, <1>g DEF WithGlue
<1>1. CASE f.at = "zone"
  <2> DEFINE g == [f EXCEPT !.resp.rcode = "REFUSED"]
             h == [f EXCEPT !.zone = FindZone(db, f.q.qname), !.at = "cut"]
  <2>1. Step(db, f) \in {Done(g), h}
    BY <1>1 DEF Step, ZoneStep
  <2>2. FrameFields \subseteq DOMAIN g /\ g.q = f.q /\ Keeps(h)
    BY DEF FrameFields, Calls
  <2> HIDE DEF g, h
  <2> QED
    BY <1>d, <2>1, <2>2
<1>2. CASE f.at = "cut"
  <2> DEFINE cut == FindDelegation(db, f.zone, f.q.qname)
             auth == [f EXCEPT !.resp.aa = TRUE]
             ref == [f EXCEPT !.name = cut, !.at = "referral"]
             hinfo == AddAnswers(auth, <<Hinfo(f.q.qname)>>)
             own == [auth EXCEPT !.at = "cname"]
  <2>1. Step(db, f) \in {ref, Done(hinfo), own}
    BY <1>2 DEF Step, CutStep
  <2>2. FrameFields \subseteq DOMAIN auth /\ auth.q = f.q /\ Keeps(ref) /\ Keeps(own)
    BY DEF FrameFields, Calls
  <2> HIDE DEF ref, own, auth
  <2>3. FrameFields \subseteq DOMAIN hinfo /\ hinfo.q = f.q
    BY <1>a, <2>2
  <2> HIDE DEF hinfo
  <2> QED
    BY <1>d, <2>1, <2>2, <2>3
<1>3. CASE f.at = "referral"
  <2> DEFINE ns == Lookup(db, f.zone, f.name, "NS")
             g == [f EXCEPT !.resp.authority = @ \o ns]
  <2>1. Step(db, f) = WithGlue(g, ns)
    BY <1>3 DEF Step, ReferralStep
  <2>2. FrameFields \subseteq DOMAIN g /\ g.q = f.q
    BY DEF FrameFields
  <2> HIDE DEF g, ns
  <2> QED
    BY <1>g, <2>1, <2>2
<1>4. CASE f.at = "glue"
  <2> DEFINE call == Head(f.todo)
             g == [f EXCEPT !.resp.additional = @ \o Lookup(db, f.zone, call[1], call[2]),
                            !.todo = Tail(@)]
  <2>1. Step(db, f) \in {Done(g), g}
    BY <1>4 DEF Step, GlueStep
  <2>2. FrameFields \subseteq DOMAIN g /\ g.q = f.q /\ Keeps(g)
    BY <1>4 DEF FrameFields, Calls
  <2> HIDE DEF g
  <2> QED
    BY <1>d, <2>1, <2>2
<1>5. CASE f.at = "cname"
  <2> DEFINE g == [f EXCEPT !.found = Lookup(db, f.zone, f.name, "CNAME"), !.at = "match"]
  <2>1. Step(db, f) = g
    BY <1>5 DEF Step, CnameStep
  <2>2. Keeps(g)
    BY DEF FrameFields, Calls
  <2> HIDE DEF g
  <2> QED
    BY <2>1, <2>2
<1>6. CASE f.at = "match"
  <2> DEFINE match == Lookup(db, f.zone, f.name, f.q.qtype)
             isAlias == f.q.qtype # "CNAME" /\ f.found # << >>
             target == f.found[1].target
             next == [AddAnswers(f, f.found) EXCEPT !.name = target, !.hop = @ + 1, !.found = << >>]
             chase == [next EXCEPT !.at = "cname"]
             parent == Parent(f.q.qname)
             bare == [f EXCEPT !.found = << >>]
             own == AddAnswers(bare, match)
  <2>1. \/ Step(db, f) \in {Done(next), chase, TryWildcard(next, parent), TryWildcard(f, parent)}
        \/ Step(db, f) \in {Done(own), WithGlue(own, match)}
    BY <1>6 DEF Step, MatchStep
  <2>2. FrameFields \subseteq DOMAIN bare /\ bare.q = f.q
    BY DEF FrameFields
  <2> HIDE DEF bare, match
  <2>3. FrameFields \subseteq DOMAIN own /\ own.q = f.q
    BY <1>a, <2>2
  <2>4. FrameFields \subseteq DOMAIN next /\ next.q = f.q /\ Keeps(chase)
    BY <1>a DEF FrameFields, Calls
  <2> HIDE DEF own, next, chase, parent, Keeps
  <2>5. /\ Keeps(Done(next)) /\ Keeps(TryWildcard(next, parent)) /\ Keeps(TryWildcard(f, parent))
        /\ Keeps(Done(own)) /\ Keeps(WithGlue(own, match))
    BY <1>d, <1>g, <1>w, <2>3, <2>4
  <2>6. Keeps(Step(db, f))
    BY <2>1, <2>4, <2>5
  <2> QED
    BY <2>6 DEF Keeps
<1>7. CASE f.at = "wild"
  <2> DEFINE g == [f EXCEPT !.found = Lookup(db, f.zone, Wildcard(f.name), f.q.qtype), !.at = "wildcname"]
  <2>1. Step(db, f) = g
    BY <1>7 DEF Step, WildStep
  <2>2. Keeps(g)
    BY DEF FrameFields, Calls
  <2> HIDE DEF g
  <2> QED
    BY <2>1, <2>2
<1>8. CASE f.at = "wildcname"
  <2> DEFINE cname == Lookup(db, f.zone, Wildcard(f.name), "CNAME")
             wild == IF f.found = << >> THEN cname ELSE f.found
             synth == [i \in DOMAIN wild |-> [wild[i] EXCEPT !.name = f.q.qname]]
             own == AddAnswers(f, synth)
             none == [f EXCEPT !.at = "exists"]
             above == TryWildcard(f, Parent(f.name))
  <2>1. Step(db, f) \in {Done(own), none, above}
    BY <1>8 DEF Step, WildCnameStep
  <2>2. Keeps(none) /\ Keeps(above)
    BY <1>w DEF FrameFields, Calls
  <2> HIDE DEF none, above, synth
  <2>3. FrameFields \subseteq DOMAIN own /\ own.q = f.q
    BY <1>a
  <2> HIDE DEF own
  <2> QED
    BY <1>d, <2>1, <2>2, <2>3
<1>9. CASE f.at = "exists"
  <2> DEFINE g == [f EXCEPT !.at = "soa",
                            !.resp.rcode = IF NameExists(db, f.zone, f.q.qname) THEN @ ELSE "NXDOMAIN"]
  <2>1. Step(db, f) = g
    BY <1>9 DEF Step, ExistsStep
  <2>2. Keeps(g)
    BY DEF FrameFields, Calls
  <2> HIDE DEF g
  <2> QED
    BY <2>1, <2>2
<1>10. CASE f.at = "soa"
  <2> DEFINE g == [f EXCEPT !.resp.authority = @ \o Lookup(db, f.zone, f.zone, "SOA")]
  <2>1. Step(db, f) = Done(g)
    BY <1>10 DEF Step, SoaStep
  <2>2. FrameFields \subseteq DOMAIN g /\ g.q = f.q
    BY DEF FrameFields
  <2> HIDE DEF g
  <2> QED
    BY <1>d, <2>1, <2>2
<1> QED
  BY <1>1, <1>2, <1>3, <1>4, <1>5, <1>6, <1>7, <1>8, <1>9, <1>10 DEF Calls

-----------------------------------------------------------------------------
(* What the cache holds is an answer.                                      *)

\* The frames that an answer goes through when nobody interrupts it.
OnRun(db, q) == {Run(db, q)[n] : n \in 0 .. MaxCalls(db, q)}

\* A query that goes on at label with the frame f, having read what s says,
\* when the zones db have changed v times: if it has read these zones alone,
\* its frame is one of an answer that nobody interrupts.
ReadInv(db, v, label, f, s) ==
  label \in ReadPCs =>
    /\ f.q \in Queries /\ FrameFields \subseteq DOMAIN f /\ f.at \in Calls
    /\ s.versions = {} => f = Start(f.q)
    /\ s.versions \subseteq {v} => f \in OnRun(db, f.q)
    /\ label = "get" => s.versions = {}
    /\ label = "answer" => f.at # "done"
    /\ label = "put" => f.at = "done" /\ s.versions # {}

\* An entry e for the question q is its answer if these zones alone were read.
EntryInv(db, v, q, e) ==
  e.versions # {} /\ (e.versions \subseteq {v} => e.resp = Answer(db, q))

\* Of every query under way and of every response in the cache.
HitInv ==
  /\ \A w \in Workers : ReadInv(zones, version, pc[w], frame[w], seen[w])
  /\ \A q \in Queries : CacheKey(q) \in DOMAIN cache =>
       EntryInv(zones, version, q, cache[CacheKey(q)])

\* An answer starts where its run does.
LEMMA StartOnRun ==
  ASSUME NEW db, Zoned(db), NEW q \in Queries
  PROVE  /\ Start(q) \in OnRun(db, q) /\ Start(q).q = q /\ Start(q).at = "zone"
         /\ FrameFields \subseteq DOMAIN Start(q) /\ q.qname \in Name
<1>1. q.qname \in Name
  BY RequestsAssumption DEF Name
<1>2. MaxCalls(db, q) \in Nat /\ Run(db, q)[0] = Start(q)
  BY <1>1, RunEnds DEF Went
<1>3. Start(q).q = q /\ Start(q).at = "zone" /\ FrameFields \subseteq DOMAIN Start(q)
  BY DEF Start, FrameFields
<1>4. 0 \in 0 .. MaxCalls(db, q)
  BY <1>2
<1>5. Start(q) \in OnRun(db, q)
  BY <1>2, <1>4 DEF OnRun
<1> QED
  BY <1>1, <1>3, <1>5

\* A frame on the way has a next one, unless it is the answer.
LEMMA RunGoesOn ==
  ASSUME NEW db, Zoned(db), NEW q \in Queries, NEW f \in OnRun(db, q)
  PROVE  /\ f.at # "done" => Step(db, f) \in OnRun(db, q)
         /\ f.at = "done" => f.resp = Answer(db, q)
<1> DEFINE run == Run(db, q)
           max == MaxCalls(db, q)
<1>1. q.qname \in Name
  BY StartOnRun
<1>2. /\ max \in Nat /\ Went(run, db, q, max)
      /\ \A n \in 0 .. max : Ends(db, q, run[n], max - n)
      /\ \A n \in 0 .. max : run[n].at = "done" => run[max] = run[n]
  BY <1>1, RunEnds
<1>3. PICK n \in 0 .. max : f = run[n]
  BY DEF OnRun
<1>4. Answer(db, q) = run[max].resp
  BY DEF Answer
<1>5. OnRun(db, q) = {run[k] : k \in 0 .. max}
  BY DEF OnRun
<1> HIDE DEF run, max
<1>6. ASSUME f.at # "done" PROVE Step(db, f) \in OnRun(db, q)
  <2>1. max - n \in Nat /\ Ends(db, q, f, max - n)
    BY <1>2, <1>3
  <2>2. max - n # 0
    BY <1>1, <1>6, <2>1, StepEnds
  <2>3. n + 1 \in 0 .. max /\ n + 1 \in 1 .. max /\ (n + 1) - 1 = n
    BY <1>2, <2>1, <2>2
  <2>4. run[n + 1] = Goes(db, f)
    BY <1>2, <1>3, <2>3 DEF Went
  <2>5. run[n + 1] = Step(db, f)
    BY <1>6, <2>4 DEF Goes
  <2> QED
    BY <1>5, <2>3, <2>5
<1> QED
  BY <1>2, <1>3, <1>4, <1>6

\* A key belongs to one question.
LEMMA KeyOfOne ==
  ASSUME NEW p \in Queries, NEW q \in Queries, CacheKey(p) = CacheKey(q)
  PROVE  p = q
<1>1. /\ p \in [qname : Seq(STRING), qtype : STRING, tcp : BOOLEAN, edns : BOOLEAN]
      /\ q \in [qname : Seq(STRING), qtype : STRING, tcp : BOOLEAN, edns : BOOLEAN]
  BY RequestsAssumption
<1>2. p.qname = q.qname /\ p.qtype = q.qtype /\ p.tcp = q.tcp /\ p.edns = q.edns
  BY DEF CacheKey
<1> QED
  BY <1>1, <1>2

\* What a step of the other threads leaves of a query and of an entry: the
\* versions they have read are none of those to come.
LEMMA ReadKept ==
  ASSUME NEW db, NEW db2, Zoned(db2), NEW v \in Nat, NEW v2, NEW label, NEW f, NEW s,
         s.versions \subseteq 0 .. v, (db2 = db /\ v2 = v) \/ v2 = v + 1, ReadInv(db, v, label, f, s)
  PROVE  ReadInv(db2, v2, label, f, s)
<1>1. CASE db2 = db /\ v2 = v
  BY <1>1
<1>2. CASE v2 = v + 1
  <2>1. s.versions \subseteq {v2} => s.versions = {}
    BY <1>2
  <2>2. ASSUME label \in ReadPCs, s.versions \subseteq {v2} PROVE f \in OnRun(db2, f.q)
    <3>1. f = Start(f.q) /\ f.q \in Queries
      BY <2>1, <2>2 DEF ReadInv
    <3> QED
      BY <3>1, StartOnRun
  <2> QED
    BY <2>2 DEF ReadInv
<1> QED
  BY <1>1, <1>2

\* An entry stays what it is when the zones change: it then has read other zones.
LEMMA EntryKept ==
  ASSUME NEW db, NEW db2, NEW v \in Nat, NEW v2, NEW q, NEW e,
         e.versions \subseteq 0 .. v, (db2 = db /\ v2 = v) \/ v2 = v + 1, EntryInv(db, v, q, e)
  PROVE  EntryInv(db2, v2, q, e)
<1>1. CASE db2 = db /\ v2 = v
  BY <1>1
<1>2. CASE v2 = v + 1
  <2>1. e.versions \subseteq {v2} => e.versions = {}
    BY <1>2
  <2> QED
    BY <2>1 DEF EntryInv
<1> QED
  BY <1>1, <1>2

\* A step of a worker that reads, and puts nothing into the cache.
LEMMA ReadersKeepHitInv ==
  ASSUME TypeOK, HitInv, NEW w \in Workers, NEW label, NEW f, NEW s, UNCHANGED <<zones, version>>,
         pc' = [pc EXCEPT ![w] = label], frame' = [frame EXCEPT ![w] = f], seen' = [seen EXCEPT ![w] = s],
         ReadInv(zones, version, label, f, s),
         DOMAIN cache' \subseteq DOMAIN cache, \A k \in DOMAIN cache' : cache'[k] = cache[k]
  PROVE  HitInv'
<1>1. DOMAIN pc = Threads /\ w \in Threads /\ DOMAIN frame = Workers /\ DOMAIN seen = Workers
  BY DEF TypeOK, Threads
<1>2. \A x \in Workers : /\ pc'[x] = IF x = w THEN label ELSE pc[x]
                         /\ frame'[x] = IF x = w THEN f ELSE frame[x]
                         /\ seen'[x] = IF x = w THEN s ELSE seen[x]
  BY <1>1 DEF Threads
<1>3. \A x \in Workers : ReadInv(zones, version, pc'[x], frame'[x], seen'[x])
  BY <1>2 DEF HitInv
<1>4. \A q \in Queries : CacheKey(q) \in DOMAIN cache' =>
        EntryInv(zones, version, q, cache'[CacheKey(q)])
  BY DEF HitInv
<1> QED
  BY <1>3, <1>4 DEF HitInv

\* A step of a writer: the cache stays as it is, or is emptied.
LEMMA WritersKeepHitInv ==
  ASSUME TypeOK, HitInv, Zoned(zones'), NEW t \in Threads,
         UNCHANGED <<zones, version>> \/ version' = version + 1,
         NEW label, label \notin ReadPCs, pc' = [pc EXCEPT ![t] = label] \/ UNCHANGED pc,
         UNCHANGED <<frame, seen>>, UNCHANGED cache \/ DOMAIN cache' = {}
  PROVE  HitInv'
<1>0. version \in Nat /\ DOMAIN pc = Threads
  BY DEF TypeOK
<1> PICK db2, v2, ch2 : db2 = zones' /\ v2 = version' /\ ch2 = cache'
  OBVIOUS
<1>1. Zoned(db2) /\ ((db2 = zones /\ v2 = version) \/ v2 = version + 1)
  OBVIOUS
<1>2. ASSUME NEW w \in Workers PROVE ReadInv(db2, v2, pc'[w], frame'[w], seen'[w])
  <2>1. ReadInv(zones, version, pc[w], frame[w], seen[w]) /\ seen[w].versions \subseteq 0 .. version
    BY DEF HitInv, TypeOK
  <2>2. ReadInv(db2, v2, pc[w], frame[w], seen[w])
    BY <1>0, <1>1, <2>1, ReadKept
  <2>3. pc'[w] = pc[w] \/ pc'[w] \notin ReadPCs
    BY <1>0 DEF Threads
  <2> QED
    BY <2>2, <2>3 DEF ReadInv
<1>3. ASSUME NEW q \in Queries, CacheKey(q) \in DOMAIN ch2
      PROVE  EntryInv(db2, v2, q, ch2[CacheKey(q)])
  <2>1. ch2 = cache
    BY <1>3
  <2>2. /\ EntryInv(zones, version, q, cache[CacheKey(q)])
        /\ cache[CacheKey(q)].versions \subseteq 0 .. version
    BY <1>3, <2>1 DEF HitInv, TypeOK
  <2>3. EntryInv(db2, v2, q, cache[CacheKey(q)])
    BY <1>0, <1>1, <2>2, EntryKept
  <2> QED
    BY <2>1, <2>3
<1> QED
  BY <1>2, <1>3 DEF HitInv

\* At start no query is under way and the cache is empty.
LEMMA InitHitInv == Init => HitInv
<1> SUFFICES ASSUME Init PROVE HitInv
  OBVIOUS
<1>1. \A w \in Workers : pc[w] = "idle"
  BY DEF Init, Threads
<1>2. DOMAIN cache = {}
  BY DEF Init
<1> QED
  BY <1>1, <1>2 DEF HitInv, ReadInv, ReadPCs

\* Every step keeps what is known of the queries and of the cache.
LEMMA NextHitInv == TypeOK /\ SerialInv /\ SerialInv' /\ HitInv /\ [Next]_vars => HitInv'
<1> SUFFICES ASSUME TypeOK, SerialInv, SerialInv', HitInv, [Next]_vars PROVE HitInv'
  OBVIOUS
<1> USE DEF Goto
<1>z. Zoned(zones) /\ Zoned(zones')
  BY DEF SerialInv, Zoned
<1>r. \A w \in Workers : /\ ReadInv(zones, version, pc[w], frame[w], seen[w])
                         /\ seen[w].versions \subseteq 0 .. version
  BY DEF HitInv, TypeOK
\* The response is sent: nothing more is said of the query.
<1>i. ASSUME NEW w \in Workers, Respond(w), UNCHANGED <<zones, version, cache>> PROVE HitInv'
  <2>1. ReadInv(zones, version, "idle", NoFrame, NotSeen)
    BY DEF ReadInv, ReadPCs
  <2> QED
    BY <1>i, <2>1, ReadersKeepHitInv DEF Respond
<1>1. ASSUME NEW w \in Workers, ReceiveQuery(w) PROVE HitInv'
  <2>1. PICK q \in Queries :
          /\ frame' = [frame EXCEPT ![w] = Start(q)]
          /\ seen' = [seen EXCEPT ![w] = [since |-> epoch, versions |-> {}]]
          /\ pc' = [pc EXCEPT ![w] = IF CacheSize > 0 THEN "get" ELSE "answer"]
          /\ UNCHANGED <<zones, version, cache>>
    BY <1>1 DEF ReceiveQuery
  <2> DEFINE s == [since |-> epoch, versions |-> {}]
             label == IF CacheSize > 0 THEN "get" ELSE "answer"
  <2>2. ReadInv(zones, version, label, Start(q), s)
    <3>1. s.versions = {}
      OBVIOUS
    <3>2. label \in {"get", "answer"}
      OBVIOUS
    <3> HIDE DEF s, label
    <3> QED
      BY <1>z, <3>1, <3>2, StartOnRun DEF ReadInv, Calls
  <2>3. /\ frame' = [frame EXCEPT ![w] = Start(q)] /\ seen' = [seen EXCEPT ![w] = s]
        /\ pc' = [pc EXCEPT ![w] = label]
    BY <2>1
  <2> HIDE DEF s, label
  <2> QED
    BY <2>1, <2>2, <2>3, ReadersKeepHitInv
<1>2. ASSUME NEW w \in Workers, CacheHit(w) PROVE HitInv'
  BY <1>2, <1>i DEF CacheHit
<1>3. ASSUME NEW w \in Workers, CacheMiss(w) PROVE HitInv'
  <2>1. /\ pc[w] = "get" /\ pc' = [pc EXCEPT ![w] = "answer"] /\ UNCHANGED <<zones, version, frame, seen>>
        /\ DOMAIN cache' \subseteq DOMAIN cache /\ \A k \in DOMAIN cache' : cache'[k] = cache[k]
    BY <1>3 DEF CacheMiss, history
  <2>2. ReadInv(zones, version, "answer", frame[w], seen[w])
    <3>1. ReadInv(zones, version, "get", frame[w], seen[w])
      BY <1>r, <2>1
    <3>2. frame[w].q \in Queries /\ frame[w] = Start(frame[w].q)
      BY <3>1 DEF ReadInv, ReadPCs
    <3>3. frame[w].at # "done"
      BY <1>z, <3>2, StartOnRun
    <3> QED
      BY <3>1, <3>3 DEF ReadInv, ReadPCs
  <2>3. ASSUME NEW x \in Workers PROVE ReadInv(zones, version, pc'[x], frame[x], seen[x])
    <3>1. pc'[x] = IF x = w THEN "answer" ELSE pc[x]
      BY <2>1 DEF TypeOK, Threads
    <3> QED
      BY <1>r, <2>2, <3>1
  <2>4. ASSUME NEW q \in Queries, CacheKey(q) \in DOMAIN cache'
        PROVE  EntryInv(zones, version, q, cache'[CacheKey(q)])
    BY <2>1, <2>4 DEF HitInv
  <2> QED
    BY <2>1, <2>3, <2>4 DEF HitInv
<1>4. ASSUME NEW w \in Workers, AnswerStep(w) PROVE HitInv'
  <2> DEFINE f == frame[w]
             g == Step(zones, f)
             s == [since |-> seen[w].since, versions |-> seen[w].versions \cup {version}]
             label == IF g.at = "done" THEN "put" ELSE "answer"
  <2>1. ReadInv(zones, version, "answer", f, seen[w])
    BY <1>4, <1>r DEF AnswerStep
  <2>2. UNCHANGED <<zones, version, cache>>
    BY <1>4 DEF AnswerStep
  <2>3. CASE Respond(w)
    BY <1>i, <2>2, <2>3
  <2>4. CASE /\ frame' = [frame EXCEPT ![w] = g]
             /\ seen' = [seen EXCEPT ![w] = [since |-> @.since, versions |-> @.versions \cup {version}]]
             /\ pc' = [pc EXCEPT ![w] = label]
    <3>1. /\ f.q \in Queries /\ FrameFields \subseteq DOMAIN f /\ f.at \in Calls /\ f.at # "done"
          /\ seen[w].versions \subseteq {version} => f \in OnRun(zones, f.q)
      BY <2>1 DEF ReadInv, ReadPCs
    <3>2. FrameFields \subseteq DOMAIN g /\ g.at \in Calls /\ g.q = f.q
      BY <3>1, StepKeepsQuestion
    <3>3. s.versions # {} /\ (s.versions \subseteq {version} => seen[w].versions \subseteq {version})
      OBVIOUS
    <3>4. seen' = [seen EXCEPT ![w] = s]
      BY <2>4
    <3>5. f \in OnRun(zones, f.q) => g \in OnRun(zones, f.q)
      BY <1>z, <3>1, RunGoesOn
    <3>6. label \in {"put", "answer"} /\ (label = "put" <=> g.at = "done")
      OBVIOUS
    <3>7. frame' = [frame EXCEPT ![w] = g]
      BY <2>4
    <3>8. pc' = [pc EXCEPT ![w] = label]
      BY <2>4
    <3> HIDE DEF f, g, s, label
    <3>9. ReadInv(zones, version, label, g, s)
      BY <3>1, <3>2, <3>3, <3>5, <3>6 DEF ReadInv
    <3> QED
      BY <2>2, <3>4, <3>7, <3>8, <3>9, ReadersKeepHitInv
  <2> QED
    BY <1>4, <2>3, <2>4 DEF AnswerStep
<1>5. ASSUME NEW w \in Workers, CachePut(w) PROVE HitInv'
  <2> DEFINE f == frame[w]
             e == [resp |-> f.resp, since |-> seen[w].since, versions |-> seen[w].versions, put |-> epoch]
             key == CacheKey(f.q)
  <2>1. /\ ReadInv(zones, version, "put", f, seen[w])
        /\ UNCHANGED <<zones, version>> /\ Respond(w)
        /\ cache' = Put(cache, key, e)
    BY <1>5, <1>r DEF CachePut
  <2>2. /\ f.q \in Queries /\ f.at = "done" /\ seen[w].versions # {}
        /\ seen[w].versions \subseteq {version} => f \in OnRun(zones, f.q)
    BY <2>1 DEF ReadInv, ReadPCs
  <2>3. EntryInv(zones, version, f.q, e)
    <3>1. f \in OnRun(zones, f.q) => f.resp = Answer(zones, f.q)
      BY <1>z, <2>2, RunGoesOn
    <3>2. e.versions = seen[w].versions /\ e.resp = f.resp
      OBVIOUS
    <3> HIDE DEF e, f
    <3> QED
      BY <2>2, <3>1, <3>2 DEF EntryInv
  <2> HIDE DEF e
  <2>4. ASSUME NEW q \in Queries, CacheKey(q) \in DOMAIN cache'
        PROVE  EntryInv(zones, version, q, cache'[CacheKey(q)])
    <3>1. CASE CacheKey(q) = key
      <4>1. q = f.q
        BY <2>2, <3>1, KeyOfOne
      <4>2. cache'[CacheKey(q)] = e
        BY <2>1, <2>4, <3>1 DEF Put
      <4> QED
        BY <2>3, <4>1, <4>2
    <3>2. CASE CacheKey(q) # key
      <4>1. CacheKey(q) \in DOMAIN cache /\ cache'[CacheKey(q)] = cache[CacheKey(q)]
        BY <2>1, <2>4, <3>2 DEF Put
      <4> QED
        BY <4>1 DEF HitInv
    <3> QED
      BY <3>1, <3>2
  <2>5. ASSUME NEW x \in Workers PROVE ReadInv(zones, version, pc'[x], frame'[x], seen'[x])
    <3>1. CASE x = w
      <4>1. pc'[x] = "idle"
        BY <2>1, <3>1 DEF Respond, TypeOK, Threads
      <4> QED
        BY <4>1 DEF ReadInv, ReadPCs
    <3>2. CASE x # w
      <4>1. pc'[x] = pc[x] /\ frame'[x] = frame[x] /\ seen'[x] = seen[x]
        BY <2>1, <3>2 DEF Respond, TypeOK, Threads
      <4> QED
        BY <1>r, <4>1
    <3> QED
      BY <3>1, <3>2
  <2> QED
    BY <2>1, <2>4, <2>5 DEF HitInv
<1>6. ASSUME NEW t \in Threads, Bookkeeping(t) PROVE HitInv'
  <2>1. PICK label \in Labels \ (ReadPCs \cup {"invalidate"}) : pc' = [pc EXCEPT ![t] = label]
    BY <1>6, BookkeepingMoves DEF OnlyMoves
  <2>2. UNCHANGED <<zones, version, cache, frame, seen>>
    BY <1>6, BookkeepingMoves DEF OnlyMoves, history
  <2> QED
    BY <1>z, <2>1, <2>2, WritersKeepHitInv
<1>7. ASSUME NEW t \in Threads, Writing(t) PROVE HitInv'
  <2>1. UNCHANGED <<cache, frame, seen>> /\ (ChangesZones(t) \/ LeavesZones(t))
    BY <1>7, WritingChanges DEF TypeOK
  <2>2. UNCHANGED <<zones, version>> \/ version' = version + 1
    BY <2>1 DEF ChangesZones, LeavesZones
  <2>3. UNCHANGED pc \/ \E label \in {"idle", "find", "invalidate"} : pc' = [pc EXCEPT ![t] = label]
    BY <2>1 DEF ChangesZones, LeavesZones
  <2>4. \A label \in {"idle", "find", "invalidate"} : label \notin ReadPCs
    BY DEF ReadPCs
  <2> QED
    BY <1>z, <2>1, <2>2, <2>3, <2>4, WritersKeepHitInv
<1>8. ASSUME NEW t \in Threads, Invalidate(t) PROVE HitInv'
  <2>1. UNCHANGED <<zones, version, frame, seen>> /\ DOMAIN cache' = {}
    BY <1>8 DEF Invalidate
  <2>2. \E label \in {"idle", "notify"} : pc' = [pc EXCEPT ![t] = label]
    BY <1>8 DEF Invalidate, Reply
  <2>3. \A label \in {"idle", "notify"} : label \notin ReadPCs
    BY DEF ReadPCs
  <2> QED
    BY <1>z, <2>1, <2>2, <2>3, WritersKeepHitInv
<1>9. CASE UNCHANGED vars
  BY <1>9 DEF vars, serverVars, history, HitInv
<1> QED
  BY <1>1, <1>2, <1>3, <1>4, <1>5, <1>6, <1>7, <1>8, <1>9, NextCases

\* Whatever the zones, the questions and the writes, once the writes have
\* invalidated the cache a response found in it is the one that the zones now
\* give, unless its query raced with an invalidation or a new zone.
THEOREM UnracedHitsAreAnswers == Spec => []UnracedHitsCoherent
<1>1. HitInv /\ UnracedEntriesCurrent => UnracedHitsCoherent
  BY DEF HitInv, EntryInv, UnracedEntriesCurrent, UnracedHitsCoherent
<1>2. TypeOK /\ SerialInv /\ SerialInv' /\ HitInv /\ [Next]_vars => HitInv'
  BY NextHitInv
<1>3. TypeOK /\ SerialInv /\ [Next]_vars => SerialInv'
  BY NextSerialInv
<1>4. Init => SerialInv /\ HitInv
  BY InitSerialInv, InitHitInv
<1> QED
  BY <1>1, <1>2, <1>3, <1>4, TypeCorrect, CacheCoherent, PTL DEF Spec

==============================================================================
