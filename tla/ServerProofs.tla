---------------------------- MODULE ServerProofs -----------------------------
(***************************************************************************)
(* Proofs about ServerThreads for any number of worker threads, any limit  *)
(* of TCP sessions and any number of handlers spawned.                     *)
(***************************************************************************)
EXTENDS ServerThreads, FiniteSetTheorems, SequenceTheorems, TLAPS

Places == {"head", "wait", "read", "answer", "send", "leave", "ended"}
Fates == {"alive", "raced", "cleared", "thrown", "signalled"}
JobType == [kind : {"udp", "tcp"}, at : Places]

\* TypeOK without the count of sessions, and no TCP loop before start.
ThreadsOK ==
  /\ fate \in Fates /\ running \in BOOLEAN /\ raced \in BOOLEAN
  /\ udp \in {"none", "head", "recv", "handle", "emplace", "count", "join", "clear", "ended"}
  /\ tcp \in {"none", "head", "accept", "check", "take", "emplace", "ended"}
  /\ job \in Seq(JobType)
  /\ \A i \in DOMAIN job : job[i].kind = "udp" => job[i].at \in {"answer", "ended"}
  /\ workers \in Seq(DOMAIN job)
  /\ unjoined \in Seq(DOMAIN job)
  /\ main = "new" => tcp = "none"

\* The empty sequence is a sequence over anything and has no elements.
LEMMA Empty == DOMAIN << >> = {} /\ \A S : << >> \in Seq(S)
OBVIOUS

\* A handler that moves keeps its kind, and the others stay where they are.
LEMMA Moved ==
  ASSUME ThreadsOK, NEW i \in DOMAIN job, NEW at \in Places, Move(i, at)
  PROVE  /\ job' \in Seq(JobType) /\ DOMAIN job' = DOMAIN job
         /\ job'[i].kind = job[i].kind /\ job'[i].at = at
         /\ \A j \in DOMAIN job : j # i => job'[j] = job[j]
<1>1. job' = [job EXCEPT ![i] = [job[i] EXCEPT !.at = at]]
  BY DEF Move
<1>2. job[i] \in JobType
  BY DEF ThreadsOK
<1>3. [job[i] EXCEPT !.at = at] = [kind |-> job[i].kind, at |-> at]
  BY <1>2 DEF JobType
<1>4. [kind |-> job[i].kind, at |-> at] \in JobType
  BY <1>2 DEF JobType
<1> QED
  BY <1>1, <1>3, <1>4 DEF ThreadsOK

\* A handler that is spawned is the last of the sequence.
LEMMA Spawned ==
  ASSUME ThreadsOK, NEW kind \in {"udp", "tcp"}, NEW at \in Places, NEW inside,
         Emplace(kind, at, inside)
  PROVE  /\ job' \in Seq(JobType) /\ Len(job) \in Nat /\ DOMAIN job = 1 .. Len(job)
         /\ DOMAIN job' = DOMAIN job \cup {Len(job) + 1}
         /\ job'[Len(job) + 1].kind = kind /\ job'[Len(job) + 1].at = at
         /\ \A i \in DOMAIN job : job'[i] = job[i]
<1> DEFINE new == [kind |-> kind, at |-> at]
<1>1. new \in JobType /\ new.kind = kind /\ new.at = at
  BY DEF JobType
<1>2. job' = Append(job, new) /\ job \in Seq(JobType)
  BY DEF Emplace, ThreadsOK
<1> HIDE DEF new
<1> QED
  BY <1>1, <1>2

\* The threads are well formed in the initial state and after every step.
LEMMA ThreadsInit == Init => ThreadsOK
<1> SUFFICES ASSUME Init PROVE ThreadsOK
  OBVIOUS
<1>1. /\ job \in Seq(JobType) /\ workers \in Seq(DOMAIN job) /\ unjoined \in Seq(DOMAIN job)
      /\ DOMAIN job = {}
  BY Empty DEF Init
<1> QED
  BY <1>1 DEF Init, ThreadsOK, Fates

\* The two loops that handle everything themselves touch nothing that the others
\* use, but that the process may end in them, and do not come back once they end.
LEMMA LoopsAlone ==
  ASSUME ApiStep \/ SecondStep \/ Peers
  PROVE  /\ UNCHANGED <<running, main, udp, tcp, job, workers, unjoined, joined, tcpSessions, raced>>
         /\ fate' \in {fate, "thrown", "signalled"}
         /\ api \in {"none", "ended"} => api' = api
         /\ second \in {"none", "ended"} => second' = second
BY DEF ApiStep, ApiTurn, ApiThrows, SecondStep, Peers, ApiSent, ApiSignalled, Refreshed, RefreshDies,
       Dies, loops

\* A handler whose peer has closed ends the process, and changes nothing else.
LEMMA SignalledOnly ==
  ASSUME NEW i, SessionSignalled(i)
  PROVE  /\ UNCHANGED <<running, main, udp, tcp, api, second, job, workers, unjoined, joined,
                        tcpSessions, raced>>
         /\ fate' = "signalled"
BY DEF SessionSignalled, Dies, loops

\* A handler's step keeps the threads well formed: only a session moves to a
\* place other than the end.
LEMMA HandlerStepOK ==
  ASSUME ThreadsOK, NEW i \in Handlers, Handle(i) \/ Receive(i)
  PROVE  ThreadsOK'
<1> USE DEF Places
<1>1. CASE i \in DOMAIN job /\ UdpAnswer(i)
  <2>1. /\ job' \in Seq(JobType) /\ DOMAIN job' = DOMAIN job
        /\ job'[i].kind = job[i].kind /\ job'[i].at = "ended"
        /\ \A j \in DOMAIN job : j # i => job'[j] = job[j]
    BY <1>1, Moved DEF UdpAnswer
  <2> QED
    BY <1>1, <2>1 DEF ThreadsOK, UdpAnswer, loops
<1>2. ASSUME i \in DOMAIN job, job[i].kind = "tcp", NEW at \in Places, Move(i, at),
             UNCHANGED <<fate, running, loops, workers, unjoined, joined, raced>>
      PROVE  ThreadsOK'
  <2>1. /\ job' \in Seq(JobType) /\ DOMAIN job' = DOMAIN job
        /\ job'[i].kind = job[i].kind /\ job'[i].at = at
        /\ \A j \in DOMAIN job : j # i => job'[j] = job[j]
    BY <1>2, Moved
  <2> QED
    BY <1>2, <2>1 DEF ThreadsOK, loops
<1>3. i \in DOMAIN job /\ ~UdpAnswer(i) => job[i].kind = "tcp"
  <2>1. i \in DOMAIN job => job[i].kind \in {"udp", "tcp"} /\ job[i].at \in Places
    <3>1. i \in DOMAIN job => job[i] \in JobType
      BY DEF ThreadsOK
    <3> QED
      BY <3>1 DEF JobType
  <2>2. SessionAnswer(i) => job[i].kind = "tcp"
    BY DEF SessionAnswer
  <2>3. SessionHead(i) \/ SessionTimeout(i) \/ SessionLeave(i) \/ SessionReadable(i)
          \/ SessionRead(i) \/ SessionSent(i) \/ SessionSignalled(i)
            => job[i].at \in {"head", "wait", "leave", "read", "send"}
    BY DEF SessionHead, SessionTimeout, SessionLeave, SessionReadable, SessionRead, SessionSent,
           SessionSignalled
  <2>4. i \in DOMAIN job /\ job[i].kind = "udp" => job[i].at \in {"answer", "ended"}
    BY DEF ThreadsOK
  <2> QED
    BY <2>1, <2>2, <2>3, <2>4 DEF Handle, Receive
<1>4. CASE i \in DOMAIN job /\ SessionHead(i)
  BY <1>1, <1>2, <1>3, <1>4 DEF SessionHead
<1>5. CASE i \in DOMAIN job /\ SessionTimeout(i)
  BY <1>1, <1>2, <1>3, <1>5 DEF SessionTimeout
<1>6. CASE i \in DOMAIN job /\ SessionAnswer(i)
  BY <1>1, <1>2, <1>3, <1>6 DEF SessionAnswer
<1>7. CASE i \in DOMAIN job /\ SessionLeave(i)
  BY <1>1, <1>2, <1>3, <1>7 DEF SessionLeave
<1>8. CASE i \in DOMAIN job /\ SessionReadable(i)
  BY <1>1, <1>2, <1>3, <1>8 DEF SessionReadable
<1>9. CASE i \in DOMAIN job /\ SessionRead(i)
  BY <1>1, <1>2, <1>3, <1>9 DEF SessionRead
<1>10. CASE i \in DOMAIN job /\ SessionSent(i)
  BY <1>1, <1>2, <1>3, <1>10 DEF SessionSent
<1>11. CASE SessionSignalled(i)
  BY <1>11, SignalledOnly DEF ThreadsOK, Fates
<1> QED
  BY <1>1, <1>4, <1>5, <1>6, <1>7, <1>8, <1>9, <1>10, <1>11 DEF Handle, Receive

\* Every step keeps the threads well formed.
LEMMA ThreadsStep == ThreadsOK /\ [Next]_vars => ThreadsOK'
<1> SUFFICES ASSUME ThreadsOK, [Next]_vars PROVE ThreadsOK'
  OBVIOUS
<1>1. CASE Start
  BY <1>1 DEF ThreadsOK, Start
<1>2. CASE Stop
  BY <1>2 DEF ThreadsOK, Stop
<1>3. CASE MainStep
  <2>1. ASSUME NEW at, NEW loop, NEW next, next # "new", JoinLoop(at, loop, next)
        PROVE  ThreadsOK'
    BY <2>1 DEF ThreadsOK, JoinLoop
  <2>2. CASE JoinWorkers
    BY <2>2, Empty DEF ThreadsOK, JoinWorkers
  <2> QED
    BY <1>3, <2>1, <2>2 DEF MainStep
<1>4. CASE UdpStep
  <2>1. CASE UdpHead \/ UdpRecv \/ UdpHandle
    BY <2>1 DEF ThreadsOK, UdpHead, UdpRecv, UdpHandle
  <2>2. CASE UdpEmplace
    <3>1. /\ job' \in Seq(JobType) /\ Len(job) \in Nat /\ DOMAIN job = 1 .. Len(job)
          /\ DOMAIN job' = DOMAIN job \cup {Len(job) + 1}
          /\ job'[Len(job) + 1].kind = "udp" /\ job'[Len(job) + 1].at = "answer"
          /\ \A i \in DOMAIN job : job'[i] = job[i]
      BY <2>2, Spawned DEF UdpEmplace, Places
    <3>2. Len(job') = Len(job) + 1
      BY <2>2 DEF UdpEmplace, Emplace, ThreadsOK
    <3>3. workers' \in Seq(DOMAIN job') /\ unjoined' \in Seq(DOMAIN job')
      <4>1. workers \in Seq(DOMAIN job') /\ unjoined \in Seq(DOMAIN job')
        BY <3>1, SeqMonotonic DEF ThreadsOK
      <4>2. Append(workers, Len(job')) \in Seq(DOMAIN job')
        BY <3>1, <3>2, <4>1
      <4> QED
        BY <2>2, <4>1, <4>2 DEF UdpEmplace, Emplace
    <3>4. fate' \in Fates /\ raced' \in BOOLEAN
      BY <2>2 DEF UdpEmplace, Emplace, ThreadsOK, Fates
    <3> QED
      BY <2>2, <3>1, <3>3, <3>4 DEF UdpEmplace, ThreadsOK
  <2>3. CASE UdpCount \/ UdpJoin
    <3>1. /\ UNCHANGED <<fate, running, raced, main, tcp, job, workers>>
          /\ udp' \in {"join", "head", "clear"}
      BY <2>3 DEF UdpCount, UdpJoin
    <3>2. unjoined' \in Seq(DOMAIN job)
      <4>1. CASE UdpCount
        BY <4>1 DEF UdpCount, ThreadsOK
      <4>2. CASE UdpJoin /\ unjoined # << >>
        <5>1. Tail(unjoined) \in Seq(DOMAIN job)
          BY <4>2 DEF ThreadsOK
        <5> QED
          BY <4>2, <5>1 DEF UdpJoin
      <4>3. CASE UdpJoin /\ unjoined = << >>
        BY <4>3 DEF UdpJoin, ThreadsOK
      <4> QED
        BY <2>3, <4>1, <4>2, <4>3
    <3> QED
      BY <3>1, <3>2 DEF ThreadsOK
  <2>4. CASE UdpClear
    BY <2>4, Empty DEF ThreadsOK, UdpClear, Fates
  <2> QED
    BY <1>4, <2>1, <2>2, <2>3, <2>4 DEF UdpStep
<1>5. CASE TcpStep
  <2>1. CASE TcpHead \/ TcpAccept \/ TcpCheck \/ TcpTake
    BY <2>1 DEF ThreadsOK, TcpHead, TcpAccept, TcpCheck, TcpTake
  <2>2. CASE TcpEmplace
    <3>1. /\ job' \in Seq(JobType) /\ Len(job) \in Nat /\ DOMAIN job = 1 .. Len(job)
          /\ DOMAIN job' = DOMAIN job \cup {Len(job) + 1}
          /\ job'[Len(job) + 1].kind = "tcp" /\ job'[Len(job) + 1].at = "head"
          /\ \A i \in DOMAIN job : job'[i] = job[i]
      BY <2>2, Spawned DEF TcpEmplace, Places
    <3>2. Len(job') = Len(job) + 1
      BY <2>2 DEF TcpEmplace, Emplace, ThreadsOK
    <3>3. workers' \in Seq(DOMAIN job') /\ unjoined' \in Seq(DOMAIN job')
      <4>1. workers \in Seq(DOMAIN job') /\ unjoined \in Seq(DOMAIN job')
        BY <3>1, SeqMonotonic DEF ThreadsOK
      <4>2. Append(workers, Len(job')) \in Seq(DOMAIN job')
        BY <3>1, <3>2, <4>1
      <4> QED
        BY <2>2, <4>1, <4>2 DEF TcpEmplace, Emplace
    <3>4. fate' \in Fates /\ raced' \in BOOLEAN
      BY <2>2 DEF TcpEmplace, Emplace, ThreadsOK, Fates
    <3> QED
      BY <2>2, <3>1, <3>3, <3>4 DEF TcpEmplace, ThreadsOK
  <2> QED
    BY <1>5, <2>1, <2>2 DEF TcpStep
<1>6. CASE ApiStep \/ SecondStep \/ Peers
  BY <1>6, LoopsAlone DEF ThreadsOK, Fates
<1>7. ASSUME NEW i \in Handlers, Handle(i) \/ Receive(i) PROVE ThreadsOK'
  BY <1>7, HandlerStepOK
<1>8. CASE UNCHANGED vars
  BY <1>8 DEF ThreadsOK, vars, loops
<1> QED
  BY <1>1, <1>2, <1>3, <1>4, <1>5, <1>6, <1>7, <1>8 DEF Next, Runs

-----------------------------------------------------------------------------
(* What is cleared was joined, but for a race.                             *)

\* Unless the loops raced, whatever is in workers_ while the UDP loop joins is
\* joined or still to be joined, and joined altogether when it is cleared.
JoinInv ==
  /\ fate \in {"raced", "cleared"} => raced
  /\ ~raced /\ udp = "join"  => \A n \in DOMAIN workers :
       workers[n] \in joined \/ \E k \in DOMAIN unjoined : unjoined[k] = workers[n]
  /\ ~raced /\ udp = "clear" => \A n \in DOMAIN workers : workers[n] \in joined

\* Taking the head off a sequence leaves its other elements in the tail.
LEMMA TailElements ==
  ASSUME NEW S, NEW s \in Seq(S), s # << >>, NEW k \in DOMAIN s
  PROVE  s[k] = Head(s) \/ \E m \in DOMAIN Tail(s) : Tail(s)[m] = s[k]
<1>1. CASE k = 1
  BY <1>1
<1>2. CASE k # 1
  <2>1. k - 1 \in DOMAIN Tail(s) /\ Tail(s)[k - 1] = s[k]
    BY <1>2
  <2> QED
    BY <2>1
<1> QED
  BY <1>1, <1>2

\* The threads still to join are only appended to by a race, so each step of
\* the loop keeps the rest accounted for.
LEMMA JoinStep == ThreadsOK /\ JoinInv /\ [Next]_vars => JoinInv'
<1> SUFFICES ASSUME ThreadsOK, JoinInv, [Next]_vars PROVE JoinInv'
  OBVIOUS
<1>1. CASE Start
  BY <1>1 DEF JoinInv, Start
<1>2. CASE Stop
  BY <1>2 DEF JoinInv, Stop
<1>3. CASE MainStep
  <2>1. ASSUME NEW at, NEW loop, NEW next, JoinLoop(at, loop, next) PROVE JoinInv'
    BY <2>1 DEF JoinInv, JoinLoop
  <2>2. CASE JoinWorkers
    BY <2>2, Empty DEF JoinInv, JoinWorkers
  <2> QED
    BY <1>3, <2>1, <2>2 DEF MainStep
<1>4. CASE UdpStep
  <2>1. CASE UdpHead \/ UdpRecv \/ UdpHandle
    BY <2>1 DEF JoinInv, UdpHead, UdpRecv, UdpHandle
  <2>2. CASE UdpEmplace
    BY <2>2 DEF JoinInv, UdpEmplace, Emplace
  <2>3. CASE UdpCount
    BY <2>3 DEF JoinInv, UdpCount
  <2>4. CASE UdpJoin
    <3>1. CASE unjoined = << >>
      BY <2>4, <3>1 DEF JoinInv, UdpJoin
    <3>2. CASE unjoined # << >>
      <4>1. /\ joined' = joined \cup {Head(unjoined)} /\ unjoined' = Tail(unjoined)
            /\ udp = "join" /\ UNCHANGED <<fate, workers, raced, udp>>
        BY <2>4, <3>2 DEF UdpJoin
      <4>2. \A k \in DOMAIN unjoined :
              unjoined[k] \in joined' \/ \E m \in DOMAIN unjoined' : unjoined'[m] = unjoined[k]
        BY <3>2, <4>1, TailElements DEF ThreadsOK
      <4> QED
        BY <4>1, <4>2 DEF JoinInv
    <3> QED
      BY <3>1, <3>2
  <2>5. CASE UdpClear
    BY <2>5 DEF JoinInv, UdpClear
  <2> QED
    BY <1>4, <2>1, <2>2, <2>3, <2>4, <2>5 DEF UdpStep
<1>5. CASE TcpStep
  <2>1. CASE TcpHead \/ TcpAccept \/ TcpCheck \/ TcpTake
    BY <2>1 DEF JoinInv, TcpHead, TcpAccept, TcpCheck, TcpTake
  <2>2. CASE TcpEmplace
    BY <2>2 DEF JoinInv, TcpEmplace, Emplace
  <2> QED
    BY <1>5, <2>1, <2>2 DEF TcpStep
<1>6. CASE ApiStep \/ SecondStep \/ Peers
  BY <1>6, LoopsAlone DEF JoinInv
<1>7. ASSUME NEW i \in Handlers, Handle(i) \/ Receive(i) PROVE JoinInv'
  <2>1. UNCHANGED <<udp, workers, unjoined, joined, raced>> /\ fate' \in {fate, "signalled"}
    BY <1>7, SignalledOnly DEF Handle, Receive, UdpAnswer, SessionHead, SessionTimeout, SessionAnswer,
                SessionLeave, SessionReadable, SessionRead, SessionSent, loops
  <2> QED
    BY <2>1 DEF JoinInv
<1>8. CASE UNCHANGED vars
  BY <1>8 DEF JoinInv, vars, loops
<1> QED
  BY <1>1, <1>2, <1>3, <1>4, <1>5, <1>6, <1>7, <1>8 DEF Next, Runs

\* Unless the UDP and the TCP loop change workers_ at once, clear() never meets a
\* thread that was not joined, whatever else may end the process.
THEOREM OnlyRacesLeaveUnjoined == Spec => []ClearsOnlyJoined
<1>1. Init => ThreadsOK /\ JoinInv
  BY ThreadsInit DEF Init, JoinInv
<1>2. ThreadsOK /\ JoinInv /\ [Next]_vars => (ThreadsOK /\ JoinInv)'
  BY ThreadsStep, JoinStep
<1>3. JoinInv => ClearsOnlyJoined
  BY DEF JoinInv, ClearsOnlyJoined
<1> QED
  BY <1>1, <1>2, <1>3, PTL DEF Spec

-----------------------------------------------------------------------------
(* worker_threads = 1.                                                     *)

\* The UDP loop never goes near workers_, so the two loops never meet there.
InlineInv ==
  /\ workerThreads \in WorkerThreads
  /\ workerThreads <= 1 => ~raced /\ udp \notin {"emplace", "count", "join", "clear"}

\* No step leads the UDP loop into workers_ when worker_threads is 1.
LEMMA InlineStep == ThreadsOK /\ InlineInv /\ [Next]_vars => InlineInv'
<1>k. InlineInv /\ [Next]_vars => workerThreads' = workerThreads
  BY DEF Next, Runs, vars
<1> SUFFICES ASSUME ThreadsOK, InlineInv, [Next]_vars, workerThreads <= 1
             PROVE  ~raced' /\ udp' \notin {"emplace", "count", "join", "clear"}
  BY <1>k DEF InlineInv
<1>0. ~raced /\ udp \notin {"emplace", "count", "join", "clear"} /\ ~(workerThreads > 1)
  BY ServerAssumption DEF InlineInv
<1>1. CASE Start \/ Stop \/ MainStep
  <2>1. UNCHANGED raced /\ udp' \in {udp, "head"}
    BY <1>1 DEF Start, Stop, MainStep, JoinLoop, JoinWorkers
  <2> QED
    BY <1>0, <2>1
<1>2. CASE UdpStep
  <2>1. UNCHANGED raced /\ udp' \notin {"emplace", "count", "join", "clear"}
    BY <1>0, <1>2 DEF UdpStep, UdpHead, UdpRecv, UdpHandle, UdpEmplace, UdpCount,
                      UdpJoin, UdpClear
  <2> QED
    BY <1>0, <2>1
<1>3. CASE TcpStep
  <2>1. UNCHANGED udp
    BY <1>3 DEF TcpStep, TcpHead, TcpAccept, TcpCheck, TcpTake, TcpEmplace
  <2>2. CASE TcpEmplace
    <3>1. ~(udp \in {"emplace", "join", "clear"})
      BY <1>0
    <3>2. raced' = (raced \/ udp \in {"emplace", "join", "clear"})
      BY <2>2 DEF TcpEmplace, Emplace
    <3> QED
      BY <1>0, <2>1, <3>1, <3>2
  <2>3. CASE TcpHead \/ TcpAccept \/ TcpCheck \/ TcpTake
    BY <1>0, <2>1, <2>3 DEF TcpHead, TcpAccept, TcpCheck, TcpTake
  <2> QED
    BY <1>3, <2>2, <2>3 DEF TcpStep
<1>4. CASE ApiStep \/ SecondStep \/ Peers
  BY <1>0, <1>4, LoopsAlone
<1>5. ASSUME NEW i \in Handlers, Handle(i) \/ Receive(i) PROVE UNCHANGED <<raced, udp>>
  BY <1>5, SignalledOnly DEF Handle, Receive, UdpAnswer, SessionHead, SessionTimeout, SessionAnswer,
              SessionLeave, SessionReadable, SessionRead, SessionSent, loops
<1>6. CASE UNCHANGED vars
  BY <1>6 DEF InlineInv, vars, loops
<1> QED
  BY <1>1, <1>2, <1>3, <1>4, <1>5, <1>6 DEF Next, Runs, InlineInv

\* With worker_threads = 1, the value the configuration documents as inline,
\* the two loops never meet in workers_, and the process never ends of it.
THEOREM InlineNeverRaces == Spec => []InlineIsSafe
<1>1. Init => ThreadsOK /\ JoinInv /\ InlineInv
  BY ThreadsInit DEF Init, JoinInv, InlineInv
<1>2. ThreadsOK /\ JoinInv /\ InlineInv /\ [Next]_vars => (ThreadsOK /\ JoinInv /\ InlineInv)'
  BY ThreadsStep, JoinStep, InlineStep
<1>3. JoinInv /\ InlineInv => InlineIsSafe
  BY DEF JoinInv, InlineInv, InlineIsSafe
<1> QED
  BY <1>1, <1>2, <1>3, PTL DEF Spec

-----------------------------------------------------------------------------
(* The limit of TCP sessions.                                              *)

\* The sessions that are spawned and not over are finitely many.
LEMMA SessionsFinite ==
  ASSUME ThreadsOK
  PROVE  IsFiniteSet(Jobs("tcp")) /\ Cardinality(Jobs("tcp")) \in Nat
<1>1. Jobs("tcp") \subseteq 1 .. Len(job) /\ Len(job) \in Nat
  BY DEF Jobs, ThreadsOK
<1>2. IsFiniteSet(1 .. Len(job))
  BY <1>1, FS_Interval
<1> QED
  BY <1>1, <1>2, FS_Subset, FS_CardinalityType

\* What a step does to the sessions, the TCP loop and the count: nothing, or
\* one of the four things that matter.
SlotFree == ~(MaxTcpSessions > 0 /\ tcpSessions >= MaxTcpSessions)
SessionsSame ==
  /\ Jobs("tcp")' = Jobs("tcp") /\ tcpSessions' = tcpSessions
  /\ tcp' = tcp \/ (tcp # "emplace" /\ tcp' # "emplace" /\ (tcp' = "take" => SlotFree))
SlotTaken ==
  /\ Jobs("tcp")' = Jobs("tcp") /\ tcpSessions' = tcpSessions + 1
  /\ tcp = "take" /\ tcp' = "emplace"
SessionSpawned ==
  /\ tcp = "emplace" /\ tcp' = "head" /\ tcpSessions' = tcpSessions
  /\ \E i : i \notin Jobs("tcp") /\ Jobs("tcp")' = Jobs("tcp") \cup {i}
SessionOver ==
  /\ tcp' = tcp /\ tcpSessions' = tcpSessions - 1
  /\ \E i \in Jobs("tcp") : Jobs("tcp")' = Jobs("tcp") \ {i}
SessionChange == SessionsSame \/ SlotTaken \/ SessionSpawned \/ SessionOver

\* The slot that was free at the test is free when it is taken: meanwhile sessions
\* only end.
SlotKept == tcp = "take" => SlotFree

\* The count of sessions agrees with the sessions after any such change.
LEMMA ChangeKeepsCount ==
  ASSUME ThreadsOK, SessionsBounded, SlotKept, SessionChange, tcpSessions \in Nat,
         IsFiniteSet(Jobs("tcp")')
  PROVE  SessionsBounded' /\ SlotKept' /\ tcpSessions' \in Nat
<1> DEFINE old == Jobs("tcp")
           new == Jobs("tcp")'
<1>1. IsFiniteSet(old) /\ Cardinality(old) \in Nat /\ Cardinality(new) \in Nat
  BY SessionsFinite, FS_CardinalityType
<1>2. ASSUME NEW i, i \notin old, new = old \cup {i}
      PROVE  Cardinality(new) = Cardinality(old) + 1
  BY <1>1, <1>2, FS_AddElement
<1>3. ASSUME NEW i \in old, new = old \ {i}
      PROVE  Cardinality(new) = Cardinality(old) - 1
  BY <1>1, <1>3, FS_RemoveElement
<1>4. tcpSessions = Cardinality(old) + (IF tcp = "emplace" THEN 1 ELSE 0)
      /\ (MaxTcpSessions > 0 => tcpSessions <= MaxTcpSessions) /\ MaxTcpSessions \in Nat
  BY ServerAssumption DEF SessionsBounded
<1>5. SessionsBounded' <=>
        /\ tcpSessions' = Cardinality(new) + (IF tcp' = "emplace" THEN 1 ELSE 0)
        /\ MaxTcpSessions > 0 => tcpSessions' <= MaxTcpSessions
  BY DEF SessionsBounded
<1>s. SlotKept' <=> (tcp' = "take" => ~(MaxTcpSessions > 0 /\ tcpSessions' >= MaxTcpSessions))
  BY DEF SlotKept, SlotFree
<1>t. tcp = "take" => ~(MaxTcpSessions > 0 /\ tcpSessions >= MaxTcpSessions)
  BY DEF SlotKept, SlotFree
<1> HIDE DEF old, new
<1>6. CASE new = old /\ tcpSessions' = tcpSessions
             /\ (tcp' = tcp \/ (tcp # "emplace" /\ tcp' # "emplace" /\ (tcp' = "take" => SlotFree)))
  BY <1>4, <1>5, <1>6, <1>s, <1>t DEF SlotFree
<1>7. CASE /\ new = old /\ tcpSessions' = tcpSessions + 1
           /\ tcp = "take" /\ tcp' = "emplace"
  BY <1>1, <1>4, <1>5, <1>7, <1>s, <1>t
<1>8. CASE /\ tcp = "emplace" /\ tcp' = "head" /\ tcpSessions' = tcpSessions
           /\ \E i : i \notin old /\ new = old \cup {i}
  BY <1>1, <1>2, <1>4, <1>5, <1>8, <1>s
<1>9. CASE /\ tcp' = tcp /\ tcpSessions' = tcpSessions - 1
           /\ \E i \in old : new = old \ {i}
  BY <1>1, <1>3, <1>4, <1>5, <1>9, <1>s, <1>t
<1> QED
  BY <1>6, <1>7, <1>8, <1>9 DEF SessionChange, SessionsSame, SlotTaken, SessionSpawned,
     SessionOver, old, new

\* A handler's move that neither ends nor starts a session.
LEMMA MoveKeepsSessions ==
  ASSUME ThreadsOK, NEW i \in DOMAIN job, NEW at \in Places, Move(i, at),
         i \in Jobs("tcp") <=> job[i].kind = "tcp" /\ at # "ended"
  PROVE  Jobs("tcp")' = Jobs("tcp")
<1>1. /\ DOMAIN job' = DOMAIN job
      /\ job'[i].kind = job[i].kind /\ job'[i].at = at
      /\ \A j \in DOMAIN job : j # i => job'[j] = job[j]
  BY Moved
<1> QED
  BY <1>1 DEF Jobs

\* Every step of the server is one of those changes.
LEMMA StepChangesSessions == ThreadsOK /\ [Next]_vars => SessionChange
<1> SUFFICES ASSUME ThreadsOK, [Next]_vars PROVE SessionChange
  OBVIOUS
<1> USE DEF Places
<1>1. ASSUME UNCHANGED <<job, tcpSessions>>,
             tcp' = tcp \/ (tcp # "emplace" /\ tcp' # "emplace" /\ tcp' # "take")
      PROVE  SessionChange
  <2>1. Jobs("tcp")' = Jobs("tcp")
    BY <1>1 DEF Jobs
  <2> QED
    BY <1>1, <2>1 DEF SessionChange, SessionsSame
<1>2. CASE Start \/ Stop \/ MainStep \/ ApiStep \/ SecondStep \/ Peers \/ UNCHANGED vars
  <2>1. CASE Start
    <3>1. tcp # "emplace" /\ UNCHANGED <<job, tcpSessions>> /\ tcp' \notin {"emplace", "take"}
      BY <2>1 DEF Start, ThreadsOK
    <3> QED
      BY <1>1, <3>1
  <2>2. CASE Stop \/ MainStep \/ ApiStep \/ SecondStep \/ Peers \/ UNCHANGED vars
    <3>1. UNCHANGED <<job, tcpSessions, tcp>>
      BY <2>2, LoopsAlone DEF Stop, MainStep, JoinLoop, JoinWorkers, vars, loops
    <3> QED
      BY <1>1, <3>1
  <2> QED
    BY <1>2, <2>1, <2>2
<1>3. CASE UdpStep
  <2>1. CASE UdpEmplace
    <3>1. /\ Len(job) \in Nat /\ DOMAIN job = 1 .. Len(job)
          /\ DOMAIN job' = DOMAIN job \cup {Len(job) + 1}
          /\ job'[Len(job) + 1].kind = "udp"
          /\ \A i \in DOMAIN job : job'[i] = job[i]
      BY <2>1, Spawned DEF UdpEmplace
    <3>2. Jobs("tcp")' = Jobs("tcp")
      BY <3>1 DEF Jobs
    <3> QED
      BY <2>1, <3>2 DEF UdpEmplace, SessionChange, SessionsSame
  <2>2. CASE UdpHead \/ UdpRecv \/ UdpHandle \/ UdpCount \/ UdpJoin \/ UdpClear
    BY <1>1, <2>2 DEF UdpHead, UdpRecv, UdpHandle, UdpCount, UdpJoin, UdpClear
  <2> QED
    BY <1>3, <2>1, <2>2 DEF UdpStep
<1>4. CASE TcpStep
  <2>1. CASE TcpEmplace
    <3>1. /\ Len(job) \in Nat /\ DOMAIN job = 1 .. Len(job)
          /\ DOMAIN job' = DOMAIN job \cup {Len(job) + 1}
          /\ job'[Len(job) + 1].kind = "tcp" /\ job'[Len(job) + 1].at = "head"
          /\ \A i \in DOMAIN job : job'[i] = job[i]
      BY <2>1, Spawned DEF TcpEmplace
    <3>2. Jobs("tcp")' = Jobs("tcp") \cup {Len(job) + 1} /\ Len(job) + 1 \notin Jobs("tcp")
      BY <3>1 DEF Jobs
    <3> QED
      BY <2>1, <3>2 DEF TcpEmplace, SessionChange, SessionSpawned
  <2>2. CASE TcpHead \/ TcpAccept
    <3>1. UNCHANGED <<job, tcpSessions>> /\ tcp # "emplace" /\ tcp' \notin {"emplace", "take"}
      BY <2>2 DEF TcpHead, TcpAccept
    <3> QED
      BY <1>1, <3>1
  <2>3. CASE TcpCheck
    <3>1. Jobs("tcp")' = Jobs("tcp")
      BY <2>3 DEF TcpCheck, Jobs
    <3> QED
      BY <2>3, <3>1 DEF TcpCheck, SessionChange, SessionsSame, SlotFree
  <2>4. CASE TcpTake
    <3>1. Jobs("tcp")' = Jobs("tcp")
      BY <2>4 DEF TcpTake, Jobs
    <3> QED
      BY <2>4, <3>1 DEF TcpTake, SessionChange, SlotTaken
  <2> QED
    BY <1>4, <2>1, <2>2, <2>3, <2>4 DEF TcpStep
<1>5. ASSUME NEW i \in Handlers, Handle(i) \/ Receive(i) PROVE SessionChange
  <2>0. i \in DOMAIN job /\ job[i].kind \in {"udp", "tcp"}
    <3>1. i \in DOMAIN job /\ job[i] \in JobType
      BY <1>5 DEF Handle, Receive, ThreadsOK
    <3> QED
      BY <3>1 DEF JobType
  <2>1. CASE UdpAnswer(i)
    <3>1. Jobs("tcp")' = Jobs("tcp")
      BY <2>0, <2>1, MoveKeepsSessions DEF UdpAnswer, Jobs
    <3> QED
      BY <2>1, <3>1 DEF UdpAnswer, SessionChange, SessionsSame, loops
  <2>2. CASE SessionLeave(i)
    <3>1. /\ DOMAIN job' = DOMAIN job
          /\ job'[i].kind = job[i].kind /\ job'[i].at = "ended"
          /\ \A j \in DOMAIN job : j # i => job'[j] = job[j]
      BY <2>0, <2>2, Moved DEF SessionLeave
    <3>2. job[i].kind = "tcp" /\ job[i].at = "leave"
      BY <2>0, <2>2 DEF SessionLeave, ThreadsOK
    <3>3. i \in Jobs("tcp") /\ Jobs("tcp")' = Jobs("tcp") \ {i}
      BY <2>0, <3>1, <3>2 DEF Jobs
    <3> QED
      BY <2>2, <3>3 DEF SessionLeave, SessionChange, SessionOver, loops
  <2>3. ASSUME NEW at \in Places \ {"ended"}, Move(i, at), job[i].at # "ended",
               UNCHANGED <<tcp, tcpSessions>>
        PROVE  SessionChange
    <3>1. Jobs("tcp")' = Jobs("tcp")
      BY <2>0, <2>3, MoveKeepsSessions DEF Jobs
    <3> QED
      BY <2>3, <3>1 DEF SessionChange, SessionsSame
  <2>4. CASE SessionHead(i)
    BY <2>3, <2>4 DEF SessionHead, loops
  <2>5. CASE SessionTimeout(i)
    BY <2>3, <2>5 DEF SessionTimeout, loops
  <2>6. CASE SessionAnswer(i)
    BY <2>3, <2>6 DEF SessionAnswer, loops
  <2>7. CASE SessionReadable(i)
    BY <2>3, <2>7 DEF SessionReadable, loops
  <2>8. CASE SessionRead(i)
    BY <2>3, <2>8 DEF SessionRead, loops
  <2>9. CASE SessionSent(i)
    BY <2>3, <2>9 DEF SessionSent, loops
  <2>10. CASE SessionSignalled(i)
    BY <1>1, <2>10, SignalledOnly
  <2> QED
    BY <1>5, <2>1, <2>2, <2>4, <2>5, <2>6, <2>7, <2>8, <2>9, <2>10 DEF Handle, Receive
<1> QED
  BY <1>2, <1>3, <1>4, <1>5 DEF Next, Runs

\* The strengthening both theorems below follow from.
CountInv == ThreadsOK /\ SessionsBounded /\ SlotKept /\ tcpSessions \in Nat

\* The threads are well formed and the sessions counted and limited, always.
LEMMA CountInvariant == Spec => []CountInv
<1>1. Init => CountInv
  <2> SUFFICES ASSUME Init PROVE CountInv
    OBVIOUS
  <2>1. Jobs("tcp") = {}
    BY Empty DEF Init, Jobs
  <2>2. Cardinality({}) = 0
    BY FS_EmptySet
  <2>3. tcpSessions = 0 /\ tcp = "none"
    BY DEF Init
  <2>4. SessionsBounded
    BY <2>1, <2>2, <2>3, ServerAssumption DEF SessionsBounded
  <2> QED
    BY <2>3, <2>4, ThreadsInit DEF CountInv, SlotKept
<1>2. CountInv /\ [Next]_vars => CountInv'
  <2> SUFFICES ASSUME CountInv, [Next]_vars PROVE CountInv'
    OBVIOUS
  <2>1. ThreadsOK'
    BY ThreadsStep DEF CountInv
  <2>2. IsFiniteSet(Jobs("tcp")')
    <3>1. Jobs("tcp")' \subseteq 1 .. Len(job') /\ Len(job') \in Nat
      BY <2>1 DEF Jobs, ThreadsOK
    <3>2. IsFiniteSet(Jobs("tcp")')
      <4>1. IsFiniteSet(1 .. Len(job'))
        BY <3>1, FS_Interval
      <4> QED
        BY <3>1, <4>1, FS_Subset
    <3> QED
      BY <3>2
  <2> QED
    BY <2>1, <2>2, ChangeKeepsCount, StepChangesSessions DEF CountInv
<1> QED
  BY <1>1, <1>2, PTL DEF Spec

\* The state of the threads is well formed for any sizes: in particular a
\* session never gives its slot back twice.
THEOREM ThreadsTypeCorrect == Spec => []TypeOK
<1>1. CountInv => TypeOK
  BY DEF CountInv, ThreadsOK, TypeOK, JobType, Places, Fates
<1> QED
  BY <1>1, CountInvariant, PTL

\* There are never more TCP sessions than max_tcp_sessions, whatever the order
\* in which they start and end.
THEOREM SessionsKeepToLimit == Spec => []SessionsBounded
<1>1. CountInv => SessionsBounded
  BY DEF CountInv
<1> QED
  BY <1>1, CountInvariant, PTL

-----------------------------------------------------------------------------
(* The handlers that run.                                                  *)

Quiet(loop) == loop \in {"none", "ended"}

\* What was joined has ended; unless the loops raced, a handler that runs is in
\* workers_; and stop has left behind it the loops it joined.
AliveInv ==
  /\ joined \subseteq DOMAIN job /\ \A j \in joined : job[j].at = "ended"
  /\ ~raced => \A i \in DOMAIN job :
       job[i].at # "ended" => \E n \in DOMAIN workers : workers[n] = i
  /\ main \in {"new", "serving", "join udp", "join tcp", "join api", "join second",
               "join workers", "stopped"}
  /\ main = "new" => job = << >> /\ udp = "none" /\ tcp = "none" /\ api = "none" /\ second = "none"
  /\ main \in {"join tcp", "join api", "join second", "join workers", "stopped"} => Quiet(udp)
  /\ main \in {"join api", "join second", "join workers", "stopped"} => Quiet(tcp)
  /\ main \in {"join second", "join workers", "stopped"} => Quiet(api)
  /\ main \in {"join workers", "stopped"} => Quiet(second)
  /\ main = "stopped" /\ ~raced => \A i \in DOMAIN job : job[i].at = "ended"

\* A handler keeps its kind and stays ended once it is, and touches nothing
\* else but the count of sessions.
LEMMA HandlersOnlyEnd ==
  ASSUME ThreadsOK, NEW i \in Handlers, Handle(i) \/ Receive(i)
  PROVE  /\ DOMAIN job' = DOMAIN job
         /\ \A j \in DOMAIN job : /\ job'[j].kind = job[j].kind
                                  /\ job[j].at = "ended" => job'[j].at = "ended"
         /\ UNCHANGED <<running, main, udp, tcp, api, second, workers, unjoined, joined, raced>>
<1>0. CASE SessionSignalled(i)
  BY <1>0, SignalledOnly
<1> SUFFICES ASSUME ~SessionSignalled(i)
             PROVE  /\ DOMAIN job' = DOMAIN job
                    /\ \A j \in DOMAIN job : /\ job'[j].kind = job[j].kind
                                             /\ job[j].at = "ended" => job'[j].at = "ended"
                    /\ UNCHANGED <<running, main, udp, tcp, api, second, workers, unjoined, joined, raced>>
  BY <1>0
<1>1. i \in DOMAIN job /\ \E at \in Places : Move(i, at)
  BY DEF Handle, Receive, UdpAnswer, SessionHead, SessionTimeout, SessionAnswer, SessionLeave,
         SessionReadable, SessionRead, SessionSent, Places
<1>2. job[i].at # "ended"
  BY DEF Handle, Receive, UdpAnswer, SessionHead, SessionTimeout, SessionAnswer, SessionLeave,
         SessionReadable, SessionRead, SessionSent
<1>3. UNCHANGED <<running, main, udp, tcp, api, second, workers, unjoined, joined, raced>>
  BY DEF Handle, Receive, UdpAnswer, SessionHead, SessionTimeout, SessionAnswer, SessionLeave,
         SessionReadable, SessionRead, SessionSent, loops
<1> QED
  BY <1>1, <1>2, <1>3, Moved

LEMMA AliveInit == Init => AliveInv
BY Empty DEF Init, AliveInv

\* A thread that is spawned without a race is in workers_.
LEMMA SpawnKeepsAlive ==
  ASSUME ThreadsOK, AliveInv, NEW kind \in {"udp", "tcp"}, NEW at \in Places, NEW inside,
         Emplace(kind, at, inside), UNCHANGED joined
  PROVE  /\ joined' \subseteq DOMAIN job' /\ \A j \in joined' : job'[j].at = "ended"
         /\ ~raced' => \A i \in DOMAIN job' :
              job'[i].at # "ended" => \E n \in DOMAIN workers' : workers'[n] = i
<1>1. /\ Len(job) \in Nat /\ DOMAIN job = 1 .. Len(job)
      /\ DOMAIN job' = DOMAIN job \cup {Len(job) + 1}
      /\ \A i \in DOMAIN job : job'[i] = job[i]
  BY Spawned
<1>2. Len(job') = Len(job) + 1
  BY DEF Emplace, ThreadsOK
<1>3. ASSUME ~raced'
      PROVE  workers' = Append(workers, Len(job) + 1) /\ ~raced
  BY <1>2, <1>3 DEF Emplace
<1>4. workers \in Seq(DOMAIN job)
  BY DEF ThreadsOK
<1>5. ASSUME ~raced', NEW i \in DOMAIN job', job'[i].at # "ended"
      PROVE  \E n \in DOMAIN workers' : workers'[n] = i
  <2>1. DOMAIN workers' = 1 .. Len(workers) + 1 /\ Len(workers) \in Nat
        /\ workers'[Len(workers) + 1] = Len(job) + 1
        /\ DOMAIN workers = 1 .. Len(workers)
        /\ \A n \in 1 .. Len(workers) : workers'[n] = workers[n]
    BY <1>3, <1>4, <1>5
  <2>2. CASE i = Len(job) + 1
    BY <2>1, <2>2
  <2>3. CASE i \in DOMAIN job
    <3>1. PICK n \in DOMAIN workers : workers[n] = i
      BY <1>1, <1>3, <1>5, <2>3 DEF AliveInv
    <3> QED
      BY <2>1, <3>1
  <2> QED
    BY <1>1, <2>2, <2>3
<1> QED
  BY <1>1, <1>5 DEF AliveInv

LEMMA AliveStep == ThreadsOK /\ JoinInv /\ AliveInv /\ [Next]_vars => AliveInv'
<1> SUFFICES ASSUME ThreadsOK, JoinInv, AliveInv, [Next]_vars PROVE AliveInv'
  OBVIOUS
<1> USE DEF Quiet
<1>1. CASE Start
  BY <1>1 DEF AliveInv, Start
<1>2. CASE Stop
  BY <1>2 DEF AliveInv, Stop
<1>3. CASE MainStep
  <2>1. CASE JoinLoop("join udp", udp, "join tcp") \/ JoinLoop("join tcp", tcp, "join api")
    BY <2>1 DEF AliveInv, JoinLoop, Joinable
  <2>2. CASE JoinLoop("join api", api, "join second") \/ JoinLoop("join second", second, "join workers")
    BY <2>2 DEF AliveInv, JoinLoop, Joinable
  <2>3. CASE JoinWorkers
    <3>1. ~raced => \A i \in DOMAIN job : job[i].at = "ended"
      BY <2>3 DEF AliveInv, JoinWorkers
    <3> QED
      BY <2>3, <3>1 DEF AliveInv, JoinWorkers
  <2> QED
    BY <1>3, <2>1, <2>2, <2>3 DEF MainStep
<1>4. CASE UdpStep
  <2>1. CASE UdpHead \/ UdpRecv \/ UdpHandle \/ UdpCount
    BY <2>1 DEF AliveInv, UdpHead, UdpRecv, UdpHandle, UdpCount
  <2>2. CASE UdpEmplace
    <3>1. /\ joined' \subseteq DOMAIN job' /\ \A j \in joined' : job'[j].at = "ended"
          /\ ~raced' => \A i \in DOMAIN job' :
               job'[i].at # "ended" => \E n \in DOMAIN workers' : workers'[n] = i
      BY <2>2, SpawnKeepsAlive DEF UdpEmplace, Places
    <3> QED
      BY <2>2, <3>1 DEF AliveInv, UdpEmplace
  <2>3. CASE UdpJoin
    <3>1. CASE unjoined = << >>
      BY <2>3, <3>1 DEF AliveInv, UdpJoin
    <3>2. CASE unjoined # << >>
      <4>1. Head(unjoined) \in DOMAIN job /\ job[Head(unjoined)].at = "ended"
            /\ joined' = joined \cup {Head(unjoined)}
            /\ UNCHANGED <<udp, running, main, tcp, api, second, job, workers, raced>>
        BY <2>3, <3>2 DEF UdpJoin, ThreadsOK
      <4> QED
        BY <4>1 DEF AliveInv
    <3> QED
      BY <3>1, <3>2
  <2>4. CASE UdpClear
    <3>1. ~raced => \A i \in DOMAIN job : job[i].at = "ended"
      BY <2>4 DEF AliveInv, JoinInv, UdpClear
    <3> QED
      BY <2>4, <3>1 DEF AliveInv, UdpClear
  <2> QED
    BY <1>4, <2>1, <2>2, <2>3, <2>4 DEF UdpStep
<1>5. CASE TcpStep
  <2>1. CASE TcpHead \/ TcpAccept \/ TcpCheck \/ TcpTake
    BY <2>1 DEF AliveInv, TcpHead, TcpAccept, TcpCheck, TcpTake
  <2>2. CASE TcpEmplace
    <3>1. /\ joined' \subseteq DOMAIN job' /\ \A j \in joined' : job'[j].at = "ended"
          /\ ~raced' => \A i \in DOMAIN job' :
               job'[i].at # "ended" => \E n \in DOMAIN workers' : workers'[n] = i
      BY <2>2, SpawnKeepsAlive DEF TcpEmplace, Places
    <3> QED
      BY <2>2, <3>1 DEF AliveInv, TcpEmplace
  <2> QED
    BY <1>5, <2>1, <2>2 DEF TcpStep
<1>6. CASE ApiStep \/ SecondStep \/ Peers
  BY <1>6, LoopsAlone DEF AliveInv
<1>7. ASSUME NEW i \in Handlers, Handle(i) \/ Receive(i) PROVE AliveInv'
  <2>1. /\ DOMAIN job' = DOMAIN job
        /\ \A j \in DOMAIN job : job[j].at = "ended" => job'[j].at = "ended"
        /\ UNCHANGED <<main, udp, tcp, api, second, workers, joined, raced>>
    BY <1>7, HandlersOnlyEnd
  <2>2. main # "new"
    BY <1>7, Empty DEF AliveInv, Handle, Receive
  <2> QED
    BY <2>1, <2>2 DEF AliveInv
<1>8. CASE UNCHANGED vars
  BY <1>8 DEF AliveInv, vars, loops
<1> QED
  BY <1>1, <1>2, <1>3, <1>4, <1>5, <1>6, <1>7, <1>8 DEF Next, Runs

\* When stop has returned nothing of the server runs any more, for any number of
\* handlers, unless the UDP and the TCP loop changed workers_ at once: every
\* handler is in the vector that stop joins, and no loop is left to spawn one.
THEOREM StopLeavesNothing == Spec => []NothingLeftRunning
<1>1. Init => ThreadsOK /\ JoinInv /\ AliveInv
  BY ThreadsInit, AliveInit DEF Init, JoinInv
<1>2. ThreadsOK /\ JoinInv /\ AliveInv /\ [Next]_vars => (ThreadsOK /\ JoinInv /\ AliveInv)'
  BY ThreadsStep, JoinStep, AliveStep
<1>3. AliveInv => NothingLeftRunning
  BY DEF AliveInv, NothingLeftRunning, Quiet
<1> QED
  BY <1>1, <1>2, <1>3, PTL DEF Spec

-----------------------------------------------------------------------------
(* The batches.                                                            *)

\* At the places where the loop has looked at the size of workers_ since it
\* spawned, the UDP handlers fit a batch.
BatchInv ==
  /\ workerThreads \in WorkerThreads
  /\ ~raced /\ udp \in {"head", "recv", "handle", "emplace"} =>
       Cardinality(Jobs("udp")) <= Batch

LEMMA UdpJobsFinite ==
  ASSUME ThreadsOK
  PROVE  IsFiniteSet(Jobs("udp")) /\ Cardinality(Jobs("udp")) \in Nat
<1>1. Jobs("udp") \subseteq 1 .. Len(job) /\ Len(job) \in Nat
  BY DEF Jobs, ThreadsOK
<1>2. IsFiniteSet(1 .. Len(job))
  BY <1>1, FS_Interval
<1> QED
  BY <1>1, <1>2, FS_Subset, FS_CardinalityType

\* As many UDP handlers run as there are elements in workers_, at most.
LEMMA WorkersBoundHandlers ==
  ASSUME ThreadsOK, AliveInv, ~raced
  PROVE  Cardinality(Jobs("udp")) <= Len(workers)
<1> DEFINE elements == {workers[n] : n \in 1 .. Len(workers)}
           f == [n \in 1 .. Len(workers) |-> workers[n]]
<1>1. Len(workers) \in Nat /\ DOMAIN workers = 1 .. Len(workers)
  BY DEF ThreadsOK
<1>2. f \in Surjection(1 .. Len(workers), elements)
  BY DEF Surjection
<1>3. IsFiniteSet(1 .. Len(workers)) /\ Cardinality(1 .. Len(workers)) = Len(workers)
  <2>1. 1 \in Int /\ Len(workers) \in Int
    BY <1>1
  <2>2. /\ IsFiniteSet(1 .. Len(workers))
        /\ Cardinality(1 .. Len(workers)) = IF 1 > Len(workers) THEN 0 ELSE Len(workers) - 1 + 1
    BY ONLY <2>1, FS_Interval
  <2> QED
    BY <1>1, <2>2
<1>4. Jobs("udp") \subseteq elements
  BY <1>1 DEF Jobs, AliveInv
<1> HIDE DEF elements, f
<1>5. IsFiniteSet(elements) /\ Cardinality(elements) <= Len(workers)
  BY <1>2, <1>3, FS_Surjection
<1>6. Cardinality(Jobs("udp")) <= Cardinality(elements)
  BY <1>4, <1>5, FS_Subset
<1>7. Cardinality(elements) \in Nat /\ Cardinality(Jobs("udp")) \in Nat
  BY <1>5, FS_CardinalityType, UdpJobsFinite
<1> QED
  BY <1>1, <1>5, <1>6, <1>7

\* Fewer UDP handlers keep to the batch.
LEMMA FewerFit ==
  ASSUME ThreadsOK, BatchInv, UNCHANGED workerThreads, ~raced' => ~raced,
         ~raced' /\ udp' \in {"head", "recv", "handle", "emplace"} =>
           udp \in {"head", "recv", "handle", "emplace"},
         Jobs("udp")' \subseteq Jobs("udp")
  PROVE  BatchInv'
<1>1. IsFiniteSet(Jobs("udp")) /\ Cardinality(Jobs("udp")) \in Nat
  BY UdpJobsFinite
<1>2. Cardinality(Jobs("udp")') \in Nat /\ Cardinality(Jobs("udp")') <= Cardinality(Jobs("udp"))
  BY <1>1, FS_Subset, FS_CardinalityType
<1>3. Batch \in Nat /\ Batch' = Batch
  BY ServerAssumption DEF BatchInv, Batch
<1> QED
  BY <1>1, <1>2, <1>3 DEF BatchInv

LEMMA BatchStep == ThreadsOK /\ JoinInv /\ AliveInv /\ BatchInv /\ [Next]_vars => BatchInv'
<1> SUFFICES ASSUME ThreadsOK, JoinInv, AliveInv, BatchInv, [Next]_vars PROVE BatchInv'
  OBVIOUS
<1>0. UNCHANGED workerThreads /\ workerThreads \in WorkerThreads /\ Batch \in Nat /\ Batch' = Batch
  BY ServerAssumption DEF BatchInv, Next, Runs, vars, Batch
<1>a. ASSUME Jobs("udp")' = {} PROVE BatchInv'
  BY <1>0, <1>a, FS_EmptySet DEF BatchInv
<1>b. ASSUME UNCHANGED <<job, raced>>, udp' = udp \/ udp' \notin {"head", "recv", "handle", "emplace"}
      PROVE  BatchInv'
  <2>1. Jobs("udp")' = Jobs("udp")
    BY <1>b DEF Jobs
  <2> QED
    BY <1>0, <1>b, <2>1, FewerFit
<1>1. CASE Start
  <2>1. Jobs("udp")' = {}
    BY <1>1, Empty DEF Start, AliveInv, Jobs
  <2> QED
    BY <1>a, <2>1
<1>2. CASE Stop \/ MainStep \/ ApiStep \/ SecondStep \/ Peers \/ UNCHANGED vars
  BY <1>2, <1>b, LoopsAlone DEF Stop, MainStep, JoinLoop, JoinWorkers, vars, loops
<1>3. CASE UdpStep
  <2>1. CASE UdpHead \/ UdpRecv \/ UdpHandle
    <3>1. Jobs("udp")' = Jobs("udp") /\ UNCHANGED raced /\ udp \in {"head", "recv", "handle", "emplace"}
      BY <2>1 DEF UdpHead, UdpRecv, UdpHandle, Jobs
    <3> QED
      BY <1>0, <3>1, FewerFit
  <2>2. CASE UdpEmplace
    BY <1>0, <2>2 DEF UdpEmplace, BatchInv
  <2>3. CASE UdpCount
    <3>1. Jobs("udp")' = Jobs("udp") /\ UNCHANGED raced
      BY <2>3 DEF UdpCount, Jobs
    <3>2. CASE Len(workers) > Batch
      BY <1>0, <2>3, <3>2 DEF UdpCount, BatchInv
    <3>3. CASE ~(Len(workers) > Batch) /\ ~raced
      <4>1. Len(workers) \in Nat /\ Cardinality(Jobs("udp")) \in Nat
        BY UdpJobsFinite DEF ThreadsOK
      <4> QED
        BY <1>0, <3>1, <3>3, <4>1, WorkersBoundHandlers DEF BatchInv
    <3>4. CASE raced
      BY <1>0, <3>1, <3>4 DEF BatchInv
    <3> QED
      BY <3>2, <3>3, <3>4
  <2>4. CASE UdpJoin
    BY <1>0, <2>4 DEF UdpJoin, BatchInv
  <2>5. CASE UdpClear
    <3>1. ~raced => Jobs("udp")' = {}
      BY <2>5 DEF UdpClear, JoinInv, AliveInv, Jobs
    <3>2. UNCHANGED raced
      BY <2>5 DEF UdpClear
    <3> QED
      BY <1>0, <1>a, <3>1, <3>2 DEF BatchInv
  <2> QED
    BY <1>3, <2>1, <2>2, <2>3, <2>4, <2>5 DEF UdpStep
<1>4. CASE TcpStep
  <2>1. CASE TcpEmplace
    <3>1. /\ Len(job) \in Nat /\ DOMAIN job = 1 .. Len(job)
          /\ DOMAIN job' = DOMAIN job \cup {Len(job) + 1}
          /\ job'[Len(job) + 1].kind = "tcp"
          /\ \A i \in DOMAIN job : job'[i] = job[i]
      BY <2>1, Spawned DEF TcpEmplace, Places
    <3>2. Jobs("udp")' = Jobs("udp") /\ UNCHANGED udp /\ (~raced' => ~raced)
      BY <2>1, <3>1 DEF Jobs, TcpEmplace, Emplace
    <3> QED
      BY <1>0, <3>2, FewerFit
  <2>2. CASE TcpHead \/ TcpAccept \/ TcpCheck \/ TcpTake
    BY <1>b, <2>2 DEF TcpHead, TcpAccept, TcpCheck, TcpTake
  <2> QED
    BY <1>4, <2>1, <2>2 DEF TcpStep
<1>5. ASSUME NEW i \in Handlers, Handle(i) \/ Receive(i) PROVE BatchInv'
  <2>1. Jobs("udp")' \subseteq Jobs("udp") /\ UNCHANGED <<udp, raced>>
    BY <1>5, HandlersOnlyEnd DEF Jobs
  <2> QED
    BY <1>0, <2>1, FewerFit
<1> QED
  BY <1>1, <1>2, <1>3, <1>4, <1>5 DEF Next, Runs

\* Whenever the UDP loop takes another query, the handlers that run fit the
\* batches, for any numbers of threads: since the handlers of workers_ bound
\* them, and TCP sessions only make the vector longer.
THEOREM BatchesBoundHandlers == Spec => []UdpHandlersBounded
<1>1. Init => ThreadsOK /\ JoinInv /\ AliveInv /\ BatchInv
  BY ThreadsInit, AliveInit DEF Init, JoinInv, BatchInv
<1>2. ThreadsOK /\ JoinInv /\ AliveInv /\ BatchInv /\ [Next]_vars
        => (ThreadsOK /\ JoinInv /\ AliveInv /\ BatchInv)'
  BY ThreadsStep, JoinStep, AliveStep, BatchStep
<1>3. BatchInv => UdpHandlersBounded
  BY DEF BatchInv, UdpHandlersBounded
<1> QED
  BY <1>1, <1>2, <1>3, PTL DEF Spec

=============================================================================
