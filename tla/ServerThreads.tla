---------------------------- MODULE ServerThreads ----------------------------
(***************************************************************************)
(* The threads of class DnsServer (core/server.cpp): the UDP, TCP, API and *)
(* secondary loops that start() makes, the handler threads the first two   *)
(* spawn into workers_, and stop(), called by the main thread.  What a     *)
(* handler does with a message is module Engine; here it just ends.        *)
(*                                                                         *)
(* The process may end while its threads run: by the destructor of a       *)
(* thread that was not joined, by an exception that leaves a thread        *)
(* (std::stoi and the JSON conversions are nowhere caught), or by SIGPIPE, *)
(* which a send to a peer that has closed raises and nothing handles.      *)
(*                                                                         *)
(* workers_ is a std::vector<std::thread> that the UDP and the TCP loop    *)
(* change without a lock.  When one is inside an operation on it while the *)
(* other completes one, the behaviour is undefined: the new element may be *)
(* lost, the process may die, or no harm is done.                          *)
(***************************************************************************)
EXTENDS Integers, Sequences, FiniteSets

CONSTANTS
  WorkerThreads,    \* the values worker_threads may have: 1 is inline
  BatchPerThread,   \* 4 in the code
  MaxTcpSessions,   \* max_tcp_sessions: 0 for no limit
  EnableApi,        \* enable_api
  MaxThreads        \* bound: handler threads spawned in one run

ASSUME ServerAssumption ==
  /\ WorkerThreads \subseteq Nat /\ BatchPerThread \in Nat \ {0}
  /\ MaxTcpSessions \in Nat /\ MaxThreads \in Nat
  /\ EnableApi \in BOOLEAN

VARIABLES
  workerThreads,\* worker_threads: 1 handles UDP queries in the loop
  fate,         \* "alive", or what has ended the process
  running,      \* running_
  main,         \* the main thread: what it does or waits for
  udp, tcp,     \* the two loops that spawn
  api, second,  \* the API loop and the secondary loop
  job,          \* the handler threads, [kind, at], by number
  workers,      \* workers_: the numbers of the threads it holds
  unjoined,     \* the UDP loop's iterator: elements still to join
  joined,       \* the threads joined
  tcpSessions,  \* tcp_sessions_
  raced         \* history: workers_ was changed by both loops at once

loops == <<main, udp, tcp, api, second>>
vars == <<workerThreads, fate, running, loops, job, workers, unjoined, joined, tcpSessions,
          raced>>

Init ==
  /\ workerThreads \in WorkerThreads
  /\ fate = "alive" /\ running = FALSE
  /\ main = "new"
  /\ udp = "none" /\ tcp = "none" /\ api = "none" /\ second = "none"
  /\ job = << >> /\ workers = << >> /\ unjoined = << >> /\ joined = {}
  /\ tcpSessions = 0
  /\ raced = FALSE

\* Each of the two loops may be about to spawn when the bound is reached.
Handlers == 1 .. MaxThreads + 1

Jobs(kind) == {i \in DOMAIN job : job[i].kind = kind /\ job[i].at # "ended"}
Move(i, at) == job' = [job EXCEPT ![i].at = at]

\* The process ends where its threads stand.
Dies(by) ==
  /\ fate' = by
  /\ UNCHANGED <<running, loops, job, workers, unjoined, joined, tcpSessions, raced>>

-----------------------------------------------------------------------------
(* start and stop.                                                         *)

\* start: sockets, backends and privileges first; the threads only if all of
\* that succeeds.
Start ==
  /\ main = "new"
  /\ running' = TRUE
  /\ main' = "serving"
  /\ udp' = "head" /\ tcp' = "head" /\ second' = "head"
  /\ api' = IF EnableApi THEN "head" ELSE "none"
  /\ UNCHANGED <<fate, job, workers, unjoined, joined, tcpSessions, raced>>

\* stop, by a signal, or by the destructor after a start that failed.
Stop ==
  /\ main \in {"new", "serving"}
  /\ running' = FALSE
  /\ main' = "join udp"
  /\ UNCHANGED <<fate, udp, tcp, api, second, job, workers, unjoined, joined, tcpSessions, raced>>

\* A thread that was never started is not joinable.
Joinable(loop) == loop # "none"

JoinLoop(at, loop, next) ==
  /\ main = at
  /\ Joinable(loop) => loop = "ended"
  /\ main' = next
  /\ UNCHANGED <<fate, running, udp, tcp, api, second, job, workers, unjoined, joined,
                 tcpSessions, raced>>

JoinWorkersNone ==
  /\ main = "join workers"
  /\ main' = "stopped"
  /\ workers' = << >>
  /\ UNCHANGED <<fate, running, udp, tcp, api, second, job, unjoined, joined, tcpSessions, raced>>

JoinWorkers ==
  /\ main = "join workers"
  /\ \A n \in DOMAIN workers : job[workers[n]].at = "ended"
  /\ main' = "stopped"
  /\ workers' = << >>
  /\ UNCHANGED <<fate, running, udp, tcp, api, second, job, unjoined, joined, tcpSessions, raced>>

MainStep ==
  \/ JoinLoop("join udp", udp, "join tcp")
  \/ JoinLoop("join tcp", tcp, "join api")
  \/ JoinLoop("join api", api, "join second")
  \/ JoinLoop("join second", second, "join workers")
  \/ JoinWorkers

-----------------------------------------------------------------------------
(* The vector of threads.                                                  *)

\* emplace_back of a new thread, which starts at "at".  otherInside: the other
\* loop is inside an operation on workers_.
Emplace(kind, at, otherInside) ==
  /\ job' = Append(job, [kind |-> kind, at |-> at])
  /\ raced' = (raced \/ otherInside)
  /\ \/ workers' = Append(workers, Len(job')) /\ UNCHANGED fate
     \/ otherInside /\ UNCHANGED <<workers, fate>>
     \/ otherInside /\ fate' = "raced" /\ UNCHANGED workers

-----------------------------------------------------------------------------
(* udpLoop.                                                                *)

Batch == workerThreads * BatchPerThread

UdpHead ==
  /\ udp = "head"
  /\ udp' = IF running THEN "recv" ELSE "ended"
  /\ UNCHANGED <<fate, running, main, tcp, api, second, job, workers, unjoined, joined,
                 tcpSessions, raced>>

UdpRecvSpawning ==
  /\ udp = "recv"
  /\ \/ udp' = "head"
     \/ Len(job) < MaxThreads /\ udp' = IF workerThreads > 0 THEN "emplace" ELSE "handle"
  /\ UNCHANGED <<fate, running, main, tcp, api, second, job, workers, unjoined, joined,
                 tcpSessions, raced>>

\* recvFrom: nothing within 200 ms, or a datagram.
UdpRecv ==
  /\ udp = "recv"
  /\ \/ udp' = "head"
     \/ Len(job) < MaxThreads /\ udp' = IF workerThreads > 1 THEN "emplace" ELSE "handle"
  /\ UNCHANGED <<fate, running, main, tcp, api, second, job, workers, unjoined, joined,
                 tcpSessions, raced>>

UdpHandle ==
  /\ udp = "handle"
  /\ udp' = "head"
  /\ UNCHANGED <<fate, running, main, tcp, api, second, job, workers, unjoined, joined,
                 tcpSessions, raced>>

UdpEmplace ==
  /\ udp = "emplace"
  /\ Emplace("udp", "answer", tcp = "emplace")
  /\ udp' = "count"
  /\ UNCHANGED <<running, main, tcp, api, second, unjoined, joined, tcpSessions>>

UdpCountNever ==
  /\ udp = "count"
  /\ udp' = "head"
  /\ UNCHANGED <<fate, running, main, tcp, api, second, job, workers, unjoined, joined,
                 tcpSessions, raced>>

\* The iterator of the loop that joins is set up once.
UdpCount ==
  /\ udp = "count"
  /\ IF Len(workers) > Batch THEN udp' = "join" /\ unjoined' = workers
                             ELSE udp' = "head" /\ UNCHANGED unjoined
  /\ UNCHANGED <<fate, running, main, tcp, api, second, job, workers, joined, tcpSessions, raced>>

UdpJoinButLast ==
  /\ udp = "join"
  /\ IF Len(unjoined) <= 1
     THEN udp' = "clear" /\ UNCHANGED <<unjoined, joined>>
     ELSE /\ job[Head(unjoined)].at = "ended"
          /\ joined' = joined \cup {Head(unjoined)}
          /\ unjoined' = Tail(unjoined)
          /\ UNCHANGED udp
  /\ UNCHANGED <<fate, running, main, tcp, api, second, job, workers, tcpSessions, raced>>

\* Whatever is in workers_ is joined, TCP sessions too.
UdpJoin ==
  /\ udp = "join"
  /\ IF unjoined = << >>
     THEN udp' = "clear" /\ UNCHANGED <<unjoined, joined>>
     ELSE /\ job[Head(unjoined)].at = "ended"
          /\ joined' = joined \cup {Head(unjoined)}
          /\ unjoined' = Tail(unjoined)
          /\ UNCHANGED udp
  /\ UNCHANGED <<fate, running, main, tcp, api, second, job, workers, tcpSessions, raced>>

\* clear: the destructor of a thread that was not joined ends the process.
UdpClear ==
  /\ udp = "clear"
  /\ fate' = IF \A n \in DOMAIN workers : workers[n] \in joined THEN fate ELSE "cleared"
  /\ workers' = << >>
  /\ udp' = "head"
  /\ UNCHANGED <<running, main, tcp, api, second, job, unjoined, joined, tcpSessions, raced>>

UdpStep == UdpHead \/ UdpRecv \/ UdpHandle \/ UdpEmplace \/ UdpCount \/ UdpJoin \/ UdpClear

-----------------------------------------------------------------------------
(* tcpLoop.                                                                *)

TcpHead ==
  /\ tcp = "head"
  /\ tcp' = IF running THEN "accept" ELSE "ended"
  /\ UNCHANGED <<fate, running, main, udp, api, second, job, workers, unjoined, joined,
                 tcpSessions, raced>>

TcpAccept ==
  /\ tcp = "accept"
  /\ \/ tcp' = "head"
     \/ Len(job) < MaxThreads /\ tcp' = "check"
  /\ UNCHANGED <<fate, running, main, udp, api, second, job, workers, unjoined, joined,
                 tcpSessions, raced>>

TcpCheckOneTooMany ==
  /\ tcp = "check"
  /\ tcp' = IF MaxTcpSessions > 0 /\ tcpSessions > MaxTcpSessions THEN "head" ELSE "take"
  /\ UNCHANGED <<fate, running, main, udp, api, second, job, workers, unjoined, joined,
                 tcpSessions, raced>>

\* At the limit the connection is closed.
TcpCheck ==
  /\ tcp = "check"
  /\ tcp' = IF MaxTcpSessions > 0 /\ tcpSessions >= MaxTcpSessions THEN "head" ELSE "take"
  /\ UNCHANGED <<fate, running, main, udp, api, second, job, workers, unjoined, joined,
                 tcpSessions, raced>>

\* Otherwise the session takes a slot.
TcpTake ==
  /\ tcp = "take"
  /\ tcp' = "emplace"
  /\ tcpSessions' = tcpSessions + 1
  /\ UNCHANGED <<fate, running, main, udp, api, second, job, workers, unjoined, joined, raced>>

TcpEmplace ==
  /\ tcp = "emplace"
  /\ Emplace("tcp", "head", udp \in {"emplace", "join", "clear"})
  /\ tcp' = "head"
  /\ UNCHANGED <<running, main, udp, api, second, unjoined, joined, tcpSessions>>

TcpStep == TcpHead \/ TcpAccept \/ TcpCheck \/ TcpTake \/ TcpEmplace

-----------------------------------------------------------------------------
(* Handler threads: handleUdpQuery, handleTcp.                             *)

UdpAnswer(i) ==
  /\ job[i] = [kind |-> "udp", at |-> "answer"]
  /\ Move(i, "ended")
  /\ UNCHANGED <<fate, running, loops, workers, unjoined, joined, tcpSessions, raced>>

SessionHeadForever(i) ==
  /\ job[i].at = "head"
  /\ Move(i, "wait")
  /\ UNCHANGED <<fate, running, loops, workers, unjoined, joined, tcpSessions, raced>>

SessionHead(i) ==
  /\ job[i].at = "head"
  /\ Move(i, IF running THEN "wait" ELSE "leave")
  /\ UNCHANGED <<fate, running, loops, workers, unjoined, joined, tcpSessions, raced>>

\* waitReadable: the client sends something, or the idle timeout passes.
SessionReadable(i) ==
  /\ job[i].at = "wait"
  /\ Move(i, "read")
  /\ UNCHANGED <<fate, running, loops, workers, unjoined, joined, tcpSessions, raced>>
SessionTimeout(i) ==
  /\ job[i].at = "wait"
  /\ Move(i, "leave")
  /\ UNCHANGED <<fate, running, loops, workers, unjoined, joined, tcpSessions, raced>>

\* recvDnsMessage and decodeMessage: a message, or an end of the session.
\* There is no timeout here: a peer that stalls is waited for.
SessionRead(i) ==
  /\ job[i].at = "read"
  /\ Move(i, "answer") \/ Move(i, "leave")
  /\ UNCHANGED <<fate, running, loops, workers, unjoined, joined, tcpSessions, raced>>

\* The engine makes the response.
SessionAnswer(i) ==
  /\ job[i] = [kind |-> "tcp", at |-> "answer"]
  /\ Move(i, "send")
  /\ UNCHANGED <<fate, running, loops, workers, unjoined, joined, tcpSessions, raced>>

\* sendDnsMessage: the peer takes it, at last (a transfer ends the session), or
\* the send fails.  It waits for the peer without a timeout.
SessionSent(i) ==
  /\ job[i].at = "send"
  /\ Move(i, "head") \/ Move(i, "leave")
  /\ UNCHANGED <<fate, running, loops, workers, unjoined, joined, tcpSessions, raced>>

\* The peer has closed: send raises SIGPIPE.
SessionSignalled(i) == job[i].at = "send" /\ Dies("signalled")

\* The session is over: its slot is given back.
SessionLeave(i) ==
  /\ job[i].at = "leave"
  /\ Move(i, "ended")
  /\ tcpSessions' = tcpSessions - 1
  /\ UNCHANGED <<fate, running, loops, workers, unjoined, joined, raced>>

\* What a handler does without waiting for its peer.
Handle(i) ==
  /\ i \in DOMAIN job
  /\ UdpAnswer(i) \/ SessionHead(i) \/ SessionTimeout(i) \/ SessionAnswer(i) \/ SessionLeave(i)

\* What it does when its peer does something.
Receive(i) ==
  /\ i \in DOMAIN job
  /\ SessionReadable(i) \/ SessionRead(i) \/ SessionSent(i) \/ SessionSignalled(i)

-----------------------------------------------------------------------------
(* apiLoop and secondaryLoop, which handle everything themselves.          *)

\* The reads of a request are bounded by waitReadable: a request is complete,
\* cut off, or not there at all.
ApiTurn ==
  /\ \/ api = "head" /\ api' = IF running THEN "accept" ELSE "ended"
     \/ api = "accept" /\ api' \in {"head", "serve"}
     \/ api = "serve" /\ api' \in {"head", "send"}
  /\ UNCHANGED <<fate, running, main, udp, tcp, second, job, workers, unjoined, joined,
                 tcpSessions, raced>>

\* std::stoi in urlDecode, or a conversion of JSON, throws.
ApiThrows == api = "serve" /\ Dies("thrown")

ApiStep == ApiTurn \/ ApiThrows

\* The response is sent without a timeout; its peer may have closed.
ApiSent ==
  /\ api = "send"
  /\ api' = "head"
  /\ UNCHANGED <<fate, running, main, udp, tcp, second, job, workers, unjoined, joined,
                 tcpSessions, raced>>

ApiSignalled == api = "send" /\ Dies("signalled")

\* The transfers from the masters, which have no timeout either, and the sleep
\* after them, which ends early when running_ is cleared.
Refreshed ==
  /\ second = "refresh"
  /\ second' = "head"
  /\ UNCHANGED <<fate, running, main, udp, tcp, api, job, workers, unjoined, joined,
                 tcpSessions, raced>>

\* std::stoi of a master's port throws, or the master has closed before the
\* query is sent.
RefreshDies == second = "refresh" /\ \E by \in {"thrown", "signalled"} : Dies(by)

\* What these loops do when a peer does something.
Peers == ApiSent \/ ApiSignalled \/ Refreshed \/ RefreshDies

SecondStep ==
  /\ second = "head" /\ second' = IF running THEN "refresh" ELSE "ended"
  /\ UNCHANGED <<fate, running, main, udp, tcp, api, job, workers, unjoined, joined,
                 tcpSessions, raced>>

-----------------------------------------------------------------------------
\* A step of the running process; its configuration was read once.
Runs(A) == fate = "alive" /\ A /\ UNCHANGED workerThreads

Next ==
  Runs(\/ Start \/ Stop \/ MainStep
       \/ UdpStep \/ TcpStep \/ ApiStep \/ SecondStep \/ Peers
       \/ \E i \in Handlers : Handle(i) \/ Receive(i))

\* The threads are scheduled, and poll() returns when its time is over.  Nobody
\* owes the server anything: not a message, not the rest of one, not room for
\* what it sends.
Fairness ==
  /\ WF_vars(Runs(MainStep)) /\ WF_vars(Runs(UdpStep)) /\ WF_vars(Runs(TcpStep))
  /\ WF_vars(Runs(ApiStep)) /\ WF_vars(Runs(SecondStep))
  /\ \A i \in Handlers : WF_vars(Runs(Handle(i)))

Spec == Init /\ [][Next]_vars /\ Fairness

-----------------------------------------------------------------------------
\* Control and the threads are well formed: a UDP handler answers and ends, a
\* slot is never given back twice.
TypeOK ==
  /\ fate \in {"alive", "raced", "cleared", "thrown", "signalled"}
  /\ running \in BOOLEAN /\ raced \in BOOLEAN
  /\ udp \in {"none", "head", "recv", "handle", "emplace", "count", "join", "clear", "ended"}
  /\ tcp \in {"none", "head", "accept", "check", "take", "emplace", "ended"}
  /\ job \in Seq([kind : {"udp", "tcp"},
                  at : {"head", "wait", "read", "answer", "send", "leave", "ended"}])
  /\ \A i \in DOMAIN job : job[i].kind = "udp" => job[i].at \in {"answer", "ended"}
  /\ workers \in Seq(DOMAIN job)
  /\ unjoined \in Seq(DOMAIN job)
  /\ tcpSessions \in Nat

\* Every counted session runs or is about to, and they keep to the limit: the
\* test and the increment are two steps, but of one thread (server.cpp:185).
SessionsBounded ==
  /\ tcpSessions = Cardinality(Jobs("tcp")) + (IF tcp = "emplace" THEN 1 ELSE 0)
  /\ MaxTcpSessions > 0 => tcpSessions <= MaxTcpSessions

\* The batches keep the number of UDP queries in progress bounded: when the
\* loop takes another one at most Batch are (server.cpp:129).
UdpHandlersBounded ==
  ~raced /\ udp \in {"head", "recv", "emplace"} => Cardinality(Jobs("udp")) <= Batch

\* The UDP loop never ends the process by clearing a thread it did not join, as
\* long as the two loops do not meet in workers_ (server.cpp:128-135, 189).
ClearsOnlyJoined == fate = "cleared" => raced

\* With worker_threads = 1 queries are handled in the loop and the TCP loop alone
\* uses workers_: the process does not end there, whatever else ends it
\* (server.cpp:127-139).
InlineIsSafe == workerThreads <= 1 => ~raced /\ fate \notin {"raced", "cleared"}

\* When stop has returned no thread of the server is left that could use it
\* (server.cpp:72-95).
NothingLeftRunning ==
  main = "stopped" /\ ~raced =>
    /\ \A i \in DOMAIN job : job[i].at = "ended"
    /\ {udp, tcp, api, second} \subseteq {"none", "ended"}

\* A session that waits for its peer inside a message or a response.
Waits(i) == i \in DOMAIN job /\ job[i].at \in {"read", "send"}

\* What the code leaves to its peers: that whoever began a message or a transfer
\* ends it, and takes what is sent, or closes.
PeersGoOn ==
  /\ \A i \in Handlers : []<>~Waits(i)
  /\ []<>(api # "send") /\ []<>(second # "refresh")

\* stop returns if the peers go on, even if they never stop asking: every loop
\* sees running_ in time, and so does every session (server.cpp:72-95, 146).
StopReturns == PeersGoOn => (main = "join udp" ~> main = "stopped" \/ fate # "alive")

=============================================================================
