----------------------------- MODULE HttpServer -----------------------------
(***************************************************************************)
(* HttpApiServer (server/http_api.cpp) as main.cpp uses it: the main       *)
(* thread starts the server, waits for a key, stops it and destroys it;    *)
(* the server thread accepts one client at a time and serves it to the     *)
(* end; the ticker computes metrics.  Clients may connect, send a request, *)
(* or say nothing and leave.                                               *)
(*                                                                         *)
(* What is done with a request is the business of HttpApi.  server_fd_ is  *)
(* an int that two threads use without synchronization; each of its        *)
(* accesses is taken as one step.                                          *)
(***************************************************************************)
EXTENDS HttpApi

CONSTANTS Clients, Nobody

ASSUME HttpAssumption == Nobody \notin Clients

VARIABLES
    main,     \* the main thread's next step
    stops,    \* how many times stop() has been entered: by main, by the destructor
    running,  \* running_
    fd,       \* server_fd_
    sock,     \* the socket: "none" | "open" | "listening" | "closed"
    server,   \* the server thread's next step
    cur,      \* the client being served
    backlog,  \* clients that the kernel has connected and nobody accepted
    client    \* what each client has done, or what has become of it

mainVars   == <<main, stops, running>>
serverVars == <<server, cur>>
netVars    == <<backlog, client>>
dataVars   == <<metricsVars, apiVars>>
vars == <<dataVars, mainVars, fd, sock, serverVars, netVars>>

ThreadsTypeOK ==
    /\ main \in {"start", "reading", "flag", "close", "join", "gone", "aborted"}
    /\ stops \in 0..2 /\ running \in BOOLEAN /\ fd \in {-1, 1}
    /\ sock \in {"none", "open", "listening", "closed"}
    /\ server \in {"none", "socket", "listen", "spawn", "check", "accept", "recv",
                   "handle", "send", "join", "ended"}
    /\ cur \in Clients \cup {Nobody} /\ backlog \in Seq(Clients)
    /\ client \in [Clients -> {"out", "connected", "sent", "left", "answered", "dropped"}]

TypeOK == MetricsTypeOK /\ ApiTypeOK /\ ThreadsTypeOK

Init ==
    /\ MetricsInit /\ ApiInit
    /\ main = "start" /\ stops = 0 /\ running = FALSE /\ fd = -1 /\ sock = "none"
    /\ server = "none" /\ cur = Nobody /\ backlog = <<>>
    /\ client = [c \in Clients |-> "out"]

-----------------------------------------------------------------------------
(* The main thread                                                          *)

Start ==
    /\ main = "start" /\ main' = "reading"
    /\ running' = TRUE /\ server' = "socket"
    /\ UNCHANGED <<dataVars, stops, fd, sock, cur, netVars>>

\* std::cin.get() returns: somebody may press the key, and nobody has to.
PressEnter ==
    /\ main = "reading" /\ main' = "flag" /\ stops' = 1
    /\ UNCHANGED <<dataVars, running, fd, sock, serverVars, netVars>>

\* MUTANT: stop does not tell the threads.
StopFlagForgotten ==
    /\ main = "flag" /\ main' = "close"
    /\ UNCHANGED <<dataVars, stops, running, fd, sock, serverVars, netVars>>

StopFlag ==
    /\ main = "flag" /\ main' = "close" /\ running' = FALSE
    /\ UNCHANGED <<dataVars, stops, fd, sock, serverVars, netVars>>

\* Connections that nobody accepted are reset with the socket.
DropBacklog ==
    client' = [c \in Clients |->
        IF client[c] \in {"connected", "sent"} /\ \E i \in DOMAIN backlog : backlog[i] = c
        THEN "dropped" ELSE client[c]]

\* MUTANT: stop only acts once.
StopCloseOnce ==
    /\ main = "close" /\ main' = "join"
    /\ IF fd >= 0 /\ stops = 1
       THEN fd' = -1 /\ sock' = "closed" /\ backlog' = <<>> /\ DropBacklog
       ELSE UNCHANGED <<fd, sock, backlog, client>>
    /\ UNCHANGED <<dataVars, stops, running, serverVars>>

StopClose ==
    /\ main = "close" /\ main' = "join"
    /\ IF fd >= 0
       THEN fd' = -1 /\ sock' = "closed" /\ backlog' = <<>> /\ DropBacklog
       ELSE UNCHANGED <<fd, sock, backlog, client>>
    /\ UNCHANGED <<dataVars, stops, running, serverVars>>

\* join returns; ~HttpApiServer calls stop() again, when there is no thread left to join.
StopJoin ==
    /\ main = "join" /\ server = "ended"
    /\ IF stops = 1 THEN main' = "flag" /\ stops' = 2 ELSE main' = "gone" /\ UNCHANGED stops
    /\ UNCHANGED <<dataVars, running, fd, sock, serverVars, netVars>>

MainStep == StopFlag \/ StopClose \/ StopJoin

-----------------------------------------------------------------------------
(* The server thread: run and handle_client                                 *)

OpenSocket ==
    /\ server = "socket"
    /\ \/ fd' = 1 /\ sock' = "open" /\ server' = "listen"
       \/ server' = "ended" /\ UNCHANGED <<fd, sock>>   \* socket() failed
    /\ UNCHANGED <<dataVars, mainVars, cur, netVars>>

\* bind and listen: they fail on a socket that stop() has closed, and may fail anyway.
Listen ==
    /\ server = "listen"
    /\ \/ sock = "open" /\ sock' = "listening" /\ server' = "spawn"
       \/ server' = "ended" /\ UNCHANGED sock
    /\ UNCHANGED <<dataVars, mainVars, fd, cur, netVars>>

SpawnTicker ==
    /\ server = "spawn" /\ server' = "check" /\ tick' = "check"
    /\ UNCHANGED <<total, window, buckets, pct, rec, at, counts, published, apiVars>>
    /\ UNCHANGED <<mainVars, fd, sock, cur, netVars>>

CheckRunning ==
    /\ server = "check"
    /\ server' = IF running THEN "accept" ELSE "join"
    /\ UNCHANGED <<dataVars, mainVars, fd, sock, cur, netVars>>

\* MUTANT: the loop ends when there is nobody to accept.
AcceptOrLeave ==
    /\ server = "accept"
    /\ IF fd >= 0 /\ backlog # <<>>
       THEN cur' = Head(backlog) /\ backlog' = Tail(backlog) /\ server' = "recv"
       ELSE server' = "join" /\ UNCHANGED <<cur, backlog>>
    /\ UNCHANGED <<dataVars, mainVars, fd, sock, client>>

\* accept does not block; without a connection the loop sleeps and goes round.
Accept ==
    /\ server = "accept"
    /\ IF fd >= 0 /\ backlog # <<>>
       THEN cur' = Head(backlog) /\ backlog' = Tail(backlog) /\ server' = "recv"
       ELSE server' = "check" /\ UNCHANGED <<cur, backlog>>
    /\ UNCHANGED <<dataVars, mainVars, fd, sock, client>>

\* One recv: it blocks until the client has sent something or left, and returns what
\* has arrived, which need not be the whole request.
Receive ==
    /\ server = "recv"
    /\ \/ client[cur] = "left" /\ server' = "check" /\ cur' = Nobody /\ UNCHANGED apiVars
       \/ /\ client[cur] = "sent" /\ server' = "handle" /\ UNCHANGED cur
          /\ \E r \in Requests : \E cut \in Cuts(r) : Dispatch(r, cut)
    /\ UNCHANGED <<metricsVars, mainVars, fd, sock, netVars>>

Handle ==
    /\ server = "handle" /\ HandlerStep
    /\ UNCHANGED <<mainVars, fd, sock, serverVars, netVars>>

Respond ==
    /\ server = "handle" /\ steps = <<>> /\ server' = "check"
    /\ client' = [client EXCEPT ![cur] = "answered"] /\ cur' = Nobody
    /\ Forget
    /\ UNCHANGED <<metricsVars, mainVars, fd, sock, backlog>>

\* MUTANT: run returns without waiting for the ticker.
JoinTickerNot ==
    /\ server = "join" /\ server' = "ended"
    /\ UNCHANGED <<dataVars, mainVars, fd, sock, cur, netVars>>

JoinTicker ==
    /\ server = "join" /\ tick = "ended" /\ server' = "ended"
    /\ UNCHANGED <<dataVars, mainVars, fd, sock, cur, netVars>>

ServerStep ==
    /\ main # "aborted"
    /\ \/ OpenSocket \/ Listen \/ SpawnTicker \/ CheckRunning \/ Accept
       \/ Receive \/ Handle \/ Respond \/ JoinTicker

\* An insert throws, nothing catches it, and the process ends: std::terminate.  What
\* the shard's files then hold is the subject of Shard.
Abort ==
    /\ main # "aborted" /\ server = "handle" /\ steps # <<>> /\ Head(steps) = "store"
    /\ main' = "aborted" /\ sock' = "closed"
    /\ client' = [c \in Clients |-> IF client[c] \in {"connected", "sent"} THEN "dropped" ELSE client[c]]
    /\ UNCHANGED <<dataVars, stops, running, fd, serverVars, backlog>>

-----------------------------------------------------------------------------
(* The ticker thread                                                        *)

TickerLoop ==
    /\ tick = "check"
    /\ tick' = IF running THEN "sleep" ELSE "ended"
    /\ UNCHANGED <<total, window, buckets, pct, rec, at, counts, published>>

TickerStep ==
    /\ main # "aborted" /\ (TickerLoop \/ Compute)
    /\ UNCHANGED <<apiVars, mainVars, fd, sock, serverVars, netVars>>

-----------------------------------------------------------------------------
(* Clients, each with one connection, and other users of the shards         *)

Connect(c) ==
    /\ client[c] = "out" /\ sock = "listening"
    /\ client' = [client EXCEPT ![c] = "connected"]
    /\ backlog' = Append(backlog, c)

\* The first bytes of a request; which one it is the server learns from recv.
Send(c) ==
    /\ client[c] = "connected"
    /\ client' = [client EXCEPT ![c] = "sent"]
    /\ UNCHANGED backlog

Leave(c) ==
    /\ client[c] = "connected"
    /\ client' = [client EXCEPT ![c] = "left"]
    /\ UNCHANGED backlog

ClientStep ==
    /\ main # "aborted" /\ \E c \in Clients : Connect(c) \/ Send(c) \/ Leave(c)
    /\ UNCHANGED <<dataVars, mainVars, fd, sock, serverVars>>

\* main.cpp starts no gRPC service; one over the same shards would be this.
OtherStep ==
    /\ main \notin {"gone", "aborted"} /\ \E id \in OtherIds : OtherInsert(id)
    /\ UNCHANGED <<metricsVars, mainVars, fd, sock, serverVars, netVars>>

Next == Start \/ PressEnter \/ MainStep \/ ServerStep \/ Abort \/ TickerStep \/ ClientStep \/ OtherStep

\* Threads run and sleeps end; nothing is assumed of the clients or of the key.
Fairness == WF_vars(MainStep) /\ WF_vars(ServerStep) /\ WF_vars(TickerStep)

Spec == Init /\ [][Next]_vars /\ Fairness

-----------------------------------------------------------------------------
(* Properties                                                               *)

\* When the server object is gone no thread is left that could touch it or the
\* metrics, and the socket is closed, even if stop() came before the server thread had
\* opened it: the destructor's second call closes what the first could not see.
NothingOutlivesServer ==
    /\ TypeOK
    /\ main = "gone" =>
         /\ server = "ended" /\ tick \in {"none", "ended"} /\ rec.pc = "idle"
         /\ sock \in {"none", "closed"}

\* A client that connects and then neither sends nor leaves holds up recv for ever.
ClientsTalk == \A c \in Clients : []<>(client[c] # "connected")

\* Without such a client every request is answered, or reset by stop() or the end of
\* the process.  (Only those take a client out of "sent".)
EveryoneAnswered ==
    ClientsTalk => \A c \in Clients : []<>(client[c] # "sent")

\* ... and once the key is pressed the program ends: main does not stay in stop().
StopReturns ==
    ClientsTalk => []<>(main \in {"start", "reading", "gone", "aborted"})
=============================================================================
