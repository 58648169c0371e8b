----------------------------- MODULE YedisServer -----------------------------
(***************************************************************************)
(* The whole server: clients, the main loop that accepts, the worker loops *)
(* that read requests and write replies, the task queue and its executor.  *)
(* A connection is known by the client that opened it.  Descriptors are    *)
(* never closed, so none is reused.                                        *)
(*                                                                         *)
(* Two parts stand here for what they are shown to implement elsewhere:    *)
(* a loop's queued functors are one FIFO (EventLoop), and so is the task   *)
(* queue (TaskManager), whose executor holds m_mtx from front to pop_front.*)
(* Every request is taken for one of a command that answers once.          *)
(***************************************************************************)
EXTENDS LoopThreads

CONSTANTS Clients,
          SplitClients,      (* whose requests may arrive in two pieces      *)
          Descriptors,       (* how many connections the limit may allow     *)
          MaxSize,           (* TaskManager::m_nMAxSize                      *)
          SendBuffer,        (* replies the kernel holds for a client        *)
          MaxOutstanding,    (* requests a client sends ahead of the replies *)
          MaxRequests,       (* bound: requests a client sends               *)
          MaxSplit           (* bound: of these, those that may be split     *)

ASSUME ServerAssumption ==
    /\ NumWorkers \in Nat \ {0}
    /\ SplitClients \subseteq Clients
    /\ Descriptors \subseteq Nat
    /\ MaxSize \in Nat \ {0}
    /\ SendBuffer \in Nat
    /\ MaxOutstanding \in Nat
    /\ MaxRequests \in Nat
    /\ MaxSplit \in Nat
    /\ Clients \cap Nat = {}
    /\ None \notin Clients \cup Nat

Main    == 0
Loops   == Workers \cup {Main}

(* The n-th request of a client, or a piece of it, and the reply to it.     *)
Parts    == {"whole", "head", "tail"}
Requests == Clients \X (1 .. MaxRequests) \X Parts

VARIABLES
    peer,             (* the client's end of its connection                  *)
    sent,             (* requests each client has sent or begun to send      *)
    half,             (* the clients that have sent the head of a request    *)
    toServer,         (* in the socket, not yet read by the server           *)
    toClient,         (* written by the server, not yet read by the client   *)
    received,         (* the replies each client has read                    *)
    m_State,          (* TcpConnection::m_State, "none" before accept        *)
    m_ptrLoop,        (* the worker loop of a connection                     *)
    mapChannels,      (* EPollPoller::mapChannels of all loops               *)
    watched,          (* channels epoll knows, for reading: index kAdded     *)
    m_mapConnections, (* Server::m_mapConnections, by key                    *)
    m_nNext,          (* EventLoopThreadPool::m_nNext, from 1                *)
    descriptorsLeft,  (* before accept fails with EMFILE                     *)
    idleFd_,          (* AcceptNew::idleFd_                                  *)
    functors,         (* what is queued in each loop                         *)
    submitting,       (* the request a worker is inside producerTask with    *)
    m_deque,          (* TaskManager::m_deque                                *)
    executor,         (* where the executor is in consumer()                 *)
    killed            (* the process died, of SIGPIPE or of a bad access     *)

client     == <<sent, half, received>>
socket     == <<peer, toServer, toClient>>
connection == <<m_State, m_ptrLoop, mapChannels, watched>>
server     == <<m_mapConnections, m_nNext, descriptorsLeft, idleFd_>>
queue      == <<submitting, m_deque, executor>>

process    == <<killed, startup>>

vars == <<client, socket, connection, server, functors, queue, process>>

(* "open": connected, if only in the backlog; "refused": accepted and closed *)
(* by the server; "closed": the client has closed its end; "reset": the      *)
(* socket has a pending error; "broken": a write has returned the error,     *)
(* and the next one raises SIGPIPE.                                         *)
PeerStates == {"none", "open", "refused", "closed", "reset", "broken"}

Functor(op, c, r) == [op |-> op, conn |-> c, reply |-> r]
FunctorOps == {"connectEstablished", "sendInLoop", "removeConnectionInLoop", "connectDestroyed"}

Init ==
    /\ peer = [c \in Clients |-> "none"]
    /\ sent = [c \in Clients |-> 0]
    /\ half = {}
    /\ toServer = [c \in Clients |-> <<>>]
    /\ toClient = [c \in Clients |-> <<>>]
    /\ received = [c \in Clients |-> <<>>]
    /\ m_State = [c \in Clients |-> "none"]
    /\ m_ptrLoop = [c \in Clients |-> Main]
    /\ mapChannels = {}
    /\ watched = {}
    /\ m_mapConnections = {}
    /\ m_nNext = 1
    /\ descriptorsLeft \in Descriptors
    /\ idleFd_ = "uninitialized"
    /\ functors = [l \in Loops |-> <<>>]
    /\ submitting = [w \in Workers |-> None]
    /\ m_deque = <<>>
    /\ executor = "wait"
    /\ killed = FALSE
    /\ StartupInit

-----------------------------------------------------------------------------
(* The clients and the network.                                             *)

ClientConnect(c) ==
    /\ peer[c] = "none"
    /\ mainPc = "loop"
    /\ peer' = [peer EXCEPT ![c] = "open"]
    /\ UNCHANGED <<client, toServer, toClient, connection, server, functors, queue, process>>

ClientSend(c) ==
    /\ peer[c] = "open"
    /\ c \notin half
    /\ sent[c] < MaxRequests
    /\ sent[c] < Len(received[c]) + MaxOutstanding
    /\ sent' = [sent EXCEPT ![c] = @ + 1]
    /\ \E part \in IF c \in SplitClients /\ sent[c] < MaxSplit THEN {"whole", "head"} ELSE {"whole"} :
          /\ toServer' = [toServer EXCEPT ![c] = Append(@, <<c, sent[c] + 1, part>>)]
          /\ half' = IF part = "head" THEN half \cup {c} ELSE half
    /\ UNCHANGED <<received, peer, toClient, connection, server, functors, queue, process>>

ClientSendTail(c) ==
    /\ peer[c] = "open"
    /\ c \in half
    /\ half' = half \ {c}
    /\ toServer' = [toServer EXCEPT ![c] = Append(@, <<c, sent[c], "tail">>)]
    /\ UNCHANGED <<sent, received, peer, toClient, connection, server, functors, queue, process>>

ClientReceive(c) ==
    /\ peer[c] = "open"
    /\ toClient[c] # <<>>
    /\ received' = [received EXCEPT ![c] = Append(@, Head(toClient[c]))]
    /\ toClient' = [toClient EXCEPT ![c] = Tail(@)]
    /\ UNCHANGED <<sent, half, peer, toServer, connection, server, functors, queue, process>>

(* The end of file this sends is ignored by handleRead.                      *)
ClientClose(c) ==
    /\ peer[c] = "open"
    /\ peer' = [peer EXCEPT ![c] = "closed"]
    /\ UNCHANGED <<client, toServer, toClient, connection, server, functors, queue, process>>

ClientReset(c) ==
    /\ peer[c] \in {"open", "closed"}
    /\ peer' = [peer EXCEPT ![c] = "reset"]
    /\ UNCHANGED <<client, toServer, toClient, connection, server, functors, queue, process>>

-----------------------------------------------------------------------------
(* The main loop: accept and newConnection.                                 *)

ConnectionKey(c) == c

(* Mutant of name: the constructor sets the name newConnection makes up.     *)
nameOfKey(c) == ConnectionKey(c)

(* TcpConnection::m_name stays empty: it is the key of no connection.        *)
name(c) == None

(* Mutant of getNextLoop: the wrap-around is tested before the increment.    *)
getNextLoopLate == IF m_nNext > Len(m_vecLoops) THEN 1 ELSE m_nNext + 1

getNextLoop == IF m_nNext = Len(m_vecLoops) THEN 1 ELSE m_nNext + 1

(* AcceptNew::handleRead has a connection to accept.                         *)
Acceptable(c) == peer[c] \notin {"none", "refused"} /\ m_State[c] = "none"

newConnection(c) ==
    /\ ~killed
    /\ Acceptable(c)
    /\ descriptorsLeft > 0
    /\ descriptorsLeft' = descriptorsLeft - 1
    /\ m_State' = [m_State EXCEPT ![c] = "kConnecting"]
    /\ m_ptrLoop' = [m_ptrLoop EXCEPT ![c] = m_vecLoops[m_nNext]]
    /\ m_nNext' = getNextLoop
    /\ m_mapConnections' = m_mapConnections \cup {ConnectionKey(c)}
    /\ functors' = [functors EXCEPT ![m_vecLoops[m_nNext]] = Append(@, Functor("connectEstablished", c, None))]
    /\ UNCHANGED <<client, socket, mapChannels, watched, idleFd_, queue, process>>

(* accept fails with EMFILE: idleFd_ is closed to make room for an accept,   *)
(* and the connection closed at once.  Nothing ever initialized idleFd_: if  *)
(* it is no descriptor of the process, that accept fails as well, idleFd_    *)
(* is -1 from then on, and the client stays in the backlog.  (That it is by  *)
(* accident the descriptor of something in use is not considered.)          *)
AcceptWithoutDescriptor(c) ==
    /\ ~killed
    /\ Acceptable(c)
    /\ descriptorsLeft = 0
    /\ idleFd_ # "none"
    /\ idleFd_' \in IF idleFd_ = "uninitialized" THEN {"open", "none"} ELSE {idleFd_}
    /\ peer' = IF idleFd_' = "open" THEN [peer EXCEPT ![c] = "refused"] ELSE peer
    /\ UNCHANGED <<client, toServer, toClient, connection, m_mapConnections, m_nNext,
                   descriptorsLeft, functors, queue, process>>

-----------------------------------------------------------------------------
(* A worker's loop.  It does nothing else while it is inside producerTask.   *)

LoopRuns(l) ==
    /\ ~killed
    /\ IF l \in Workers THEN threadPc[l] = "loop" /\ submitting[l] = None
                        ELSE mainPc = "loop"

(* epoll_wait may report the channel, and fillActiveChannels finds it.       *)
Pollable(c) == c \in watched \cap mapChannels

(* EPollPoller::updateChannel for a new channel, which is marked kAdded even *)
(* if epoll refuses it, and for one without events.                         *)
AddChannel(c, added) ==
    /\ mapChannels' = mapChannels \cup {c}
    /\ watched' = IF added THEN watched \cup {c} ELSE watched

WithoutEvents(c) == watched \ {c}

removeChannel(c) == mapChannels' = mapChannels \ {c}

(* What handleClose hands to the main loop: Server::removeConnection.        *)
removeConnection(c, queued) ==
    [queued EXCEPT ![Main] = Append(@, Functor("removeConnectionInLoop", c, None))]

(* HandleEvent, an error: handleClose, whose disableAll takes the channel    *)
(* out of epoll and clears its events, so that nothing is read.             *)
HandleError(c) ==
    /\ LoopRuns(m_ptrLoop[c])
    /\ Pollable(c)
    /\ peer[c] = "reset"
    /\ m_State[c] # "kDisconnected"
    /\ m_State' = [m_State EXCEPT ![c] = "kDisconnected"]
    /\ watched' = WithoutEvents(c)
    /\ functors' = removeConnection(c, functors)
    /\ UNCHANGED <<client, socket, m_ptrLoop, mapChannels, server, queue, process>>

(* What the parser makes of the bytes of one read: the request they begin    *)
(* with, or what there is of it.                                            *)
parseRequest(bytes) ==
    LET r == Head(bytes)
    IN  IF r[3] = "head" /\ Len(bytes) > 1 THEN <<r[1], r[2], "whole">> ELSE r

(* HandleEvent, readable: handleRead takes all that has arrived; onRead      *)
(* parses the first request, drops the rest and enters producerTask, even   *)
(* if the parser wants more or finds an error.  A read of nothing (end of   *)
(* file) does nothing.                                                      *)
HandleRead(c) ==
    /\ LoopRuns(m_ptrLoop[c])
    /\ Pollable(c)
    /\ peer[c] # "reset"
    /\ toServer[c] # <<>>
    /\ toServer' = [toServer EXCEPT ![c] = <<>>]
    /\ submitting' = [submitting EXCEPT ![m_ptrLoop[c]] = parseRequest(toServer[c])]
    /\ UNCHANGED <<client, peer, toClient, connection, server, functors, m_deque, executor, process>>

(* The worker's producerTask gets through: not while the executor, which     *)
(* owns m_mtx, serves a request, nor while the queue is full.               *)
producerTask(w) ==
    /\ ~killed
    /\ submitting[w] # None
    /\ executor = "wait"
    /\ Len(m_deque) < MaxSize
    /\ m_deque' = Append(m_deque, submitting[w])
    /\ submitting' = [submitting EXCEPT ![w] = None]
    /\ UNCHANGED <<client, socket, connection, server, functors, executor, process>>

(* connectEstablished: enableReading registers the channel with epoll, which *)
(* may refuse; handleClose then disables a channel epoll does not know.     *)
Established(c, added, others) ==
    /\ AddChannel(c, added)
    /\ m_State' = [m_State EXCEPT ![c] = IF added THEN "kConnected" ELSE "kDisconnected"]
    /\ functors' = IF added THEN others ELSE removeConnection(c, others)

(* connectDestroyed: a channel that still has events is disabled, then taken *)
(* out of mapChannels.                                                      *)
Destroyed(c, others) ==
    /\ m_State' = [m_State EXCEPT ![c] = IF @ = "kConnected" THEN "kDisconnected" ELSE @]
    /\ watched' = IF m_State[c] = "kConnected" THEN WithoutEvents(c) ELSE watched
    /\ removeChannel(c)
    /\ functors' = others

Popped(l) == [functors EXCEPT ![l] = Tail(@)]

RunConnectionFunctor(l) ==
    /\ LoopRuns(l)
    /\ functors[l] # <<>>
    /\ LET f == Head(functors[l]) IN
       /\ f.op \in {"connectEstablished", "connectDestroyed"}
       /\ IF f.op = "connectDestroyed" THEN Destroyed(f.conn, Popped(l))
          ELSE \E added \in BOOLEAN : Established(f.conn, added, Popped(l))
    /\ UNCHANGED <<client, socket, m_ptrLoop, server, queue, process>>

(* sendInLoop: one write.  What does not fit the kernel's buffer is not      *)
(* written again.  The first write to a closed peer provokes a reset; one   *)
(* to a reset peer reports the error, or, as every later one, raises        *)
(* SIGPIPE, which nothing handles.                                          *)
SendInLoop(l) ==
    /\ LoopRuns(l)
    /\ functors[l] # <<>>
    /\ LET f == Head(functors[l])
           c == f.conn IN
       /\ f.op = "sendInLoop"
       /\ functors' = Popped(l)
       /\ \/ /\ m_State[c] = "kDisconnected"
             /\ UNCHANGED <<peer, toClient, killed>>
          \/ /\ m_State[c] # "kDisconnected"
             /\ peer[c] = "open"
             /\ toClient' = [toClient EXCEPT ![c] =
                               IF Len(@) < SendBuffer THEN Append(@, f.reply) ELSE @]
             /\ UNCHANGED <<peer, killed>>
          \/ /\ m_State[c] # "kDisconnected"
             /\ peer[c] \in {"closed", "reset"}
             /\ peer' = [peer EXCEPT ![c] = IF @ = "closed" THEN "reset" ELSE "broken"]
             /\ UNCHANGED <<toClient, killed>>
          \/ /\ m_State[c] # "kDisconnected"
             /\ peer[c] \in {"reset", "broken"}
             /\ killed' = TRUE
             /\ UNCHANGED <<peer, toClient>>
    /\ UNCHANGED <<client, toServer, connection, server, queue, startup>>

(* removeConnectionInLoop, on the main loop: connectDestroyed is queued only *)
(* if the connection's name was a key of the map.                           *)
RemoveConnectionInLoop ==
    /\ LoopRuns(Main)
    /\ functors[Main] # <<>>
    /\ LET c == Head(functors[Main]).conn IN
       /\ Head(functors[Main]).op = "removeConnectionInLoop"
       /\ m_mapConnections' = m_mapConnections \ {name(c)}
       /\ functors' = IF name(c) \in m_mapConnections
                      THEN [Popped(Main) EXCEPT ![m_ptrLoop[c]] =
                              Append(@, Functor("connectDestroyed", c, None))]
                      ELSE Popped(Main)
    /\ UNCHANGED <<client, socket, connection, m_nNext, descriptorsLeft, idleFd_, queue, process>>

-----------------------------------------------------------------------------
(* The executor: it executes the front, tests the connection's state, hands  *)
(* the reply to the connection's loop, and pops.                            *)

(* Mutant of ReplyLoop: the reply goes to whichever loop is next.            *)
ReplyAnyLoop(c) == m_nNext

ReplyLoop(c) == m_ptrLoop[c]

(* Of a tail the parser has no parameters, and params[0] is read from a null *)
(* pointer.  Of a head it may have none, or some: the command is unknown,    *)
(* or its handler reads parameters that are not there, and the outcome is    *)
(* an answer, none, or a crash.                                             *)
execCommand ==
    /\ ~killed
    /\ executor = "wait"
    /\ m_deque # <<>>
    /\ LET r == Head(m_deque) IN
       \/ /\ r[3] # "tail"
          /\ executor' = IF m_State[r[1]] = "kConnected" THEN "send" ELSE "pop"
          /\ UNCHANGED killed
       \/ /\ r[3] = "head"
          /\ executor' = "pop"
          /\ UNCHANGED killed
       \/ /\ r[3] # "whole"
          /\ killed' = TRUE
          /\ UNCHANGED executor
    /\ UNCHANGED <<client, socket, connection, server, functors, submitting, m_deque, startup>>

(* Mutant of queueReply: the executor waits for the connection's worker.   *)
queueReplySynchronously ==
    /\ ~killed
    /\ executor = "send"
    /\ LET r == Head(m_deque) IN
       /\ submitting[ReplyLoop(r[1])] = None
       /\ functors' = [functors EXCEPT ![ReplyLoop(r[1])] = Append(@, Functor("sendInLoop", r[1], r))]
    /\ executor' = "pop"
    /\ UNCHANGED <<client, socket, connection, server, submitting, m_deque, process>>

queueReply ==
    /\ ~killed
    /\ executor = "send"
    /\ executor' = "pop"
    /\ LET r == Head(m_deque) IN
       functors' = [functors EXCEPT ![ReplyLoop(r[1])] = Append(@, Functor("sendInLoop", r[1], r))]
    /\ UNCHANGED <<client, socket, connection, server, submitting, m_deque, process>>

pop_front ==
    /\ ~killed
    /\ executor = "pop"
    /\ executor' = "wait"
    /\ m_deque' = Tail(m_deque)
    /\ UNCHANGED <<client, socket, connection, server, functors, submitting, process>>
-----------------------------------------------------------------------------
(* The threads start; process death ends that too.                           *)
ServerUnchanged == UNCHANGED <<client, socket, connection, server, functors, queue, killed>>

StartMain      == ~killed /\ MainStarts /\ ServerUnchanged
StartWorker(w) == ~killed /\ ThreadFunc(w) /\ ServerUnchanged
WakeMain       == ~killed /\ SpuriousWake /\ ServerUnchanged

ClientStep(c) ==
    \/ ClientConnect(c) \/ ClientClose(c) \/ ClientReset(c)
    \/ ClientSend(c) \/ ClientSendTail(c) \/ ClientReceive(c)

RunFunctor(l)  == RunConnectionFunctor(l) \/ SendInLoop(l)
HandleEvent(c) == HandleError(c) \/ HandleRead(c)
Accept(c)      == newConnection(c) \/ AcceptWithoutDescriptor(c)
consumer       == execCommand \/ queueReply \/ pop_front

Next ==
    \/ StartMain \/ WakeMain
    \/ \E c \in Clients : ClientStep(c) \/ Accept(c) \/ HandleEvent(c)
    \/ \E w \in Workers : StartWorker(w) \/ RunFunctor(w) \/ producerTask(w)
    \/ RemoveConnectionInLoop
    \/ consumer

(* Every thread runs, epoll reports every ready channel again and again, and *)
(* a client reads the replies that have arrived.                            *)
Fairness ==
    /\ WF_vars(StartMain) /\ \A w \in Workers : WF_vars(StartWorker(w))
    /\ \A c \in Clients : WF_vars(Accept(c)) /\ WF_vars(HandleEvent(c))
                          /\ WF_vars(ClientReceive(c))
    /\ \A w \in Workers : WF_vars(RunFunctor(w)) /\ WF_vars(producerTask(w))
    /\ WF_vars(RemoveConnectionInLoop)
    /\ WF_vars(consumer)

Spec     == Init /\ [][Next]_vars
FairSpec == Spec /\ Fairness

-----------------------------------------------------------------------------
TypeOK ==
    /\ peer \in [Clients -> PeerStates]
    /\ sent \in [Clients -> 0 .. MaxRequests]
    /\ half \subseteq SplitClients
    /\ toServer \in [Clients -> Seq(Requests)]
    /\ toClient \in [Clients -> Seq(Requests)]
    /\ received \in [Clients -> Seq(Requests)]
    /\ m_State \in [Clients -> {"none", "kConnecting", "kConnected", "kDisconnected"}]
    /\ m_ptrLoop \in [Clients -> Loops]
    /\ mapChannels \subseteq Clients
    /\ watched \subseteq mapChannels
    /\ m_mapConnections \subseteq Clients
    /\ m_nNext \in Workers
    /\ descriptorsLeft \in Nat
    /\ idleFd_ \in {"uninitialized", "open", "none"}
    /\ functors \in [Loops -> Seq([op : FunctorOps, conn : Clients, reply : Requests \cup {None}])]
    /\ submitting \in [Workers -> Requests \cup {None}]
    /\ m_deque \in Seq(Requests)
    /\ executor \in {"wait", "send", "pop"}
    /\ killed \in BOOLEAN
    /\ StartupTypeOK

(* The places a connection's requests, and then the replies to them, go      *)
(* through, each a function from positions: its replies in its loop, its     *)
(* requests that wait for the executor (the one it serves included, until    *)
(* it has answered it), and the one a worker is inside producerTask with.    *)
QueuedReplies(c) ==
    LET queued == functors[m_ptrLoop[c]]
        sends  == {i \in DOMAIN queued : queued[i].op = "sendInLoop" /\ queued[i].conn = c}
    IN  [i \in sends |-> queued[i].reply]

Unanswered(c) ==
    [i \in {n \in DOMAIN m_deque : m_deque[n][1] = c /\ ~(executor = "pop" /\ n = 1)} |-> m_deque[i]]

Submitted(c) ==
    [w \in {v \in Workers : submitting[v] # None /\ submitting[v][1] = c} |-> submitting[w]]

Line(c) ==
    <<received[c], toClient[c], QueuedReplies(c), Unanswered(c), Submitted(c), toServer[c]>>

Before(r, s) == r[2] < s[2] \/ (r[2] = s[2] /\ r[3] = "head" /\ s[3] = "tail")

(* From the client's socket through the worker, the queue, the executor, the *)
(* worker again and back to the client: the requests of a connection and    *)
(* then their replies never overtake each other, none is answered twice,    *)
(* and a client is sent replies to its own requests only.                   *)
InOrder ==
    \A c \in Clients :
        LET line == Line(c)
        IN  \A p, q \in DOMAIN line : \A i \in DOMAIN line[p] :
                /\ line[p][i][1] = c
                /\ \A j \in DOMAIN line[q] :
                      p < q \/ (p = q /\ i < j) => Before(line[p][i], line[q][j])

(* What holds a reference that keeps a connection's object alive: the map,   *)
(* functors bound to the shared_ptr, and requests on their way.             *)
Referenced(c) ==
    \/ ConnectionKey(c) \in m_mapConnections
    \/ \E l \in Loops : \E i \in DOMAIN functors[l] :
          functors[l][i].conn = c /\ functors[l][i].op # "sendInLoop"
    \/ \E w \in Workers : submitting[w] # None /\ submitting[w][1] = c
    \/ \E i \in DOMAIN m_deque : m_deque[i][1] = c

(* A reply is queued with the bare this of its connection, and epoll and     *)
(* mapChannels hold the bare Channel: whatever the order of a reset, the    *)
(* removal and the executor's reply, the connection is still there.         *)
NoDanglingConnection ==
    \A c \in Clients :
        \/ c \in mapChannels
        \/ \E l \in Loops : \E i \in DOMAIN functors[l] :
              functors[l][i].conn = c /\ functors[l][i].op = "sendInLoop"
        => Referenced(c)

(* Only a peer that went away ends a connection's service: a request that    *)
(* arrives whole and first, when its client has every reply before it, is   *)
(* answered, however the workers crowd the queue, whatever is sent behind   *)
(* it, and although its worker may not have entered its loop yet; unless    *)
(* the server has no descriptor for the connection.                         *)
Answered ==
    \A c \in Clients, n \in 1 .. MaxRequests :
        (toServer[c] # <<>> /\ Head(toServer[c]) = <<c, n, "whole">> /\ Len(received[c]) = n - 1)
            ~> \/ Len(received[c]) >= n
               \/ peer[c] # "open"
               \/ m_State[c] = "kDisconnected"
               \/ m_State[c] = "none" /\ descriptorsLeft = 0
               \/ killed

(* The i-th reply a client reads answers the i-th request it sent.           *)
EveryRequestAnswered ==
    \A c \in Clients : \A i \in DOMAIN received[c] : received[c][i] = <<c, i, "whole">>
=============================================================================
