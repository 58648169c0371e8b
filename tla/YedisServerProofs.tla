-------------------------- MODULE YedisServerProofs --------------------------
(***************************************************************************)
(* Theorems about YedisServer for every set of clients, every number of    *)
(* workers and every bound: its types, that the pool holds the loop of     *)
(* every worker it started, that nothing refers to a connection whose      *)
(* object is gone, and the order of a connection's requests and replies.   *)
(***************************************************************************)
EXTENDS YedisServer, TLAPS

(* The start of the worker threads.  Where main is says how many loops the  *)
(* pool has, and that StartLoop returns m_loop only after it is set.        *)
PoolInv ==
    /\ StartupTypeOK
    /\ PoolHoldsLoops
    /\ Len(m_vecLoops) <= NumWorkers
    /\ mainPc = "loop" => Len(m_vecLoops) = NumWorkers
    /\ mainPc \in {"test", "wait", "return"} => Len(m_vecLoops) < NumWorkers
    /\ mainPc = "return" => m_loop[Starting] # None
    /\ \A w \in Workers :
          m_loop[w] = IF threadPc[w] \in {"notified", "loop"} THEN w ELSE None
    /\ \A w \in Workers :
          w > Starting \/ (w = Starting /\ mainPc = "create") => threadPc[w] = "none"

StartupStep == MainStarts \/ SpuriousWake \/ \E w \in Workers : ThreadFunc(w)

(* Before the first thread is created the pool is empty.                    *)
LEMMA PoolInit == StartupInit => PoolInv
BY ServerAssumption
   DEF StartupInit, PoolInv, StartupTypeOK, PoolHoldsLoops, MainPCs, ThreadPCs, Workers, Starting

(* Every step of main or of a thread keeps the pool right.                  *)
LEMMA PoolStep ==
    ASSUME PoolInv, StartupStep
    PROVE  PoolInv'
<1> DEFINE w0 == Starting
<1>0. /\ Len(m_vecLoops) \in Nat /\ DOMAIN m_vecLoops = 1 .. Len(m_vecLoops)
      /\ w0 = Len(m_vecLoops) + 1
      /\ threadPc \in [Workers -> ThreadPCs] /\ m_loop \in [Workers -> Workers \cup {None}]
      /\ "ThreadFunc" \in ThreadPCs /\ "notified" \in ThreadPCs /\ "loop" \in ThreadPCs
  BY DEF PoolInv, StartupTypeOK, ThreadPCs, Starting
<1>1. CASE CreateThread
  <2>1. /\ w0 \in Workers /\ mainPc = "create" /\ mainPc' = "test"
        /\ threadPc' = [threadPc EXCEPT ![w0] = "ThreadFunc"]
        /\ m_loop' = m_loop /\ m_vecLoops' = m_vecLoops
    BY <1>1 DEF CreateThread
  <2>2. m_loop[w0] = None
    BY <2>1, <1>0 DEF PoolInv
  <2> HIDE DEF w0
  <2>3. /\ threadPc' \in [Workers -> ThreadPCs]
        /\ \A w \in Workers : w # w0 => threadPc'[w] = threadPc[w]
    BY <1>0, <2>1
  <2>4. PoolHoldsLoops'
    BY <1>0, <2>1, <2>3 DEF PoolInv, StartupTypeOK, PoolHoldsLoops, Workers
  <2> QED
    BY <1>0, <2>1, <2>2, <2>3, <2>4, ServerAssumption
    DEF PoolInv, StartupTypeOK, MainPCs, Workers, Starting
<1>2. CASE TestLoop
  BY <1>2, <1>0 DEF TestLoop, PoolInv, StartupTypeOK, PoolHoldsLoops, MainPCs, Workers, Starting
<1>3. CASE ReturnLoop
  <2>1. /\ mainPc = "return" /\ mainPc' = "create" /\ m_loop' = m_loop /\ threadPc' = threadPc
        /\ m_vecLoops' = Append(m_vecLoops, m_loop[w0])
    BY <1>3 DEF ReturnLoop
  <2>2. w0 \in Workers /\ m_loop[w0] = w0 /\ threadPc[w0] \in {"notified", "loop"}
    BY <2>1, <1>0, ServerAssumption DEF PoolInv, Workers
  <2>3. /\ m_vecLoops' \in Seq(Workers \cup {None})
        /\ Len(m_vecLoops') = w0 /\ m_vecLoops'[w0] = w0
        /\ \A i \in 1 .. Len(m_vecLoops) : m_vecLoops'[i] = m_vecLoops[i]
    BY <2>1, <2>2, <1>0 DEF PoolInv, StartupTypeOK
  <2>4. PoolHoldsLoops'
    BY <1>0, <2>1, <2>2, <2>3 DEF PoolInv, PoolHoldsLoops
  <2> QED
    BY <1>0, <2>1, <2>2, <2>3, <2>4, ServerAssumption
    DEF PoolInv, StartupTypeOK, MainPCs, Workers, Starting
<1>4. CASE listen
  <2>1. UNCHANGED <<threadPc, m_loop, m_vecLoops>> /\ mainPc = "create" /\ mainPc' = "loop"
    BY <1>4 DEF listen
  <2>2. Len(m_vecLoops) + 1 \notin 1 .. NumWorkers
    BY <1>4 DEF listen, Workers, Starting
  <2>3. Len(m_vecLoops) = NumWorkers
    <3>1. Len(m_vecLoops) <= NumWorkers /\ NumWorkers \in Nat
      BY ServerAssumption DEF PoolInv
    <3> DEFINE n == Len(m_vecLoops)
    <3>2. n \in Nat /\ n + 1 \notin 1 .. NumWorkers /\ n <= NumWorkers
      BY <1>0, <2>2, <3>1
    <3> HIDE DEF n
    <3>3. n = NumWorkers
      BY <3>1, <3>2
    <3> QED
      BY <3>3 DEF n
  <2> QED
    BY <1>0, <2>1, <2>3, ServerAssumption
    DEF PoolInv, StartupTypeOK, PoolHoldsLoops, MainPCs, Workers, Starting
<1>5. CASE SpuriousWake
  BY <1>5, <1>0
  DEF SpuriousWake, PoolInv, StartupTypeOK, PoolHoldsLoops, MainPCs, Workers, Starting
<1>6. ASSUME NEW w \in Workers, PublishLoop(w) \/ EnterLoop(w)
      PROVE  PoolInv'
  <2>1. /\ m_vecLoops' = m_vecLoops /\ Starting' = Starting
        /\ mainPc' = mainPc \/ (mainPc = "wait" /\ mainPc' = "test")
        /\ threadPc[w] \in {"ThreadFunc", "notified"}
        /\ \/ m_loop' = m_loop /\ m_loop[w] = w
           \/ m_loop' = [m_loop EXCEPT ![w] = w]
        /\ \E at \in {"notified", "loop"} : threadPc' = [threadPc EXCEPT ![w] = at]
    BY <1>6, <1>0 DEF PublishLoop, EnterLoop, PoolInv, Starting
  <2>2. /\ threadPc' \in [Workers -> ThreadPCs] /\ threadPc'[w] \in {"notified", "loop"}
        /\ m_loop' \in [Workers -> Workers \cup {None}] /\ m_loop'[w] = w
        /\ \A v \in Workers : v # w => threadPc'[v] = threadPc[v] /\ m_loop'[v] = m_loop[v]
    BY <1>0, <2>1
  <2>3. PoolHoldsLoops'
    BY <1>0, <2>1, <2>2 DEF PoolInv, PoolHoldsLoops, Workers
  <2>4. StartupTypeOK' /\ Len(m_vecLoops') = Len(m_vecLoops)
    BY <1>0, <2>1, <2>2 DEF PoolInv, StartupTypeOK, MainPCs
  <2>5. /\ mainPc' \in {"test", "wait", "return"} => mainPc \in {"test", "wait", "return"}
        /\ mainPc' \in {"create", "return", "loop"} => mainPc' = mainPc
    BY <2>1
  <2>6. mainPc' = "return" => m_loop'[w0] # None
    <3> SUFFICES ASSUME mainPc = "return"
                 PROVE  m_loop'[w0] # None
      BY <2>5
    <3>1. w0 \in Workers /\ m_loop[w0] # None
      BY <1>0, ServerAssumption DEF PoolInv, Workers
    <3>2. w # None
      BY ServerAssumption DEF Workers
    <3> QED
      BY <2>2, <3>1, <3>2
  <2>7. \A v \in Workers :
          m_loop'[v] = IF threadPc'[v] \in {"notified", "loop"} THEN v ELSE None
    BY <2>2 DEF PoolInv
  <2>8. threadPc[w] # "none"
    BY <2>1
  <2> QED
    BY <1>0, <2>1, <2>2, <2>3, <2>4, <2>5, <2>6, <2>7, <2>8 DEF PoolInv, Starting
<1> QED
  BY <1>1, <1>2, <1>3, <1>4, <1>5, <1>6 DEF StartupStep, MainStarts, ThreadFunc

(* Every step of the server is a step of the start or leaves it alone.      *)
LEMMA PoolKept ==
    ASSUME PoolInv, [Next]_vars
    PROVE  PoolInv'
<1>1. StartupStep \/ UNCHANGED startup
  <2> USE DEF process
  <2>1. CASE StartMain \/ WakeMain \/ \E w \in Workers : StartWorker(w)
    BY <2>1 DEF StartMain, WakeMain, StartWorker, StartupStep
  <2>2. ASSUME NEW c \in Clients, ClientStep(c) \/ Accept(c) \/ HandleEvent(c)
        PROVE  UNCHANGED startup
    BY <2>2 DEF ClientStep, ClientConnect, ClientSend, ClientSendTail, ClientReceive, ClientClose,
                ClientReset, Accept, newConnection, AcceptWithoutDescriptor, HandleEvent,
                HandleError, HandleRead
  <2>3. ASSUME NEW w \in Workers, RunFunctor(w) \/ producerTask(w)
        PROVE  UNCHANGED startup
    BY <2>3 DEF RunFunctor, RunConnectionFunctor, SendInLoop, producerTask
  <2>4. CASE RemoveConnectionInLoop \/ consumer
    BY <2>4 DEF RemoveConnectionInLoop, consumer, execCommand, queueReply, pop_front
  <2>5. CASE UNCHANGED vars
    BY <2>5 DEF vars
  <2> QED
    BY <2>1, <2>2, <2>3, <2>4, <2>5 DEF Next
<1>2. CASE UNCHANGED startup
  BY <1>2 DEF startup, PoolInv, StartupTypeOK, PoolHoldsLoops, Starting
<1> QED
  BY <1>1, <1>2, PoolStep

(* Whatever else the server does by then, its pool holds the loop of each    *)
(* worker started, and never NULL.                                          *)
THEOREM PoolTheorem == Spec => []PoolHoldsLoops
<1>1. Init => PoolInv
  BY PoolInit DEF Init
<1>2. PoolInv /\ [Next]_vars => PoolInv'
  BY PoolKept
<1>3. PoolInv => PoolHoldsLoops
  BY DEF PoolInv
<1> QED
  BY <1>1, <1>2, <1>3, PTL DEF Spec

-----------------------------------------------------------------------------
(* The rest of the server.  Accepted connections are keys of the map, which *)
(* nothing ever leaves, and whatever refers to a connection refers to an    *)
(* accepted one.  connectDestroyed is never queued.                         *)
Accepted     == {c \in Clients : m_State[c] # "none"}
LiveRequests == {r \in Requests : r[1] \in Accepted}
LiveFunctors ==
    [op : {"sendInLoop"}, conn : Accepted, reply : Requests]
    \cup [op : {"connectEstablished", "removeConnectionInLoop"}, conn : Accepted, reply : {None}]

ClientsTyped ==
    /\ peer \in [Clients -> PeerStates]
    /\ sent \in [Clients -> 0 .. MaxRequests]
    /\ half \subseteq SplitClients
    /\ \A c \in half : sent[c] > 0
    /\ toServer \in [Clients -> Seq(Requests)]
    /\ \A c \in Clients : \A i \in DOMAIN toServer[c] : toServer[c][i][1] = c
    /\ toClient \in [Clients -> Seq(Requests)]
    /\ received \in [Clients -> Seq(Requests)]

ConnectionsTyped ==
    /\ m_State \in [Clients -> {"none", "kConnecting", "kConnected", "kDisconnected"}]
    /\ m_ptrLoop \in [Clients -> Loops]
    /\ mapChannels \subseteq Accepted
    /\ watched \subseteq mapChannels

ServerTyped ==
    /\ m_mapConnections \subseteq Clients
    /\ Accepted \subseteq m_mapConnections
    /\ m_nNext \in Workers
    /\ descriptorsLeft \in Nat
    /\ idleFd_ \in {"uninitialized", "open", "none"}

WorkTyped ==
    /\ functors \in [Loops -> Seq(LiveFunctors)]
    /\ submitting \in [Workers -> LiveRequests \cup {None}]
    /\ m_deque \in Seq(LiveRequests)
    /\ executor \in {"wait", "send", "pop"}
    /\ executor # "wait" => m_deque # <<>>

Listening == \A c \in Clients : peer[c] # "none" => mainPc = "loop"

Typed     == ClientsTyped /\ ConnectionsTyped /\ ServerTyped /\ WorkTyped /\ killed \in BOOLEAN
ServerInv == PoolInv /\ Typed /\ Listening

(* A sequence over a set is one over a larger set.                          *)
LEMMA SeqGrows ==
    ASSUME NEW S, NEW T, S \subseteq T, NEW s \in Seq(S)
    PROVE  s \in Seq(T)
OBVIOUS

(* Queues of functors stay typed when one is appended to or popped.         *)
LEMMA Queues ==
    ASSUME NEW D, NEW S, NEW q \in [D -> Seq(S)], NEW d \in D
    PROVE  /\ \A x \in S : [q EXCEPT ![d] = Append(@, x)] \in [D -> Seq(S)]
           /\ q[d] # <<>> => Head(q[d]) \in S /\ [q EXCEPT ![d] = Tail(@)] \in [D -> Seq(S)]
<1>1. q[d] \in Seq(S)
  OBVIOUS
<1>2. \A x \in S : Append(q[d], x) \in Seq(S)
  BY <1>1
<1>3. q[d] # <<>> => Head(q[d]) \in S /\ Tail(q[d]) \in Seq(S)
  BY <1>1
<1> QED
  BY <1>2, <1>3

(* The fields of a request.                                                 *)
LEMMA RequestFields ==
    /\ \A r \in Requests :
          /\ r = <<r[1], r[2], r[3]>>
          /\ r[1] \in Clients /\ r[2] \in 1 .. MaxRequests /\ r[3] \in Parts
    /\ \A c \in Clients, n \in 1 .. MaxRequests, part \in Parts : <<c, n, part>> \in Requests
BY DEF Requests

(* What the invariant says of types is TypeOK.                              *)
LEMMA ServerTypes == ServerInv => TypeOK
<1> SUFFICES ASSUME ServerInv PROVE TypeOK
  OBVIOUS
<1>1. Accepted \subseteq Clients /\ LiveRequests \subseteq Requests
  BY DEF Accepted, LiveRequests
<1> DEFINE F == [op : FunctorOps, conn : Clients, reply : Requests \cup {None}]
<1>2. LiveFunctors \subseteq F
  BY <1>1 DEF LiveFunctors, FunctorOps
<1>3. functors \in [Loops -> Seq(F)]
  <2> HIDE DEF F
  <2> QED
    BY <1>2, SeqGrows DEF ServerInv, Typed, WorkTyped
<1>4. m_deque \in Seq(Requests)
  BY <1>1, SeqGrows DEF ServerInv, Typed, WorkTyped
<1>5. submitting \in [Workers -> Requests \cup {None}] /\ executor \in {"wait", "send", "pop"}
  BY <1>1 DEF ServerInv, Typed, WorkTyped
<1>6. mapChannels \subseteq Clients /\ watched \subseteq mapChannels
  BY <1>1 DEF ServerInv, Typed, ConnectionsTyped
<1> QED
  BY <1>3, <1>4, <1>5, <1>6
  DEF ServerInv, Typed, TypeOK, PoolInv, ClientsTyped, ConnectionsTyped, ServerTyped

(* What the step leaves alone keeps its part of the invariant.              *)
LEMMA Frame ==
    /\ ClientsTyped /\ UNCHANGED <<client, socket>> => ClientsTyped'
    /\ ConnectionsTyped /\ UNCHANGED connection => ConnectionsTyped'
    /\ ServerTyped /\ UNCHANGED <<m_State, server>> => ServerTyped'
    /\ WorkTyped /\ UNCHANGED <<m_State, functors, queue>> => WorkTyped'
    /\ UNCHANGED m_State =>
          Accepted' = Accepted /\ LiveRequests' = LiveRequests /\ LiveFunctors' = LiveFunctors
    /\ Listening /\ UNCHANGED <<peer, mainPc>> => Listening'
BY DEF client, socket, connection, server, queue, Accepted, LiveRequests, LiveFunctors,
       ClientsTyped, ConnectionsTyped, ServerTyped, WorkTyped, Listening

LEMMA ServerInit == Init => ServerInv
<1> SUFFICES ASSUME Init PROVE ServerInv
  OBVIOUS
<1>1. PoolInv
  BY PoolInit DEF Init
<1>2. Accepted = {}
  BY DEF Init, Accepted
<1>3. ClientsTyped
  BY ServerAssumption DEF Init, ClientsTyped, PeerStates
<1>4. ConnectionsTyped /\ ServerTyped
  BY <1>2, ServerAssumption DEF Init, ConnectionsTyped, ServerTyped, Loops, Workers
<1>5. WorkTyped
  <2>1. /\ functors = [l \in Loops |-> <<>>] /\ submitting = [w \in Workers |-> None]
        /\ m_deque = <<>> /\ executor = "wait"
    BY DEF Init
  <2> QED
    BY <2>1 DEF WorkTyped
<1>6. killed \in BOOLEAN /\ Listening
  BY DEF Init, Listening
<1> QED
  BY <1>1, <1>3, <1>4, <1>5, <1>6 DEF ServerInv, Typed

(* The clients' steps.                                                      *)
LEMMA ClientKeeps ==
    ASSUME ServerInv, NEW c \in Clients, ClientStep(c)
    PROVE  Typed' /\ Listening'
<1>0. /\ ClientsTyped /\ ConnectionsTyped /\ ServerTyped /\ WorkTyped /\ killed \in BOOLEAN
      /\ Listening
  BY DEF ServerInv, Typed
<1>1. UNCHANGED <<connection, server, functors, queue, process>>
  BY DEF ClientStep, ClientConnect, ClientClose, ClientReset, ClientSend, ClientSendTail,
         ClientReceive
<1>2. ConnectionsTyped' /\ ServerTyped' /\ WorkTyped' /\ killed' \in BOOLEAN /\ mainPc' = mainPc
  BY <1>0, <1>1, Frame DEF connection, process, startup
<1>3. CASE ClientConnect(c) \/ ClientClose(c) \/ ClientReset(c)
  <2>1. /\ \E at \in PeerStates : peer' = [peer EXCEPT ![c] = at]
        /\ mainPc = "loop"
        /\ UNCHANGED <<client, toServer, toClient>>
    BY <1>0, <1>3 DEF ClientConnect, ClientClose, ClientReset, PeerStates, Listening
  <2>2. ClientsTyped'
    BY <1>0, <2>1 DEF ClientsTyped, client
  <2>3. Listening'
    BY <2>1, <1>2 DEF Listening
  <2> QED
    BY <2>2, <2>3, <1>2 DEF Typed
<1>4. CASE ClientSend(c)
  <2>1. PICK part \in Parts :
          /\ part = "head" => c \in SplitClients
          /\ toServer' = [toServer EXCEPT ![c] = Append(@, <<c, sent[c] + 1, part>>)]
          /\ half' = IF part = "head" THEN half \cup {c} ELSE half
    BY <1>4 DEF ClientSend, Parts
  <2>2. /\ peer' = peer /\ toClient' = toClient /\ received' = received
        /\ sent[c] < MaxRequests /\ sent' = [sent EXCEPT ![c] = @ + 1]
    BY <1>4 DEF ClientSend
  <2>3. sent[c] + 1 \in 1 .. MaxRequests
    BY <1>0, <2>2, ServerAssumption DEF ClientsTyped
  <2> DEFINE r == <<c, sent[c] + 1, part>>
  <2>4. r \in Requests /\ r[1] = c
    BY <2>3, RequestFields
  <2>5. /\ sent' \in [Clients -> 0 .. MaxRequests]
        /\ \A d \in half' : sent'[d] > 0
        /\ half' \subseteq SplitClients
    BY <1>0, <2>1, <2>2, <2>3, ServerAssumption DEF ClientsTyped
  <2>6. /\ toServer' \in [Clients -> Seq(Requests)]
        /\ \A d \in Clients : \A i \in DOMAIN toServer'[d] : toServer'[d][i][1] = d
    <3> HIDE DEF r
    <3> USE <1>0 DEF ClientsTyped
    <3>1. toServer' = [toServer EXCEPT ![c] = Append(@, r)]
      BY <2>1 DEF r
    <3>2. /\ toServer[c] \in Seq(Requests) /\ toServer'[c] = Append(toServer[c], r)
          /\ \A d \in Clients : d # c => toServer'[d] = toServer[d]
      BY <3>1
    <3>3. \A i \in DOMAIN toServer'[c] : toServer'[c][i][1] = c
      BY <3>2, <2>4
    <3> QED
      BY <3>1, <3>2, <3>3, <2>4
  <2>7. ClientsTyped' /\ Listening'
    BY <1>0, <1>2, <2>2, <2>5, <2>6, Frame DEF ClientsTyped
  <2> QED
    BY <2>7, <1>2 DEF Typed
<1>5. CASE ClientSendTail(c)
  <2>1. /\ c \in half /\ half' = half \ {c}
        /\ toServer' = [toServer EXCEPT ![c] = Append(@, <<c, sent[c], "tail">>)]
        /\ UNCHANGED <<sent, received, peer, toClient>>
    BY <1>5 DEF ClientSendTail
  <2> DEFINE r == <<c, sent[c], "tail">>
  <2>2. sent[c] \in 1 .. MaxRequests
    BY <1>0, <2>1, ServerAssumption DEF ClientsTyped
  <2>3. r \in Requests /\ r[1] = c
    BY <2>2, RequestFields DEF Parts
  <2> HIDE DEF r
  <2>4. toServer' = [toServer EXCEPT ![c] = Append(@, r)]
    BY <2>1 DEF r
  <2>5. /\ toServer[c] \in Seq(Requests) /\ toServer'[c] = Append(toServer[c], r)
        /\ \A d \in Clients : d # c => toServer'[d] = toServer[d]
    BY <2>4, <1>0 DEF ClientsTyped
  <2>6. \A i \in DOMAIN toServer'[c] : toServer'[c][i][1] = c
    BY <2>5, <2>3, <1>0 DEF ClientsTyped
  <2>7. toServer' \in [Clients -> Seq(Requests)]
    BY <2>4, <2>5, <2>3, <1>0 DEF ClientsTyped
  <2>8. ClientsTyped' /\ Listening'
    BY <1>0, <1>2, <2>1, <2>5, <2>6, <2>7, Frame DEF ClientsTyped
  <2> QED
    BY <2>8, <1>2 DEF Typed
<1>6. CASE ClientReceive(c)
  <2>1. /\ toClient[c] # <<>>
        /\ received' = [received EXCEPT ![c] = Append(@, Head(toClient[c]))]
        /\ toClient' = [toClient EXCEPT ![c] = Tail(@)]
        /\ UNCHANGED <<sent, half, peer, toServer>>
    BY <1>6 DEF ClientReceive
  <2>2. Head(toClient[c]) \in Requests /\ toClient' \in [Clients -> Seq(Requests)]
    BY <2>1, <1>0, Queues DEF ClientsTyped
  <2>3. received' \in [Clients -> Seq(Requests)]
    BY <2>1, <2>2, <1>0, Queues DEF ClientsTyped
  <2>4. ClientsTyped' /\ Listening'
    BY <1>0, <1>2, <2>1, <2>2, <2>3, Frame DEF ClientsTyped
  <2> QED
    BY <2>4, <1>2 DEF Typed
<1> QED
  BY <1>3, <1>4, <1>5, <1>6 DEF ClientStep

(* A connection is accepted: it goes into the map and to a worker's loop.    *)
LEMMA AcceptKeeps ==
    ASSUME ServerInv, NEW c \in Clients, Accept(c)
    PROVE  Typed' /\ Listening'
<1>0. /\ ClientsTyped /\ ConnectionsTyped /\ ServerTyped /\ WorkTyped /\ killed \in BOOLEAN
      /\ Listening
  BY DEF ServerInv, Typed
<1>1. CASE AcceptWithoutDescriptor(c)
  <2>1. /\ UNCHANGED <<client, toServer, toClient, connection, m_mapConnections, m_nNext,
                       descriptorsLeft, functors, queue, process>>
        /\ peer[c] # "none"
        /\ idleFd_' \in {"uninitialized", "open", "none"}
        /\ peer' = [peer EXCEPT ![c] = "refused"] \/ peer' = peer
    BY <1>1, <1>0 DEF AcceptWithoutDescriptor, Acceptable, ServerTyped
  <2>2. ClientsTyped'
    BY <1>0, <2>1 DEF ClientsTyped, client, PeerStates
  <2>3. ServerTyped'
    BY <1>0, <2>1 DEF ServerTyped, connection, Accepted
  <2>4. Listening'
    BY <1>0, <2>1 DEF Listening, process, startup
  <2>5. ConnectionsTyped' /\ WorkTyped' /\ killed' \in BOOLEAN
    BY <1>0, <2>1, Frame DEF connection, process
  <2> QED
    BY <2>2, <2>3, <2>4, <2>5 DEF Typed
<1>2. CASE newConnection(c)
  <2> DEFINE w == m_vecLoops[m_nNext]
             x == Functor("connectEstablished", c, None)
  <2>1. /\ m_State' = [m_State EXCEPT ![c] = "kConnecting"]
        /\ m_ptrLoop' = [m_ptrLoop EXCEPT ![c] = w]
        /\ m_nNext' = getNextLoop
        /\ m_mapConnections' = m_mapConnections \cup {c}
        /\ functors' = [functors EXCEPT ![w] = Append(@, x)]
        /\ descriptorsLeft > 0 /\ descriptorsLeft' = descriptorsLeft - 1
        /\ Acceptable(c)
        /\ UNCHANGED <<client, socket, mapChannels, watched, idleFd_, queue, process>>
    BY <1>2 DEF newConnection, ConnectionKey
  <2>2. m_nNext \in Workers /\ Len(m_vecLoops) = NumWorkers
    BY <1>0, <2>1 DEF Acceptable, Listening, ServerInv, PoolInv, ServerTyped
  <2>3. w \in Loops
    BY <2>2, ServerAssumption
    DEF ServerInv, PoolInv, PoolHoldsLoops, StartupTypeOK, Workers, Loops
  <2>4. m_nNext' \in Workers
    BY <2>1, <2>2, ServerAssumption DEF getNextLoop, Workers
  <2>5. Accepted' = Accepted \cup {c}
    BY <1>0, <2>1 DEF Accepted, ConnectionsTyped
  <2>6. x \in LiveFunctors'
    BY <2>5 DEF LiveFunctors, Functor
  <2> HIDE DEF w, x
  <2>7. LiveFunctors \subseteq LiveFunctors' /\ LiveRequests \subseteq LiveRequests'
    BY <2>5 DEF LiveFunctors, LiveRequests
  <2>8. functors \in [Loops -> Seq(LiveFunctors')]
    <3>1. \A s \in Seq(LiveFunctors) : s \in Seq(LiveFunctors')
      BY <2>7, SeqGrows
    <3> QED
      BY <3>1, <1>0 DEF WorkTyped
  <2>9. functors' \in [Loops -> Seq(LiveFunctors')]
    BY <2>8, <2>6, <2>3, <2>1, Queues
  <2>10. m_deque \in Seq(LiveRequests')
    BY <2>7, SeqGrows, <1>0 DEF WorkTyped
  <2>11. WorkTyped'
    BY <1>0, <2>1, <2>7, <2>9, <2>10 DEF WorkTyped, queue
  <2>12. ConnectionsTyped'
    BY <1>0, <2>1, <2>3, <2>5 DEF ConnectionsTyped
  <2>13. ServerTyped'
    BY <1>0, <2>1, <2>4, <2>5 DEF ServerTyped
  <2>14. ClientsTyped' /\ Listening' /\ killed' \in BOOLEAN
    BY <1>0, <2>1, Frame DEF socket, process, startup
  <2> QED
    BY <2>11, <2>12, <2>13, <2>14 DEF Typed
<1> QED
  BY <1>1, <1>2 DEF Accept

(* A state of an accepted connection that is not "none" changes nothing of   *)
(* who is accepted.                                                         *)
LEMMA StillAccepted ==
    ASSUME ServerInv, NEW c \in Accepted, NEW s, s # "none",
           m_State' = [m_State EXCEPT ![c] = s]
    PROVE  Accepted' = Accepted /\ LiveRequests' = LiveRequests /\ LiveFunctors' = LiveFunctors
<1>1. m_State \in [Clients -> {"none", "kConnecting", "kConnected", "kDisconnected"}]
  BY DEF ServerInv, Typed, ConnectionsTyped
<1>2. Accepted' = Accepted
  BY <1>1 DEF Accepted
<1> QED
  BY <1>2 DEF LiveRequests, LiveFunctors

(* The functor of a handleClose is one of an accepted connection.           *)
LEMMA CloseQueued ==
    ASSUME NEW c \in Accepted, NEW q \in [Loops -> Seq(LiveFunctors)]
    PROVE  removeConnection(c, q) \in [Loops -> Seq(LiveFunctors)]
<1>1. Functor("removeConnectionInLoop", c, None) \in LiveFunctors
  BY DEF LiveFunctors, Functor
<1>2. Main \in Loops
  BY DEF Loops
<1> QED
  BY <1>1, <1>2, Queues DEF removeConnection

(* Events of a watched channel.                                             *)
LEMMA EventKeeps ==
    ASSUME ServerInv, NEW c \in Clients, HandleEvent(c)
    PROVE  Typed' /\ Listening'
<1>0. /\ ClientsTyped /\ ConnectionsTyped /\ ServerTyped /\ WorkTyped /\ killed \in BOOLEAN
      /\ Listening
  BY DEF ServerInv, Typed
<1>1. c \in Accepted
  BY <1>0 DEF HandleEvent, HandleError, HandleRead, Pollable, ConnectionsTyped
<1>2. CASE HandleError(c)
  <2>1. /\ m_State' = [m_State EXCEPT ![c] = "kDisconnected"]
        /\ watched' = watched \ {c}
        /\ functors' = removeConnection(c, functors)
        /\ UNCHANGED <<client, socket, m_ptrLoop, mapChannels, server, queue, process>>
    BY <1>2 DEF HandleError, WithoutEvents
  <2>2. Accepted' = Accepted /\ LiveRequests' = LiveRequests /\ LiveFunctors' = LiveFunctors
    BY <1>1, <2>1, StillAccepted
  <2>3. functors' \in [Loops -> Seq(LiveFunctors')]
    BY <1>0, <1>1, <2>1, <2>2, CloseQueued DEF WorkTyped
  <2>4. WorkTyped' /\ ServerTyped'
    BY <1>0, <2>1, <2>2, <2>3 DEF WorkTyped, ServerTyped, queue, server
  <2>5. ConnectionsTyped'
    BY <1>0, <2>1, <2>2 DEF ConnectionsTyped
  <2>6. ClientsTyped' /\ Listening' /\ killed' \in BOOLEAN
    BY <1>0, <2>1, Frame DEF socket, process, startup
  <2> QED
    BY <2>4, <2>5, <2>6 DEF Typed
<1>3. CASE HandleRead(c)
  <2> DEFINE r == parseRequest(toServer[c])
  <2>1. /\ toServer[c] # <<>> /\ toServer' = [toServer EXCEPT ![c] = <<>>]
        /\ submitting' = [submitting EXCEPT ![m_ptrLoop[c]] = r]
        /\ UNCHANGED <<client, peer, toClient, connection, server, functors, m_deque, executor, process>>
    BY <1>3 DEF HandleRead
  <2>2. /\ toServer[c] \in Seq(Requests) /\ Head(toServer[c]) = toServer[c][1]
        /\ 1 \in DOMAIN toServer[c] /\ Head(toServer[c]) \in Requests
        /\ Head(toServer[c])[1] = c
    BY <1>0, <2>1 DEF ClientsTyped
  <2>3. r \in LiveRequests
    <3>1. r = Head(toServer[c]) \/ r = <<c, Head(toServer[c])[2], "whole">>
      BY <2>2 DEF parseRequest
    <3>2. r \in Requests /\ r[1] = c
      <4>1. CASE r = Head(toServer[c])
        BY <4>1, <2>2
      <4>2. CASE r = <<c, Head(toServer[c])[2], "whole">>
        <5>1. Head(toServer[c])[2] \in 1 .. MaxRequests /\ "whole" \in Parts
          BY <2>2, RequestFields DEF Parts
        <5>2. <<c, Head(toServer[c])[2], "whole">> \in Requests
          BY <5>1, RequestFields
        <5> QED
          BY <5>2, <4>2
      <4> QED
        BY <3>1, <4>1, <4>2
    <3> QED
      BY <3>2, <1>1 DEF LiveRequests
  <2> HIDE DEF r
  <2>4. /\ Accepted' = Accepted /\ LiveRequests' = LiveRequests /\ LiveFunctors' = LiveFunctors
        /\ ConnectionsTyped' /\ ServerTyped' /\ Listening' /\ killed' \in BOOLEAN
    BY <1>0, <2>1, Frame DEF connection, process, startup
  <2>5. WorkTyped'
    BY <1>0, <2>1, <2>3, <2>4 DEF WorkTyped
  <2>6. ClientsTyped'
    BY <1>0, <2>1 DEF ClientsTyped, client
  <2> QED
    BY <2>4, <2>5, <2>6 DEF Typed
<1> QED
  BY <1>2, <1>3 DEF HandleEvent

(* What a worker runs of its queue.  The functor is of an accepted           *)
(* connection, a reply is a request's, and connectDestroyed is not there.    *)
LEMMA FunctorKeeps ==
    ASSUME ServerInv, NEW l \in Workers, RunFunctor(l)
    PROVE  Typed' /\ Listening'
<1> DEFINE f == Head(functors[l])
           c == f.conn
<1>0. /\ ClientsTyped /\ ConnectionsTyped /\ ServerTyped /\ WorkTyped /\ killed \in BOOLEAN
      /\ Listening
  BY DEF ServerInv, Typed
<1>1. functors[l] # <<>> /\ l \in Loops
  BY DEF RunFunctor, RunConnectionFunctor, SendInLoop, Loops
<1>2. f \in LiveFunctors /\ Popped(l) \in [Loops -> Seq(LiveFunctors)]
  BY <1>0, <1>1, Queues DEF WorkTyped, Popped
<1>3. c \in Accepted /\ c \in Clients
  BY <1>2 DEF LiveFunctors, Accepted
<1>4. f.op # "connectDestroyed" /\ (f.op = "sendInLoop" => f.reply \in Requests)
  BY <1>2 DEF LiveFunctors
<1>5. CASE RunConnectionFunctor(l)
  <2>1. /\ \E added \in BOOLEAN : Established(c, added, Popped(l))
        /\ UNCHANGED <<client, socket, m_ptrLoop, server, queue, process>>
    BY <1>4, <1>5 DEF RunConnectionFunctor
  <2>2. PICK added \in BOOLEAN : Established(c, added, Popped(l))
    BY <2>1
  <2> HIDE DEF f, c
  <2>3. /\ mapChannels' = mapChannels \cup {c}
        /\ watched' = IF added THEN watched \cup {c} ELSE watched
        /\ m_State' = [m_State EXCEPT ![c] = IF added THEN "kConnected" ELSE "kDisconnected"]
        /\ functors' = IF added THEN Popped(l) ELSE removeConnection(c, Popped(l))
    BY <2>2 DEF Established, AddChannel
  <2>4. Accepted' = Accepted /\ LiveRequests' = LiveRequests /\ LiveFunctors' = LiveFunctors
    <3>1. PICK st \in {"kConnected", "kDisconnected"} : m_State' = [m_State EXCEPT ![c] = st]
      BY <2>3
    <3>2. st # "none"
      OBVIOUS
    <3> QED
      BY <3>1, <3>2, <1>3, StillAccepted
  <2>5. functors' \in [Loops -> Seq(LiveFunctors')]
    <3>1. removeConnection(c, Popped(l)) \in [Loops -> Seq(LiveFunctors)]
      BY <1>2, <1>3, CloseQueued
    <3> QED
      BY <3>1, <1>2, <2>3, <2>4
  <2>6. WorkTyped' /\ ServerTyped'
    BY <1>0, <2>1, <2>4, <2>5 DEF WorkTyped, ServerTyped, queue, server
  <2>7. ConnectionsTyped'
    BY <1>0, <1>3, <2>1, <2>3, <2>4 DEF ConnectionsTyped
  <2>8. ClientsTyped' /\ Listening' /\ killed' \in BOOLEAN
    BY <1>0, <2>1, Frame DEF socket, process, startup
  <2> QED
    BY <2>6, <2>7, <2>8 DEF Typed
<1>6. CASE SendInLoop(l)
  <2>1. /\ f.op = "sendInLoop" /\ functors' = Popped(l)
        /\ toClient' = toClient
             \/ toClient' = [toClient EXCEPT ![c] =
                               IF Len(@) < SendBuffer THEN Append(@, f.reply) ELSE @]
        /\ peer' = peer
             \/ /\ peer[c] \in {"closed", "reset"}
                /\ peer' = [peer EXCEPT ![c] = IF @ = "closed" THEN "reset" ELSE "broken"]
        /\ killed' \in BOOLEAN
        /\ UNCHANGED <<client, toServer, connection, server, queue, startup>>
    BY <1>0, <1>6 DEF SendInLoop
  <2>2. f.reply \in Requests
    BY <2>1, <1>4
  <2> HIDE DEF f, c
  <2>3. toClient' \in [Clients -> Seq(Requests)]
    <3>1. [toClient EXCEPT ![c] = Append(@, f.reply)] \in [Clients -> Seq(Requests)]
      BY <2>2, <1>0, <1>3, Queues DEF ClientsTyped
    <3>2. toClient' \in {toClient, [toClient EXCEPT ![c] = Append(@, f.reply)]}
      BY <2>1, <1>0, <1>3 DEF ClientsTyped
    <3> QED
      BY <3>1, <3>2, <1>0 DEF ClientsTyped
  <2>4. peer' \in [Clients -> PeerStates] /\ Listening'
    BY <2>1, <1>0, <1>3 DEF ClientsTyped, PeerStates, Listening, startup
  <2>5. ClientsTyped'
    BY <2>1, <2>3, <2>4, <1>0 DEF ClientsTyped, client
  <2>6. Accepted' = Accepted /\ LiveRequests' = LiveRequests /\ LiveFunctors' = LiveFunctors
    BY <2>1, Frame DEF connection
  <2>7. WorkTyped'
    BY <2>1, <2>6, <1>0, <1>2 DEF WorkTyped, queue
  <2>8. ConnectionsTyped' /\ ServerTyped'
    BY <2>1, <1>0, Frame DEF connection
  <2> QED
    BY <2>1, <2>4, <2>5, <2>7, <2>8 DEF Typed
<1> QED
  BY <1>5, <1>6 DEF RunFunctor

(* The removal looks up an empty name, finds nothing and queues nothing.     *)
LEMMA RemoveKeeps ==
    ASSUME ServerInv, RemoveConnectionInLoop
    PROVE  Typed' /\ Listening'
<1>0. /\ ClientsTyped /\ ConnectionsTyped /\ ServerTyped /\ WorkTyped /\ killed \in BOOLEAN
      /\ Listening
  BY DEF ServerInv, Typed
<1>1. None \notin m_mapConnections
  BY <1>0, ServerAssumption DEF ServerTyped
<1>2. /\ functors[Main] # <<>> /\ functors' = Popped(Main)
      /\ m_mapConnections' = m_mapConnections
      /\ UNCHANGED <<client, socket, connection, m_nNext, descriptorsLeft, idleFd_, queue, process>>
  BY <1>1 DEF RemoveConnectionInLoop, name
<1>3. Popped(Main) \in [Loops -> Seq(LiveFunctors)]
  BY <1>0, <1>2, Queues DEF WorkTyped, Popped, Loops
<1>4. LiveFunctors' = LiveFunctors /\ LiveRequests' = LiveRequests
  BY <1>2, Frame DEF connection
<1>5. WorkTyped'
  BY <1>0, <1>2, <1>3, <1>4 DEF WorkTyped, queue
<1>6. ServerTyped' /\ ConnectionsTyped' /\ ClientsTyped' /\ Listening' /\ killed' \in BOOLEAN
  <2>1. UNCHANGED server /\ UNCHANGED <<m_State, peer, mainPc, killed>>
    BY <1>2 DEF connection, socket, server, process, startup
  <2> QED
    BY <1>0, <1>2, <2>1, Frame
<1> QED
  BY <1>5, <1>6 DEF Typed

(* A worker hands its request to the task queue, the executor serves it.     *)
LEMMA QueueKeeps ==
    ASSUME ServerInv, consumer \/ \E w \in Workers : producerTask(w)
    PROVE  Typed' /\ Listening'
<1>0. /\ ClientsTyped /\ ConnectionsTyped /\ ServerTyped /\ WorkTyped /\ killed \in BOOLEAN
      /\ Listening
  BY DEF ServerInv, Typed
<1>1. /\ UNCHANGED <<client, socket, connection, server, startup>>
      /\ killed' \in BOOLEAN
  BY <1>0 DEF consumer, execCommand, queueReply, pop_front, producerTask, process
<1>2. /\ ClientsTyped' /\ ConnectionsTyped' /\ ServerTyped' /\ Listening' /\ killed' \in BOOLEAN
      /\ Accepted' = Accepted /\ LiveRequests' = LiveRequests /\ LiveFunctors' = LiveFunctors
  BY <1>0, <1>1, Frame DEF connection, socket, startup
<1> SUFFICES WorkTyped'
  BY <1>2 DEF Typed
<1>3. ASSUME NEW w \in Workers, producerTask(w) PROVE WorkTyped'
  BY <1>0, <1>2, <1>3 DEF producerTask, WorkTyped
<1>4. CASE execCommand
  BY <1>0, <1>2, <1>4 DEF execCommand, WorkTyped
<1>5. CASE queueReply
  <2> DEFINE r == Head(m_deque)
             l == m_ptrLoop[r[1]]
             x == Functor("sendInLoop", r[1], r)
  <2>1. /\ executor = "send" /\ executor' = "pop"
        /\ functors' = [functors EXCEPT ![l] = Append(@, x)]
        /\ UNCHANGED <<submitting, m_deque>>
    BY <1>5 DEF queueReply, ReplyLoop
  <2>2. r \in Requests /\ r[1] \in Accepted
    BY <2>1, <1>0 DEF WorkTyped, LiveRequests
  <2>3. x \in LiveFunctors
    BY <2>2 DEF LiveFunctors, Functor
  <2>4. l \in Loops
    BY <2>2, <1>0 DEF ConnectionsTyped, Accepted
  <2> HIDE DEF x, l
  <2>5. functors' \in [Loops -> Seq(LiveFunctors)]
    BY <2>1, <2>3, <2>4, <1>0, Queues DEF WorkTyped
  <2> QED
    BY <2>1, <2>5, <1>0, <1>2 DEF WorkTyped
<1>6. CASE pop_front
  BY <1>0, <1>2, <1>6 DEF pop_front, WorkTyped
<1> QED
  BY <1>3, <1>4, <1>5, <1>6 DEF consumer

(* The invariant is inductive.                                              *)
LEMMA ServerStep ==
    ASSUME ServerInv, [Next]_vars
    PROVE  ServerInv'
<1>1. PoolInv'
  BY PoolKept DEF ServerInv
<1>2. Typed' /\ Listening'
  <2>1. CASE StartMain \/ WakeMain \/ \E w \in Workers : StartWorker(w)
    <3>1. ServerUnchanged
      BY <2>1 DEF StartMain, WakeMain, StartWorker
    <3>2. mainPc = "loop" => mainPc' = "loop"
      BY <2>1 DEF StartMain, WakeMain, StartWorker, MainStarts, CreateThread, TestLoop, ReturnLoop,
                  listen, SpuriousWake, ThreadFunc, PublishLoop, EnterLoop
    <3>3. Listening'
      BY <3>1, <3>2 DEF ServerInv, Listening, ServerUnchanged, socket
    <3> QED
      BY <3>1, <3>3, Frame DEF ServerInv, Typed, ServerUnchanged, connection
  <2>2. ASSUME NEW c \in Clients, ClientStep(c) \/ Accept(c) \/ HandleEvent(c)
        PROVE  Typed' /\ Listening'
    BY <2>2, ClientKeeps, AcceptKeeps, EventKeeps
  <2>3. ASSUME NEW w \in Workers, RunFunctor(w)
        PROVE  Typed' /\ Listening'
    BY <2>3, FunctorKeeps
  <2>4. CASE RemoveConnectionInLoop
    BY <2>4, RemoveKeeps
  <2>5. CASE consumer \/ \E w \in Workers : producerTask(w)
    BY <2>5, QueueKeeps
  <2>6. CASE UNCHANGED vars
    BY <2>6, Frame DEF ServerInv, Typed, vars, connection, process, socket, startup
  <2> QED
    BY <2>1, <2>2, <2>3, <2>4, <2>5, <2>6 DEF Next
<1> QED
  BY <1>1, <1>2 DEF ServerInv

THEOREM ServerInvariance == Spec => []ServerInv
BY ServerInit, ServerStep, PTL DEF Spec

(* Types, for any number of clients, workers and requests: getNextLoop       *)
(* always names a worker, and no request, reply or functor is of a           *)
(* connection that was not accepted.                                        *)
THEOREM ServerTypeCorrect == Spec => []TypeOK
BY ServerInvariance, ServerTypes, PTL

(* Whatever the order of a reset, the removal and the executor's reply, a    *)
(* queued reply or a watched channel is of a connection that is still there: *)
(* because the removal looks for an empty name, the map keeps it for ever.   *)
THEOREM NothingDangles == Spec => []NoDanglingConnection
<1>1. ServerInv => NoDanglingConnection
  <2> SUFFICES ASSUME ServerInv, NEW c \in Clients,
                      \/ c \in mapChannels
                      \/ \E l \in Loops : \E i \in DOMAIN functors[l] :
                            functors[l][i].conn = c /\ functors[l][i].op = "sendInLoop"
               PROVE  Referenced(c)
    BY DEF NoDanglingConnection
  <2>1. c \in Accepted
    <3>1. CASE c \in mapChannels
      BY <3>1 DEF ServerInv, Typed, ConnectionsTyped
    <3>2. ASSUME NEW l \in Loops, NEW i \in DOMAIN functors[l], functors[l][i].conn = c
          PROVE  c \in Accepted
      <4>1. functors[l] \in Seq(LiveFunctors)
        BY DEF ServerInv, Typed, WorkTyped
      <4>2. functors[l][i] \in LiveFunctors
        BY <4>1
      <4> QED
        BY <4>2, <3>2 DEF LiveFunctors
    <3> QED
      BY <3>1, <3>2
  <2> QED
    BY <2>1 DEF ServerInv, Typed, ServerTyped, Referenced, ConnectionKey
<1> QED
  BY <1>1, ServerInvariance, PTL

-----------------------------------------------------------------------------
(* The order of requests and replies.  A step of the server moves the first *)
(* element of a place of Line to the end of the place before, or drops      *)
(* elements.                                                                *)

Places == 1 .. 6

(* A line of connection c: what is at its places are requests of c, none    *)
(* before one that was sent earlier, the last one sent not past n; and if   *)
(* it is half sent (c is in h), only its head is there.                     *)
GoodLine(L, c, n, h) ==
    /\ \A p \in Places :
          /\ DOMAIN L[p] \subseteq Nat
          /\ \A i \in DOMAIN L[p] :
                /\ L[p][i] \in Requests
                /\ L[p][i][1] = c
                /\ L[p][i][2] <= n
                /\ c \in h /\ L[p][i][2] = n => L[p][i][3] = "head"
    /\ \A p, q \in Places : \A i \in DOMAIN L[p], j \in DOMAIN L[q] :
          p < q \/ (p = q /\ i < j) => Before(L[p][i], L[q][j])

(* B is what is left of A: elements are dropped, and those that stay may all *)
(* move towards the front.                                                  *)
Stays(A, B) ==
    /\ DOMAIN B \subseteq Nat
    /\ \E k \in Nat : \A i \in DOMAIN B : i + k \in DOMAIN A /\ B[i] = A[i + k]

LEMMA SameStays == ASSUME NEW A, DOMAIN A \subseteq Nat PROVE Stays(A, A)
<1>1. \A i \in DOMAIN A : i + 0 \in DOMAIN A /\ A[i] = A[i + 0]
  OBVIOUS
<1> QED
  BY <1>1 DEF Stays

LEMMA AppendPlaces ==
    ASSUME NEW S, NEW a \in Seq(S), NEW x
    PROVE  /\ Len(a) + 1 \in Nat
           /\ \A i \in DOMAIN Append(a, x) :
                 \/ i = Len(a) + 1 /\ Append(a, x)[i] = x
                 \/ i \in DOMAIN a /\ i < Len(a) + 1 /\ Append(a, x)[i] = a[i]
OBVIOUS

LEMMA TailPlaces ==
    ASSUME NEW S, NEW a \in Seq(S), a # <<>>
    PROVE  /\ 1 \in DOMAIN a /\ Head(a) = a[1] /\ DOMAIN Tail(a) \subseteq Nat
           /\ \A i \in DOMAIN Tail(a) : i + 1 \in DOMAIN a /\ 1 < i + 1 /\ Tail(a)[i] = a[i + 1]
OBVIOUS

(* A line stays good when elements are dropped from it.                      *)
LEMMA Dropped ==
    ASSUME NEW L, NEW M, NEW c, NEW n, NEW h, GoodLine(L, c, n, h),
           \A p \in Places : Stays(L[p], M[p])
    PROVE  GoodLine(M, c, n, h)
<1>1. ASSUME NEW p \in Places, NEW i \in DOMAIN M[p]
      PROVE  /\ M[p][i] \in Requests /\ M[p][i][1] = c
             /\ M[p][i][2] <= n /\ (c \in h /\ M[p][i][2] = n => M[p][i][3] = "head")
  <2>1. PICK k \in Nat : \A m \in DOMAIN M[p] : m + k \in DOMAIN L[p] /\ M[p][m] = L[p][m + k]
    BY DEF Stays
  <2> QED
    BY <1>1, <2>1 DEF GoodLine, Stays
<1>2. ASSUME NEW p \in Places, NEW q \in Places, NEW i \in DOMAIN M[p], NEW j \in DOMAIN M[q],
             p < q \/ (p = q /\ i < j)
      PROVE  Before(M[p][i], M[q][j])
  <2>1. PICK k \in Nat : \A m \in DOMAIN M[p] : m + k \in DOMAIN L[p] /\ M[p][m] = L[p][m + k]
    BY DEF Stays
  <2>2. PICK kq \in Nat : \A m \in DOMAIN M[q] : m + kq \in DOMAIN L[q] /\ M[q][m] = L[q][m + kq]
    BY DEF Stays
  <2>3. CASE p < q
    BY <1>2, <2>1, <2>2, <2>3 DEF GoodLine
  <2>4. CASE p = q /\ i < j
    <3>1. i + k \in DOMAIN L[p] /\ j + k \in DOMAIN L[p] /\ i + k < j + k
      BY <1>2, <2>1, <2>4 DEF Stays
    <3> QED
      BY <1>2, <2>1, <2>4, <3>1 DEF GoodLine
  <2> QED
    BY <1>2, <2>3, <2>4
<1> QED
  BY <1>1, <1>2 DEF GoodLine, Stays

(* A request is put behind the others at its place, between those of the    *)
(* places before and those of the places behind.                            *)
LEMMA PutBehind ==
    ASSUME NEW L, NEW M, NEW c, NEW n, NEW h, GoodLine(L, c, n, h),
           NEW p \in Places, NEW r \in Requests, NEW m \in Nat,
           \A q \in Places \ {p} : M[q] = L[q],
           \A i \in DOMAIN M[p] : \/ i = m /\ M[p][i] = r
                                  \/ i \in DOMAIN L[p] /\ i < m /\ M[p][i] = L[p][i],
           r[1] = c, r[2] <= n, c \in h /\ r[2] = n => r[3] = "head",
           \A q \in Places : \A j \in DOMAIN L[q] :
              IF q <= p THEN Before(L[q][j], r) ELSE Before(r, L[q][j])
    PROVE  GoodLine(M, c, n, h)
<1>1. ASSUME NEW q \in Places
      PROVE  /\ DOMAIN M[q] \subseteq Nat
             /\ \A i \in DOMAIN M[q] :
                  /\ M[q][i] \in Requests /\ M[q][i][1] = c
                  /\ M[q][i][2] <= n /\ (c \in h /\ M[q][i][2] = n => M[q][i][3] = "head")
  <2>1. CASE q = p
    BY <1>1, <2>1 DEF GoodLine
  <2>2. CASE q # p
    BY <1>1, <2>2 DEF GoodLine
  <2> QED
    BY <2>1, <2>2
<1>2. ASSUME NEW q1 \in Places, NEW q2 \in Places, NEW i \in DOMAIN M[q1], NEW j \in DOMAIN M[q2],
             q1 < q2 \/ (q1 = q2 /\ i < j)
      PROVE  Before(M[q1][i], M[q2][j])
  <2>1. CASE q1 # p /\ q2 # p
    BY <1>2, <2>1 DEF GoodLine
  <2>2. CASE q1 = p /\ q2 # p
    BY <1>2, <2>2 DEF GoodLine, Places
  <2>3. CASE q1 # p /\ q2 = p
    BY <1>2, <2>3 DEF GoodLine, Places
  <2>4. CASE q1 = p /\ q2 = p
    <3>0. i \in DOMAIN M[p] /\ j \in DOMAIN M[p] /\ i < j
      BY <1>2, <2>4 DEF Places
    <3>1. i \in Nat /\ j \in Nat
      BY <1>1, <3>0
    <3>2. j = m \/ j < m
      BY <3>0
    <3>3. i \in DOMAIN L[p] /\ M[p][i] = L[p][i]
      <4>1. i # m
        BY <3>0, <3>1, <3>2
      <4> QED
        BY <3>0, <4>1
    <3>4. CASE j = m /\ M[p][j] = r
      <4>1. p <= p
        BY DEF Places
      <4> QED
        BY <2>4, <3>3, <3>4, <4>1
    <3>5. CASE j \in DOMAIN L[p] /\ M[p][j] = L[p][j]
      <4>1. Before(L[p][i], L[p][j])
        BY <3>0, <3>3, <3>5 DEF GoodLine
      <4> QED
        BY <2>4, <3>3, <3>5, <4>1
    <3> QED
      BY <2>4, <3>0, <3>4, <3>5
  <2> QED
    BY <2>1, <2>2, <2>3, <2>4
<1> QED
  BY <1>1, <1>2 DEF GoodLine

(* The element at f of the place p goes to m, behind the others of the place *)
(* before, o; at p, what was not behind it is dropped.                      *)
MovesOn(L, M, o, p, f, k, m) ==
    /\ o \in Places /\ p \in Places /\ p = o + 1
    /\ f \in DOMAIN L[p] /\ k \in Nat /\ m \in Nat
    /\ DOMAIN M[p] \subseteq Nat
    /\ \A i \in DOMAIN M[p] : i + k \in DOMAIN L[p] /\ f < i + k /\ M[p][i] = L[p][i + k]
    /\ \A i \in DOMAIN M[o] :
          \/ i = m /\ M[o][i] = L[p][f]
          \/ i \in DOMAIN L[o] /\ i < m /\ M[o][i] = L[o][i]
    /\ \A q \in Places \ {o, p} : M[q] = L[q]

LEMMA MovedOn ==
    ASSUME NEW L, NEW M, NEW c, NEW n, NEW h, GoodLine(L, c, n, h),
           NEW o, NEW p, NEW f, NEW k, NEW m, MovesOn(L, M, o, p, f, k, m)
    PROVE  GoodLine(M, c, n, h)
<1> USE DEF MovesOn
<1> DEFINE K == [q \in Places |-> IF q = p THEN M[p] ELSE L[q]]
<1>0. o \in Nat /\ p \in Nat /\ o < p /\ \A q \in Places : q <= o \/ q >= p
  BY DEF Places
<1>1. K[p] = M[p] /\ \A q \in Places \ {p} : K[q] = L[q]
  OBVIOUS
<1> HIDE DEF K
<1>2. GoodLine(K, c, n, h)
  <2>1. Stays(L[p], M[p])
    BY DEF Stays
  <2>2. \A q \in Places \ {p} : Stays(L[q], L[q])
    BY SameStays DEF GoodLine
  <2>3. \A q \in Places : Stays(L[q], K[q])
    BY <1>1, <2>1, <2>2
  <2> QED
    BY <2>3, Dropped
<1>3. \A q \in Places \ {o} : M[q] = K[q]
  BY <1>0, <1>1
<1> DEFINE r == L[p][f]
<1>4. r \in Requests /\ r[1] = c /\ r[2] <= n /\ (c \in h /\ r[2] = n => r[3] = "head")
  BY DEF GoodLine
<1>5. ASSUME NEW q \in Places, NEW j \in DOMAIN K[q]
      PROVE  IF q <= o THEN Before(K[q][j], r) ELSE Before(r, K[q][j])
  <2>1. CASE q <= o
    BY <1>0, <1>1, <1>5, <2>1 DEF GoodLine, Places
  <2>2. CASE q = p
    <3>1. j + k \in DOMAIN L[p] /\ f < j + k /\ K[q][j] = L[p][j + k]
      BY <1>1, <1>5, <2>2
    <3> QED
      BY <1>0, <2>2, <3>1 DEF GoodLine
  <2>3. CASE q > p
    BY <1>0, <1>1, <1>5, <2>3 DEF GoodLine, Places
  <2> QED
    BY <1>0, <2>1, <2>2, <2>3 DEF Places
<1> HIDE DEF r
<1>6. \A i \in DOMAIN M[o] : \/ i = m /\ M[o][i] = r
                             \/ i \in DOMAIN K[o] /\ i < m /\ M[o][i] = K[o][i]
  BY <1>0, <1>1 DEF r
<1> QED
  BY <1>2, <1>3, <1>4, <1>5, <1>6, PutBehind

(* Another request may be sent when none is half sent.                       *)
LEMMA Later ==
    ASSUME NEW L, NEW c, NEW n \in Nat, NEW h, NEW later, GoodLine(L, c, n, h), c \notin h
    PROVE  GoodLine(L, c, n + 1, later)
<1>1. ASSUME NEW p \in Places, NEW i \in DOMAIN L[p]
      PROVE  L[p][i][2] <= n + 1 /\ L[p][i][2] # n + 1
  <2>1. L[p][i] \in Requests /\ L[p][i][2] <= n
    BY DEF GoodLine
  <2>2. L[p][i][2] \in Nat
    BY <2>1, RequestFields, ServerAssumption
  <2> QED
    BY <2>1, <2>2
<1> QED
  BY <1>1 DEF GoodLine

-----------------------------------------------------------------------------
(* The line of every connection is good, a worker submits requests of its    *)
(* own connections only, and their replies are queued in its loop.          *)
OrderInv == \A c \in Clients : GoodLine(Line(c), c, sent[c], half)

RouteInv ==
    /\ \A w \in Workers : submitting[w] # None => m_ptrLoop[submitting[w][1]] = w
    /\ \A l \in Loops : \A i \in DOMAIN functors[l] :
          functors[l][i].op = "sendInLoop" => m_ptrLoop[functors[l][i].conn] = l

LEMMA LineParts ==
    ASSUME NEW c
    PROVE  /\ Line(c)[1] = received[c] /\ Line(c)'[1] = received'[c]
           /\ Line(c)[2] = toClient[c] /\ Line(c)'[2] = toClient'[c]
           /\ Line(c)[3] = QueuedReplies(c) /\ Line(c)'[3] = QueuedReplies(c)'
           /\ Line(c)[4] = Unanswered(c) /\ Line(c)'[4] = Unanswered(c)'
           /\ Line(c)[5] = Submitted(c) /\ Line(c)'[5] = Submitted(c)'
           /\ Line(c)[6] = toServer[c] /\ Line(c)'[6] = toServer'[c]
           /\ Places = {1, 2, 3, 4, 5, 6}
BY DEF Line, Places

(* The parts a step leaves alone.                                            *)
LEMMA PartsStay ==
    ASSUME ServerInv, NEW c \in Clients
    PROVE  /\ received'[c] = received[c] => Stays(received[c], received'[c])
           /\ toClient'[c] = toClient[c] => Stays(toClient[c], toClient'[c])
           /\ toServer'[c] = toServer[c] => Stays(toServer[c], toServer'[c])
           /\ UNCHANGED <<m_deque, executor>> => Stays(Unanswered(c), Unanswered(c)')
           /\ UNCHANGED submitting => Stays(Submitted(c), Submitted(c)')
<1>0. ClientsTyped /\ WorkTyped
  BY DEF ServerInv, Typed
<1>1. /\ DOMAIN received[c] \subseteq Nat /\ DOMAIN toClient[c] \subseteq Nat
      /\ DOMAIN toServer[c] \subseteq Nat /\ DOMAIN m_deque \subseteq Nat
  <2>1. /\ received[c] \in Seq(Requests) /\ toClient[c] \in Seq(Requests)
        /\ toServer[c] \in Seq(Requests) /\ m_deque \in Seq(LiveRequests)
    BY <1>0 DEF ClientsTyped, WorkTyped
  <2> QED
    BY <2>1
<1>2. DOMAIN Unanswered(c) \subseteq Nat
  BY <1>1 DEF Unanswered
<1>3. DOMAIN Submitted(c) \subseteq Nat
  BY DEF Submitted, Workers
<1>4. UNCHANGED <<m_deque, executor>> => Unanswered(c)' = Unanswered(c)
  BY DEF Unanswered
<1>5. UNCHANGED submitting => Submitted(c)' = Submitted(c)
  BY DEF Submitted
<1> QED
  BY <1>1, <1>2, <1>3, <1>4, <1>5, SameStays

(* The replies of a connection that its loop's queue keeps: what is not one  *)
(* of them may come and go.                                                 *)
LEMMA RepliesStay ==
    ASSUME ServerInv', NEW c \in Clients, NEW l \in Loops, m_ptrLoop[c] = l, m_ptrLoop'[c] = l,
           NEW k \in Nat,
           \A i \in DOMAIN functors'[l] :
              \/ functors'[l][i].op # "sendInLoop" \/ functors'[l][i].conn # c
              \/ i + k \in DOMAIN functors[l] /\ functors'[l][i] = functors[l][i + k]
    PROVE  Stays(QueuedReplies(c), QueuedReplies(c)')
<1>1. DOMAIN functors'[l] \subseteq Nat
  <2>1. functors' \in [Loops -> Seq(LiveFunctors')]
    BY DEF ServerInv, Typed, WorkTyped
  <2>2. functors'[l] \in Seq(LiveFunctors')
    BY <2>1
  <2> QED
    BY <2>2
<1>2. DOMAIN QueuedReplies(c)' \subseteq Nat
  BY <1>1 DEF QueuedReplies
<1>3. ASSUME NEW i \in DOMAIN QueuedReplies(c)'
      PROVE  i + k \in DOMAIN QueuedReplies(c) /\ QueuedReplies(c)'[i] = QueuedReplies(c)[i + k]
  <2>1. /\ i \in DOMAIN functors'[l] /\ functors'[l][i].op = "sendInLoop"
        /\ functors'[l][i].conn = c /\ QueuedReplies(c)'[i] = functors'[l][i].reply
    BY <1>3 DEF QueuedReplies
  <2>2. i + k \in DOMAIN functors[l] /\ functors'[l][i] = functors[l][i + k]
    BY <2>1
  <2> QED
    BY <2>1, <2>2 DEF QueuedReplies
<1> QED
  BY <1>2, <1>3 DEF Stays

(* A line whose parts all stay.                                             *)
LEMMA LineStays ==
    ASSUME OrderInv, NEW c \in Clients, UNCHANGED <<sent, half>>,
           Stays(received[c], received'[c]), Stays(toClient[c], toClient'[c]),
           Stays(QueuedReplies(c), QueuedReplies(c)'), Stays(Unanswered(c), Unanswered(c)'),
           Stays(Submitted(c), Submitted(c)'), Stays(toServer[c], toServer'[c])
    PROVE  GoodLine(Line(c)', c, sent'[c], half')
<1>1. \A p \in Places : Stays(Line(c)[p], Line(c)'[p])
  BY LineParts
<1>2. GoodLine(Line(c), c, sent[c], half)
  BY DEF OrderInv
<1>3. GoodLine(Line(c)', c, sent[c], half)
  BY <1>1, <1>2, Dropped
<1> QED
  BY <1>3

-----------------------------------------------------------------------------
-----------------------------------------------------------------------------
(* The steps that move no request and no reply.                              *)

(* The queue b is a with elements popped, and with none but functors that    *)
(* send nothing appended.                                                   *)
SendsNoMore(a, b) ==
    \E k \in Nat : \A i \in DOMAIN b :
       b[i].op # "sendInLoop" \/ (i + k \in DOMAIN a /\ b[i] = a[i + k])

LEMMA NoMoreSent ==
    ASSUME NEW S, NEW a \in Seq(S), NEW x, x.op # "sendInLoop"
    PROVE  /\ SendsNoMore(a, a) /\ SendsNoMore(a, Append(a, x))
           /\ a # <<>> => SendsNoMore(a, Tail(a)) /\ SendsNoMore(a, Append(Tail(a), x))
<1>1. ASSUME NEW i \in DOMAIN a
      PROVE  i + 0 \in DOMAIN a /\ a[i] = a[i + 0]
  OBVIOUS
<1>2. ASSUME NEW i \in DOMAIN Append(a, x)
      PROVE  Append(a, x)[i] = x \/ (i + 0 \in DOMAIN a /\ Append(a, x)[i] = a[i + 0])
  OBVIOUS
<1>3. ASSUME a # <<>>, NEW i \in DOMAIN Tail(a)
      PROVE  i + 1 \in DOMAIN a /\ Tail(a)[i] = a[i + 1]
  BY <1>3
<1>4. ASSUME a # <<>>, NEW i \in DOMAIN Append(Tail(a), x)
      PROVE  Append(Tail(a), x)[i] = x \/ (i + 1 \in DOMAIN a /\ Append(Tail(a), x)[i] = a[i + 1])
  <2>1. Tail(a) \in Seq(S)
    BY <1>4
  <2>2. Append(Tail(a), x)[i] = x \/ (i \in DOMAIN Tail(a) /\ Append(Tail(a), x)[i] = Tail(a)[i])
    BY <2>1, <1>4
  <2> QED
    BY <2>2, <1>3, <1>4
<1>5. SendsNoMore(a, a)
  BY <1>1 DEF SendsNoMore
<1>6. SendsNoMore(a, Append(a, x))
  BY <1>2 DEF SendsNoMore
<1>7. a # <<>> => SendsNoMore(a, Tail(a))
  BY <1>3 DEF SendsNoMore
<1>8. a # <<>> => SendsNoMore(a, Append(Tail(a), x))
  <2> DEFINE b == Append(Tail(a), x)
  <2> SUFFICES ASSUME a # <<>> PROVE SendsNoMore(a, b)
    OBVIOUS
  <2>1. \A i \in DOMAIN b : b[i] = x \/ (i + 1 \in DOMAIN a /\ b[i] = a[i + 1])
    BY <1>4
  <2> HIDE DEF b
  <2> QED
    BY <2>1 DEF SendsNoMore
<1> QED
  BY <1>5, <1>6, <1>7, <1>8

LEMMA QuietKeeps ==
    ASSUME ServerInv, ServerInv', OrderInv, RouteInv,
           UNCHANGED <<client, toServer, toClient, queue>>,
           \A l \in Loops : SendsNoMore(functors[l], functors'[l]),
           \A c \in Accepted : m_ptrLoop'[c] = m_ptrLoop[c]
    PROVE  OrderInv' /\ RouteInv'
<1>0. WorkTyped /\ ConnectionsTyped'
  BY DEF ServerInv, Typed
<1>1. UNCHANGED <<sent, half, received, toServer, toClient, submitting, m_deque, executor>>
  BY DEF client, queue
<1>2. ASSUME NEW l \in Loops, NEW i \in DOMAIN functors[l]
      PROVE  functors[l][i].conn \in Accepted
  <2>1. functors[l] \in Seq(LiveFunctors)
    BY <1>0 DEF WorkTyped
  <2>2. functors[l][i] \in LiveFunctors
    BY <2>1
  <2> QED
    BY <2>2 DEF LiveFunctors
<1>3. ASSUME NEW c \in Clients
      PROVE  GoodLine(Line(c)', c, sent'[c], half')
  <2> DEFINE l == m_ptrLoop'[c]
  <2>1. l \in Loops
    BY <1>0 DEF ConnectionsTyped
  <2>2. PICK k \in Nat : \A i \in DOMAIN functors'[l] :
          \/ functors'[l][i].op # "sendInLoop"
          \/ i + k \in DOMAIN functors[l] /\ functors'[l][i] = functors[l][i + k]
    BY <2>1 DEF SendsNoMore
  <2>3. Stays(QueuedReplies(c), QueuedReplies(c)')
    <3>1. CASE c \in Accepted
      <4>1. m_ptrLoop[c] = l
        BY <3>1
      <4> HIDE DEF l
      <4>2. m_ptrLoop'[c] = l
        BY DEF l
      <4> QED
        BY <2>1, <2>2, <4>1, <4>2, RepliesStay
    <3>2. CASE c \notin Accepted
      <4>1. DOMAIN QueuedReplies(c)' = {}
        BY <1>2, <2>1, <2>2, <3>2 DEF QueuedReplies
      <4> QED
        BY <4>1 DEF Stays
    <3> QED
      BY <3>1, <3>2
  <2> QED
    BY <1>1, <2>3, PartsStay, LineStays
<1>4. ASSUME NEW w \in Workers, submitting[w] # None
      PROVE  m_ptrLoop'[submitting[w][1]] = w
  <2>1. submitting[w][1] \in Accepted
    BY <1>0, <1>4 DEF WorkTyped, LiveRequests
  <2> QED
    BY <1>4, <2>1 DEF RouteInv
<1>5. ASSUME NEW l \in Loops, NEW i \in DOMAIN functors'[l], functors'[l][i].op = "sendInLoop"
      PROVE  m_ptrLoop'[functors'[l][i].conn] = l
  <2>1. PICK k \in Nat : i + k \in DOMAIN functors[l] /\ functors'[l][i] = functors[l][i + k]
    BY <1>5 DEF SendsNoMore
  <2> QED
    BY <1>2, <1>5, <2>1 DEF RouteInv
<1> QED
  BY <1>1, <1>3, <1>4, <1>5 DEF OrderInv, RouteInv

(* The queue of one loop changes so, and those of the others not at all.     *)
LEMMA OneQueue ==
    ASSUME ServerInv, NEW d, NEW q, d \in Loops => SendsNoMore(functors[d], q),
           functors' = [functors EXCEPT ![d] = q]
    PROVE  \A l \in Loops : SendsNoMore(functors[l], functors'[l])
<1>1. functors \in [Loops -> Seq(LiveFunctors)]
  BY DEF ServerInv, Typed, WorkTyped
<1>2. \A l \in Loops : SendsNoMore(functors[l], functors[l])
  <2>1. Functor("connectEstablished", None, None).op # "sendInLoop"
    BY DEF Functor
  <2> QED
    BY <1>1, <2>1, NoMoreSent
<1> QED
  BY <1>1, <1>2

(* The clients' steps that move nothing, and the start of the threads.       *)
LEMMA IdleKeepsOrder ==
    ASSUME ServerInv, ServerInv', OrderInv, RouteInv,
           UNCHANGED <<client, toServer, toClient, m_ptrLoop, functors, queue>>
    PROVE  OrderInv' /\ RouteInv'
<1>1. \A l \in Loops : SendsNoMore(functors[l], functors'[l])
  <2>1. functors \in [Loops -> Seq(LiveFunctors)]
    BY DEF ServerInv, Typed, WorkTyped
  <2>2. Functor("connectEstablished", None, None).op # "sendInLoop"
    BY DEF Functor
  <2> QED
    BY <2>1, <2>2, NoMoreSent
<1> QED
  BY <1>1, QuietKeeps

LEMMA AcceptKeepsOrder ==
    ASSUME ServerInv, ServerInv', OrderInv, RouteInv, NEW c \in Clients, Accept(c)
    PROVE  OrderInv' /\ RouteInv'
<1>1. CASE AcceptWithoutDescriptor(c)
  BY <1>1, IdleKeepsOrder DEF AcceptWithoutDescriptor, connection
<1>2. CASE newConnection(c)
  <2> DEFINE d == m_vecLoops[m_nNext]
             x == Functor("connectEstablished", c, None)
  <2>1. /\ m_State[c] = "none"
        /\ m_ptrLoop' = [m_ptrLoop EXCEPT ![c] = d]
        /\ functors' = [functors EXCEPT ![d] = Append(@, x)]
        /\ UNCHANGED <<client, socket, queue>>
    BY <1>2 DEF newConnection, Acceptable
  <2>2. x.op # "sendInLoop"
    BY DEF Functor
  <2> HIDE DEF d, x
  <2>3. d \in Loops => SendsNoMore(functors[d], Append(functors[d], x))
    <3>1. functors \in [Loops -> Seq(LiveFunctors)]
      BY DEF ServerInv, Typed, WorkTyped
    <3>2. d \in Loops => functors[d] \in Seq(LiveFunctors)
      BY <3>1
    <3> QED
      BY <2>2, <3>2, NoMoreSent
  <2>4. \A l \in Loops : SendsNoMore(functors[l], functors'[l])
    <3> DEFINE q == Append(functors[d], x)
    <3>1. functors' = [functors EXCEPT ![d] = q]
      BY <2>1
    <3> HIDE DEF q
    <3>2. d \in Loops => SendsNoMore(functors[d], q)
      BY <2>3 DEF q
    <3> QED
      BY <3>1, <3>2, OneQueue
  <2>5. \A e \in Accepted : m_ptrLoop'[e] = m_ptrLoop[e]
    BY <2>1 DEF Accepted, ServerInv, Typed, ConnectionsTyped
  <2> QED
    BY <2>1, <2>4, <2>5, QuietKeeps DEF socket
<1> QED
  BY <1>1, <1>2 DEF Accept

(* An error, a functor of a worker that sends nothing, and the removal: at   *)
(* most a removal is queued.                                                *)
LEMMA RemovalKeepsOrder ==
    ASSUME ServerInv, ServerInv', OrderInv, RouteInv,
           \/ \E c \in Clients : HandleError(c)
           \/ \E w \in Workers : RunConnectionFunctor(w)
           \/ RemoveConnectionInLoop
    PROVE  OrderInv' /\ RouteInv'
<1>0. /\ functors \in [Loops -> Seq(LiveFunctors)] /\ None \notin m_mapConnections
      /\ Main \in Loops /\ Main \notin Workers /\ Workers \subseteq Loops
  BY ServerAssumption DEF ServerInv, Typed, WorkTyped, ServerTyped, Loops, Workers, Main
<1> SUFFICES /\ UNCHANGED <<client, socket, m_ptrLoop, queue>>
             /\ \A l \in Loops : SendsNoMore(functors[l], functors'[l])
  BY QuietKeeps DEF socket
<1>1. \A l \in Loops : functors[l] \in Seq(LiveFunctors)
  BY <1>0
<1>2. ASSUME NEW c
      PROVE  LET x == Functor("removeConnectionInLoop", c, None)
             IN  \A l \in Loops :
                   /\ SendsNoMore(functors[l], functors[l])
                   /\ SendsNoMore(functors[l], Append(functors[l], x))
                   /\ functors[l] # <<>> => SendsNoMore(functors[l], Tail(functors[l]))
  <2> DEFINE x == Functor("removeConnectionInLoop", c, None)
  <2>1. x.op # "sendInLoop"
    BY DEF Functor
  <2> HIDE DEF x
  <2>2. \A l \in Loops :
          /\ SendsNoMore(functors[l], functors[l])
          /\ SendsNoMore(functors[l], Append(functors[l], x))
          /\ functors[l] # <<>> => SendsNoMore(functors[l], Tail(functors[l]))
    BY <1>1, <2>1, NoMoreSent
  <2> QED
    BY <2>2 DEF x
<1>3. ASSUME NEW c \in Clients, HandleError(c)
      PROVE  /\ UNCHANGED <<client, socket, m_ptrLoop, queue>>
             /\ \A l \in Loops : SendsNoMore(functors[l], functors'[l])
  <2> DEFINE x == Functor("removeConnectionInLoop", c, None)
  <2>1. /\ UNCHANGED <<client, socket, m_ptrLoop, queue>>
        /\ functors' = [functors EXCEPT ![Main] = Append(@, x)]
    BY <1>3 DEF HandleError, removeConnection
  <2>2. /\ SendsNoMore(functors[Main], Append(functors[Main], x))
        /\ \A l \in Loops : SendsNoMore(functors[l], functors[l])
    BY <1>0, <1>2
  <2> HIDE DEF x
  <2> QED
    BY <1>0, <2>1, <2>2
<1>4. ASSUME NEW w \in Workers, RunConnectionFunctor(w)
      PROVE  /\ UNCHANGED <<client, socket, m_ptrLoop, queue>>
             /\ \A l \in Loops : SendsNoMore(functors[l], functors'[l])
  <2> DEFINE c == Head(functors[w]).conn
             x == Functor("removeConnectionInLoop", c, None)
  <2>1. functors[w] # <<>> /\ Head(functors[w]).op # "connectDestroyed"
    <3>1. functors[w] # <<>> /\ functors[w] \in Seq(LiveFunctors)
      BY <1>0, <1>1, <1>4 DEF RunConnectionFunctor
    <3>2. Head(functors[w]) \in LiveFunctors
      BY <3>1
    <3> QED
      BY <3>1, <3>2 DEF LiveFunctors
  <2>2. /\ UNCHANGED <<client, socket, m_ptrLoop, queue>>
        /\ functors' = Popped(w) \/ functors' = removeConnection(c, Popped(w))
    BY <1>4, <2>1 DEF RunConnectionFunctor, Established
  <2>3. functors' = Popped(w) \/ functors' = [Popped(w) EXCEPT ![Main] = Append(@, x)]
    BY <2>2 DEF removeConnection
  <2> HIDE DEF c
  <2>4. /\ SendsNoMore(functors[Main], Append(functors[Main], x))
        /\ SendsNoMore(functors[w], Tail(functors[w]))
        /\ \A l \in Loops : SendsNoMore(functors[l], functors[l])
    BY <1>0, <1>2, <2>1
  <2> HIDE DEF x
  <2>5. /\ w \in Loops /\ Main # w /\ functors'[w] = Tail(functors[w])
        /\ functors'[Main] = functors[Main] \/ functors'[Main] = Append(functors[Main], x)
        /\ \A l \in Loops \ {w, Main} : functors'[l] = functors[l]
    BY <1>0, <2>3 DEF Popped
  <2> QED
    BY <2>2, <2>4, <2>5
<1>5. CASE RemoveConnectionInLoop
  <2>1. /\ UNCHANGED <<client, socket, m_ptrLoop, queue>>
        /\ functors[Main] # <<>> /\ functors' = Popped(Main)
    BY <1>0, <1>5 DEF RemoveConnectionInLoop, name, connection
  <2>2. /\ SendsNoMore(functors[Main], Tail(functors[Main]))
        /\ \A l \in Loops : SendsNoMore(functors[l], functors[l])
    BY <1>0, <1>2, <2>1
  <2>3. /\ functors'[Main] = Tail(functors[Main])
        /\ \A l \in Loops \ {Main} : functors'[l] = functors[l]
    BY <1>0, <2>1 DEF Popped
  <2> QED
    BY <2>1, <2>2, <2>3
<1> QED
  BY <1>3, <1>4, <1>5

-----------------------------------------------------------------------------
(* The steps that move a request or a reply.                                 *)

LEMMA RouteStays ==
    ASSUME RouteInv, UNCHANGED <<m_ptrLoop, functors, submitting>>
    PROVE  RouteInv'
BY DEF RouteInv

(* The replies queued for a connection when nothing is queued or popped.     *)
LEMMA RepliesSame ==
    ASSUME ServerInv, NEW c \in Clients, UNCHANGED <<m_ptrLoop, functors>>
    PROVE  Stays(QueuedReplies(c), QueuedReplies(c)')
<1>1. functors \in [Loops -> Seq(LiveFunctors)] /\ m_ptrLoop \in [Clients -> Loops]
  BY DEF ServerInv, Typed, WorkTyped, ConnectionsTyped
<1>2. functors[m_ptrLoop[c]] \in Seq(LiveFunctors)
  BY <1>1
<1>3. DOMAIN QueuedReplies(c) \subseteq Nat
  BY <1>2 DEF QueuedReplies
<1>4. QueuedReplies(c)' = QueuedReplies(c)
  BY DEF QueuedReplies
<1> QED
  BY <1>3, <1>4, SameStays

(* A client sends a request, or the head or tail of one.                     *)
LEMMA SendKeepsOrder ==
    ASSUME ServerInv, ServerInv', OrderInv, RouteInv, NEW c \in Clients,
           ClientSend(c) \/ ClientSendTail(c)
    PROVE  OrderInv' /\ RouteInv'
<1>0. ClientsTyped
  BY DEF ServerInv, Typed
<1>1. UNCHANGED <<received, toClient, connection, server, functors, queue>>
  BY DEF ClientSend, ClientSendTail
<1>2. UNCHANGED <<received, toClient, m_ptrLoop, functors, submitting, m_deque, executor>>
  BY <1>1 DEF connection, queue
<1>3. /\ QueuedReplies(c)' = QueuedReplies(c) /\ Unanswered(c)' = Unanswered(c)
      /\ Submitted(c)' = Submitted(c)
  BY <1>2 DEF QueuedReplies, Unanswered, Submitted
<1>4. PICK r \in Requests :
        /\ toServer' = [toServer EXCEPT ![c] = Append(@, r)]
        /\ r[1] = c /\ r[2] = sent'[c] /\ (c \in half' => r[3] = "head")
        /\ \/ c \notin half /\ sent' = [sent EXCEPT ![c] = @ + 1]
           \/ c \in half /\ c \notin half' /\ sent' = sent /\ r[3] = "tail"
        /\ \A d \in Clients \ {c} : (d \in half') = (d \in half)
  <2>1. CASE ClientSend(c)
    <3>1. PICK part \in Parts :
            /\ toServer' = [toServer EXCEPT ![c] = Append(@, <<c, sent[c] + 1, part>>)]
            /\ half' = IF part = "head" THEN half \cup {c} ELSE half
      BY <2>1 DEF ClientSend, Parts
    <3>2. c \notin half /\ sent[c] < MaxRequests /\ sent' = [sent EXCEPT ![c] = @ + 1]
      BY <2>1 DEF ClientSend
    <3> DEFINE r == <<c, sent[c] + 1, part>>
    <3>3. sent[c] + 1 \in 1 .. MaxRequests /\ sent'[c] = sent[c] + 1
      BY <1>0, <3>2, ServerAssumption DEF ClientsTyped
    <3>4. r \in Requests
      BY <3>3, RequestFields
    <3>5. r[1] = c /\ r[2] = sent'[c] /\ r[3] = part
      BY <3>3
    <3>6. c \in half' => part = "head"
      BY <3>1, <3>2
    <3>7. \A d \in Clients \ {c} : (d \in half') = (d \in half)
      BY <3>1
    <3>8. toServer' = [toServer EXCEPT ![c] = Append(@, r)]
      BY <3>1
    <3> HIDE DEF r
    <3> QED
      BY <3>2, <3>4, <3>5, <3>6, <3>7, <3>8
  <2>2. CASE ClientSendTail(c)
    <3> DEFINE r == <<c, sent[c], "tail">>
    <3>1. /\ c \in half /\ half' = half \ {c} /\ sent' = sent
          /\ toServer' = [toServer EXCEPT ![c] = Append(@, r)]
      BY <2>2 DEF ClientSendTail
    <3>2. sent[c] \in 1 .. MaxRequests
      BY <1>0, <3>1, ServerAssumption DEF ClientsTyped
    <3>3. r \in Requests
      BY <3>2, RequestFields DEF Parts
    <3>4. r[1] = c /\ r[2] = sent[c] /\ r[3] = "tail"
      OBVIOUS
    <3>5. \A d \in Clients \ {c} : (d \in half') = (d \in half)
      BY <3>1
    <3> HIDE DEF r
    <3> QED
      BY <3>1, <3>3, <3>4, <3>5
  <2> QED
    BY <2>1, <2>2
<1>5. /\ sent[c] \in Nat /\ toServer[c] \in Seq(Requests)
      /\ toServer'[c] = Append(toServer[c], r)
      /\ \A d \in Clients \ {c} : toServer'[d] = toServer[d] /\ sent'[d] = sent[d]
  BY <1>0, <1>4, ServerAssumption DEF ClientsTyped
<1> DEFINE n == sent[c]
<1>6. GoodLine(Line(c), c, sent'[c], half')
      /\ \A q \in Places : \A j \in DOMAIN Line(c)[q] : Before(Line(c)[q][j], r)
  <2>1. GoodLine(Line(c), c, n, half)
    BY DEF OrderInv
  <2>2. CASE c \notin half /\ sent' = [sent EXCEPT ![c] = @ + 1]
    <3>1. sent'[c] = n + 1 /\ n \in Nat
      BY <1>0, <1>5, <2>2 DEF ClientsTyped
    <3>2. GoodLine(Line(c), c, n, half)
      BY <2>1
    <3>3. GoodLine(Line(c), c, n + 1, half')
      BY <2>2, <3>1, <3>2, Later
    <3>4. ASSUME NEW q \in Places, NEW j \in DOMAIN Line(c)[q]
          PROVE  Before(Line(c)[q][j], r)
      <4>1. Line(c)[q][j] \in Requests /\ Line(c)[q][j][2] <= n
        BY <3>2 DEF GoodLine
      <4>2. Line(c)[q][j][2] \in Nat
        BY <4>1, RequestFields, ServerAssumption
      <4>3. Line(c)[q][j][2] < r[2]
        BY <1>4, <3>1, <4>1, <4>2
      <4> QED
        BY <4>3 DEF Before
    <3> QED
      BY <3>1, <3>3, <3>4
  <2>3. CASE c \in half /\ c \notin half' /\ sent' = sent /\ r[3] = "tail"
    <3>1. GoodLine(Line(c), c, n, half')
      BY <2>1, <2>3 DEF GoodLine
    <3>2. ASSUME NEW q \in Places, NEW j \in DOMAIN Line(c)[q]
          PROVE  Before(Line(c)[q][j], r)
      <4>1. /\ Line(c)[q][j] \in Requests /\ Line(c)[q][j][2] <= n
            /\ Line(c)[q][j][2] = n => Line(c)[q][j][3] = "head"
        BY <2>1, <2>3 DEF GoodLine
      <4>2. Line(c)[q][j][2] \in Nat
        BY <4>1, RequestFields, ServerAssumption
      <4> QED
        BY <1>4, <1>5, <2>3, <4>1, <4>2 DEF Before
    <3> QED
      BY <2>3, <3>1, <3>2
  <2> QED
    BY <1>4, <2>2, <2>3
<1>7. GoodLine(Line(c)', c, sent'[c], half')
  <2> DEFINE m == Len(toServer[c]) + 1
  <2>1. m \in Nat /\ 6 \in Places /\ \A q \in Places : q <= 6
    BY <1>5 DEF Places
  <2>2. \A i \in DOMAIN toServer'[c] :
           \/ i = m /\ toServer'[c][i] = r
           \/ i \in DOMAIN toServer[c] /\ i < m /\ toServer'[c][i] = toServer[c][i]
    BY <1>5
  <2> HIDE DEF m
  <2>3. \A i \in DOMAIN Line(c)'[6] :
           \/ i = m /\ Line(c)'[6][i] = r
           \/ i \in DOMAIN Line(c)[6] /\ i < m /\ Line(c)'[6][i] = Line(c)[6][i]
    BY <2>2, LineParts
  <2>4. \A q \in Places \ {6} : Line(c)'[q] = Line(c)[q]
    BY <1>2, <1>3, LineParts
  <2>5. sent'[c] \in Nat
    BY ServerAssumption DEF ServerInv, Typed, ClientsTyped
  <2>6. r[2] <= sent'[c]
    BY <1>4, <2>5
  <2>7. \A q \in Places : \A j \in DOMAIN Line(c)[q] :
          IF q <= 6 THEN Before(Line(c)[q][j], r) ELSE Before(r, Line(c)[q][j])
    BY <1>6, <2>1
  <2> QED
    BY <1>4, <1>6, <2>1, <2>3, <2>4, <2>6, <2>7, PutBehind
<1>8. ASSUME NEW d \in Clients \ {c}
      PROVE  GoodLine(Line(d)', d, sent'[d], half')
  <2>1. Line(d)' = Line(d)
    BY <1>2, <1>5 DEF Line, QueuedReplies, Unanswered, Submitted
  <2>2. sent'[d] = sent[d] /\ (d \in half') = (d \in half)
    BY <1>4, <1>5
  <2>3. GoodLine(Line(d), d, sent[d], half)
    BY DEF OrderInv
  <2>4. GoodLine(Line(d), d, sent'[d], half')
    BY <2>2, <2>3 DEF GoodLine
  <2> QED
    BY <2>1, <2>4
<1>9. OrderInv'
  BY <1>7, <1>8 DEF OrderInv
<1> QED
  BY <1>2, <1>9, RouteStays

(* A client reads a reply.                                                   *)
LEMMA ReceiveKeepsOrder ==
    ASSUME ServerInv, ServerInv', OrderInv, RouteInv, NEW c \in Clients, ClientReceive(c)
    PROVE  OrderInv' /\ RouteInv'
<1>0. ClientsTyped
  BY DEF ServerInv, Typed
<1>1. /\ toClient[c] # <<>>
      /\ received' = [received EXCEPT ![c] = Append(@, Head(toClient[c]))]
      /\ toClient' = [toClient EXCEPT ![c] = Tail(@)]
      /\ UNCHANGED <<sent, half, toServer, m_ptrLoop, functors, submitting, m_deque, executor>>
  BY DEF ClientReceive, connection, queue
<1>2. /\ toClient[c] \in Seq(Requests) /\ received[c] \in Seq(Requests)
      /\ received'[c] = Append(received[c], Head(toClient[c]))
      /\ toClient'[c] = Tail(toClient[c])
      /\ \A d \in Clients \ {c} : received'[d] = received[d] /\ toClient'[d] = toClient[d]
  BY <1>0, <1>1 DEF ClientsTyped
<1>3. GoodLine(Line(c)', c, sent'[c], half')
  <2> DEFINE m == Len(received[c]) + 1
  <2>1. /\ m \in Nat /\ 1 \in DOMAIN toClient[c] /\ DOMAIN toClient'[c] \subseteq Nat
        /\ \A i \in DOMAIN toClient'[c] :
              i + 1 \in DOMAIN toClient[c] /\ 1 < i + 1 /\ toClient'[c][i] = toClient[c][i + 1]
    <3> DEFINE t == toClient[c]
    <3>1. t \in Seq(Requests) /\ t # <<>> /\ received[c] \in Seq(Requests) /\ toClient'[c] = Tail(t)
      BY <1>1, <1>2
    <3> HIDE DEF t
    <3>2. /\ 1 \in DOMAIN t /\ DOMAIN Tail(t) \subseteq Nat
          /\ \A i \in DOMAIN Tail(t) : i + 1 \in DOMAIN t /\ 1 < i + 1 /\ Tail(t)[i] = t[i + 1]
      BY <3>1, TailPlaces
    <3>3. m \in Nat
      BY <3>1
    <3> HIDE DEF m
    <3> QED
      BY <3>1, <3>2, <3>3 DEF t
  <2>2. \A i \in DOMAIN received'[c] :
           \/ i = m /\ received'[c][i] = toClient[c][1]
           \/ i \in DOMAIN received[c] /\ i < m /\ received'[c][i] = received[c][i]
    BY <1>1, <1>2, TailPlaces, AppendPlaces
  <2> HIDE DEF m
  <2>3. /\ DOMAIN Line(c)'[2] \subseteq Nat /\ 1 \in DOMAIN Line(c)[2]
        /\ \A i \in DOMAIN Line(c)'[2] :
              i + 1 \in DOMAIN Line(c)[2] /\ 1 < i + 1 /\ Line(c)'[2][i] = Line(c)[2][i + 1]
    BY <2>1, LineParts
  <2>4. \A i \in DOMAIN Line(c)'[1] :
           \/ i = m /\ Line(c)'[1][i] = Line(c)[2][1]
           \/ i \in DOMAIN Line(c)[1] /\ i < m /\ Line(c)'[1][i] = Line(c)[1][i]
    BY <2>2, LineParts
  <2>5. \A q \in Places \ {1, 2} : Line(c)'[q] = Line(c)[q]
    <3>1. /\ QueuedReplies(c)' = QueuedReplies(c) /\ Unanswered(c)' = Unanswered(c)
          /\ Submitted(c)' = Submitted(c)
      BY <1>1 DEF QueuedReplies, Unanswered, Submitted
    <3> QED
      BY <1>1, <3>1, LineParts
  <2>6. 1 \in Places /\ 2 \in Places /\ 2 = 1 + 1 /\ 1 \in Nat
    BY DEF Places
  <2>7. GoodLine(Line(c), c, sent[c], half)
    BY DEF OrderInv
  <2>8. MovesOn(Line(c), Line(c)', 1, 2, 1, 1, m)
    BY <2>1, <2>3, <2>4, <2>5, <2>6 DEF MovesOn
  <2>9. GoodLine(Line(c)', c, sent[c], half)
    BY <2>7, <2>8, MovedOn
  <2> QED
    BY <1>1, <2>9
<1>4. ASSUME NEW d \in Clients \ {c}
      PROVE  GoodLine(Line(d)', d, sent'[d], half')
  BY <1>1, <1>2, PartsStay, RepliesSame, LineStays
<1> QED
  BY <1>1, <1>3, <1>4, RouteStays DEF OrderInv

(* What has arrived is read, and the first request taken.                    *)
LEMMA ReadKeepsOrder ==
    ASSUME ServerInv, ServerInv', OrderInv, RouteInv, NEW c \in Clients, HandleRead(c)
    PROVE  OrderInv' /\ RouteInv'
<1> DEFINE w == m_ptrLoop[c]
           r == parseRequest(toServer[c])
           L == Line(c)
           M == Line(c)'
           K == [p \in Places |-> IF p = 6 THEN M[6] ELSE L[p]]
           n == sent[c]
<1>0. ClientsTyped /\ WorkTyped /\ w \in Loops /\ w \in Nat
  BY ServerAssumption DEF ServerInv, Typed, ConnectionsTyped, Loops, Workers, Main
<1>1. /\ toServer[c] # <<>> /\ toServer' = [toServer EXCEPT ![c] = <<>>]
      /\ submitting' = [submitting EXCEPT ![w] = r]
      /\ w \in Workers => submitting[w] = None
      /\ UNCHANGED <<sent, half, received, toClient, m_ptrLoop, functors, m_deque, executor>>
  BY DEF HandleRead, LoopRuns, client, connection
<1>2. /\ toServer[c] \in Seq(Requests) /\ toServer'[c] = <<>>
      /\ \A d \in Clients \ {c} : toServer'[d] = toServer[d]
  BY <1>0, <1>1 DEF ClientsTyped
<1>3. GoodLine(L, c, n, half) /\ n \in Nat
  BY <1>0, ServerAssumption DEF OrderInv, ClientsTyped
<1> HIDE DEF L, M, n
<1>4. /\ L[6] = toServer[c] /\ M[6] = <<>> /\ L[5] = Submitted(c) /\ M[5] = Submitted(c)'
      /\ \A p \in Places \ {5, 6} : M[p] = L[p]
      /\ 1 \in DOMAIN L[6] /\ L[6][1] = Head(toServer[c])
      /\ Places = {1, 2, 3, 4, 5, 6}
  <2>1. /\ QueuedReplies(c)' = QueuedReplies(c) /\ Unanswered(c)' = Unanswered(c)
    BY <1>1 DEF QueuedReplies, Unanswered
  <2>2. 1 \in DOMAIN toServer[c] /\ toServer[c][1] = Head(toServer[c])
    BY <1>1, <1>2
  <2>3. /\ L[1] = received[c] /\ L[2] = toClient[c] /\ L[3] = QueuedReplies(c)
        /\ L[4] = Unanswered(c) /\ L[5] = Submitted(c) /\ L[6] = toServer[c]
        /\ M[1] = received'[c] /\ M[2] = toClient'[c] /\ M[3] = QueuedReplies(c)'
        /\ M[4] = Unanswered(c)' /\ M[5] = Submitted(c)' /\ M[6] = toServer'[c]
        /\ Places = {1, 2, 3, 4, 5, 6}
    BY LineParts DEF L, M
  <2>4. received' = received /\ toClient' = toClient
    BY <1>1
  <2>5. \A p \in Places \ {5, 6} : M[p] = L[p]
    BY <2>1, <2>3, <2>4
  <2> HIDE DEF r, w, K
  <2> QED
    BY <1>2, <2>2, <2>3, <2>5
<1>5. K[6] = <<>> /\ \A p \in Places \ {6} : K[p] = L[p]
  BY <1>4
<1> HIDE DEF K
<1>6. GoodLine(K, c, n, half)
  <2>1. Stays(L[6], K[6])
    BY <1>5 DEF Stays
  <2>2. \A p \in Places \ {6} : Stays(L[p], K[p])
    BY <1>3, <1>5, SameStays DEF GoodLine
  <2>3. \A p \in Places : Stays(L[p], K[p])
    BY <2>1, <2>2
  <2> QED
    BY <1>3, <2>3, Dropped
<1> DEFINE h == L[6][1]
<1>7. /\ h \in Requests /\ h[1] = c /\ h[2] \in Nat /\ h[2] <= n
      /\ c \in half /\ h[2] = n => h[3] = "head"
      /\ \A q \in Places \ {6} : \A j \in DOMAIN L[q] : Before(L[q][j], h)
  <2>1. /\ h \in Requests /\ h[1] = c /\ h[2] <= n
        /\ c \in half /\ h[2] = n => h[3] = "head"
    BY <1>3, <1>4 DEF GoodLine
  <2>2. h[2] \in Nat
    BY <2>1, RequestFields, ServerAssumption
  <2>3. \A q \in Places \ {6} : q < 6
    BY <1>4
  <2>4. \A q \in Places \ {6} : \A j \in DOMAIN L[q] : Before(L[q][j], h)
    BY <1>3, <1>4, <2>3 DEF GoodLine
  <2> QED
    BY <2>1, <2>2, <2>4
<1>8. /\ r \in Requests /\ r[1] = c /\ r[2] <= n
      /\ c \in half /\ r[2] = n => r[3] = "head"
      /\ \A q \in Places \ {6} : \A j \in DOMAIN L[q] : Before(L[q][j], r)
  <2>1. CASE r = h
    BY <1>7, <2>1
  <2>2. CASE h[3] = "head" /\ Len(toServer[c]) > 1 /\ r = <<h[1], h[2], "whole">>
    <3>1. r \in Requests /\ r[1] = c /\ r[2] = h[2]
      <4> HIDE DEF h, r
      <4>1. h[1] \in Clients /\ h[2] \in 1 .. MaxRequests /\ "whole" \in Parts
        BY <1>7, RequestFields DEF Parts
      <4>2. <<h[1], h[2], "whole">> \in Requests
        BY <4>1, RequestFields
      <4> QED
        BY <1>7, <2>2, <4>2
    <3>2. 2 \in DOMAIN L[6]
      BY <1>2, <1>4, <2>2
    <3> DEFINE t == L[6][2]
    <3>3. /\ t \in Requests /\ t[2] <= n /\ Before(h, t)
          /\ c \in half /\ t[2] = n => t[3] = "head"
      BY <1>3, <1>4, <3>2 DEF GoodLine
    <3>4. t[2] \in Nat
      BY <3>3, RequestFields, ServerAssumption
    <3>5. ~(c \in half /\ r[2] = n)
      BY <1>3, <1>7, <3>1, <3>3, <3>4 DEF Before
    <3>6. \A q \in Places \ {6} : \A j \in DOMAIN L[q] : Before(L[q][j], r)
      BY <1>7, <2>2, <3>1 DEF Before
    <3> QED
      BY <1>7, <3>1, <3>5, <3>6
  <2>3. r = h \/ (h[3] = "head" /\ Len(toServer[c]) > 1 /\ r = <<h[1], h[2], "whole">>)
    BY <1>4 DEF parseRequest
  <2> QED
    BY <2>1, <2>2, <2>3
<1> HIDE DEF h, r
<1>9. \A i \in DOMAIN M[5] : i = w /\ M[5][i] = r
  <2>1. ASSUME NEW v \in DOMAIN Submitted(c)'
        PROVE  v = w /\ Submitted(c)'[v] = r
    <3>1. /\ v \in Workers /\ submitting'[v] # None /\ submitting'[v][1] = c
          /\ Submitted(c)'[v] = submitting'[v]
      BY <2>1 DEF Submitted
    <3>2. v = w
      BY <1>0, <1>1, <3>1 DEF RouteInv, WorkTyped
    <3>3. submitting'[w] = r
      BY <1>0, <1>1, <3>1, <3>2 DEF WorkTyped
    <3> QED
      BY <3>1, <3>2, <3>3
  <2> QED
    BY <1>4, <2>1
<1>10. GoodLine(M, c, n, half)
  <2>1. /\ \A q \in Places \ {5} : M[q] = K[q]
        /\ 5 \in Places
    BY <1>4, <1>5
  <2>2. \A q \in Places : \A j \in DOMAIN K[q] : q <= 5 /\ Before(K[q][j], r)
    <3>1. \A q \in Places \ {6} : q <= 5
      BY <1>4
    <3> QED
      BY <1>5, <1>8, <3>1
  <2> QED
    BY <1>0, <1>6, <1>8, <1>9, <2>1, <2>2, PutBehind
<1>11. ASSUME NEW d \in Clients \ {c}
       PROVE  GoodLine(Line(d)', d, sent'[d], half')
  <2>1. Submitted(d)' = Submitted(d)
    <3>1. \A v \in Workers : \/ submitting'[v] = submitting[v]
                             \/ v = w /\ submitting'[v] = r /\ submitting[v] = None
      BY <1>0, <1>1 DEF WorkTyped
    <3>2. r[1] # d
      BY <1>8
    <3> QED
      BY <3>1, <3>2 DEF Submitted
  <2>2. DOMAIN Submitted(d) \subseteq Nat
    BY DEF Submitted, Workers
  <2>3. Stays(Submitted(d), Submitted(d)')
    BY <2>1, <2>2, SameStays
  <2> QED
    BY <1>1, <1>2, <2>3, PartsStay, RepliesSame, LineStays
<1>12. OrderInv'
  BY <1>1, <1>10, <1>11 DEF OrderInv, M, n
<1>13. RouteInv'
  <2>1. ASSUME NEW v \in Workers, submitting'[v] # None
        PROVE  m_ptrLoop'[submitting'[v][1]] = v
    <3>1. CASE v = w
      BY <1>0, <1>1, <1>8, <3>1 DEF WorkTyped
    <3>2. CASE v # w
      BY <1>0, <1>1, <2>1, <3>2 DEF WorkTyped, RouteInv
    <3> QED
      BY <3>1, <3>2
  <2> QED
    BY <1>1, <2>1 DEF RouteInv
<1> QED
  BY <1>12, <1>13

(* A worker gets its request into the task queue.                            *)
LEMMA ProduceKeepsOrder ==
    ASSUME ServerInv, ServerInv', OrderInv, RouteInv, NEW w \in Workers, producerTask(w)
    PROVE  OrderInv' /\ RouteInv'
<1>0. ClientsTyped /\ WorkTyped /\ submitting[w] # None
  BY DEF ServerInv, Typed, producerTask
<1>1. PICK r \in LiveRequests : r = submitting[w]
  BY <1>0 DEF WorkTyped
<1>2. PICK c \in Clients : c = r[1]
  BY DEF LiveRequests, Accepted
<1>3. /\ r # None /\ executor = "wait" /\ executor' = "wait"
      /\ m_deque' = Append(m_deque, r)
      /\ submitting' = [submitting EXCEPT ![w] = None]
      /\ UNCHANGED <<sent, half, received, toClient, toServer, m_ptrLoop, functors>>
  BY <1>1 DEF producerTask, client, socket, connection
<1>4. /\ m_deque \in Seq(LiveRequests)
      /\ submitting'[w] = None
      /\ \A v \in Workers \ {w} : submitting'[v] = submitting[v]
  BY <1>0, <1>3 DEF WorkTyped
<1>5. m_ptrLoop[c] = w
  BY <1>1, <1>2, <1>3 DEF RouteInv
<1>6. \A n \in DOMAIN m_deque' :
         \/ n = Len(m_deque) + 1 /\ m_deque'[n] = r
         \/ n \in DOMAIN m_deque /\ n < Len(m_deque) + 1 /\ m_deque'[n] = m_deque[n]
  BY <1>3, <1>4, AppendPlaces
<1>7. GoodLine(Line(c)', c, sent'[c], half')
  <2> DEFINE m == Len(m_deque) + 1
  <2>1. m \in Nat
    BY <1>4
  <2>2. w \in DOMAIN Submitted(c) /\ Submitted(c)[w] = r
    BY <1>1, <1>2, <1>3 DEF Submitted
  <2>3. DOMAIN Submitted(c)' = {}
    <3>1. \A v \in Workers \ {w} : ~(submitting[v] # None /\ submitting[v][1] = c)
      BY <1>5 DEF RouteInv
    <3> QED
      BY <1>4, <3>1 DEF Submitted
  <2>4. \A n \in DOMAIN Unanswered(c)' :
           \/ n = m /\ Unanswered(c)'[n] = r
           \/ n \in DOMAIN Unanswered(c) /\ n < m /\ Unanswered(c)'[n] = Unanswered(c)[n]
    BY <1>3, <1>6 DEF Unanswered
  <2>5. /\ received'[c] = received[c] /\ toClient'[c] = toClient[c] /\ toServer'[c] = toServer[c]
        /\ QueuedReplies(c)' = QueuedReplies(c)
    BY <1>3 DEF QueuedReplies
  <2> HIDE DEF m
  <2>6. \A q \in Places \ {4, 5} : Line(c)'[q] = Line(c)[q]
    BY <2>5, LineParts
  <2>7. /\ w \in DOMAIN Line(c)[5] /\ Line(c)[5][w] = r
        /\ DOMAIN Line(c)'[5] \subseteq Nat
        /\ \A n \in DOMAIN Line(c)'[5] :
              n + 0 \in DOMAIN Line(c)[5] /\ w < n + 0 /\ Line(c)'[5][n] = Line(c)[5][n + 0]
    BY <2>2, <2>3, LineParts
  <2>8. \A n \in DOMAIN Line(c)'[4] :
           \/ n = m /\ Line(c)'[4][n] = Line(c)[5][w]
           \/ n \in DOMAIN Line(c)[4] /\ n < m /\ Line(c)'[4][n] = Line(c)[4][n]
    BY <2>4, <2>7, LineParts
  <2>9. GoodLine(Line(c), c, sent[c], half)
    BY <1>4 DEF OrderInv
  <2>10. 4 \in Places /\ 5 \in Places /\ 5 = 4 + 1 /\ 0 \in Nat
    BY DEF Places
  <2>11. MovesOn(Line(c), Line(c)', 4, 5, w, 0, m)
    BY <2>1, <2>6, <2>7, <2>8, <2>10 DEF MovesOn
  <2>12. GoodLine(Line(c)', c, sent[c], half)
    BY <2>9, <2>11, MovedOn
  <2> QED
    BY <1>3, <2>12
<1>8. ASSUME NEW d \in Clients \ {c}
      PROVE  GoodLine(Line(d)', d, sent'[d], half')
  <2>1. Stays(Submitted(d), Submitted(d)')
    <3>1. DOMAIN Submitted(d)' \subseteq Nat
      BY DEF Submitted, Workers
    <3>2. \A v \in DOMAIN Submitted(d)' :
             v \in DOMAIN Submitted(d) /\ Submitted(d)'[v] = Submitted(d)[v]
      BY <1>4 DEF Submitted
    <3>3. \A v \in DOMAIN Submitted(d)' : v + 0 = v
      BY <3>1
    <3> QED
      BY <3>1, <3>2, <3>3 DEF Stays
  <2>2. Stays(Unanswered(d), Unanswered(d)')
    <3>1. DOMAIN Unanswered(d)' \subseteq Nat
      BY <1>6, <1>4 DEF Unanswered
    <3>2. \A n \in DOMAIN Unanswered(d)' :
             n \in DOMAIN Unanswered(d) /\ Unanswered(d)'[n] = Unanswered(d)[n]
      <4>1. r[1] # d
        BY <1>2, <1>8
      <4> QED
        BY <1>3, <1>6, <4>1 DEF Unanswered
    <3>3. \A n \in DOMAIN Unanswered(d)' : n + 0 = n
      BY <3>1
    <3> QED
      BY <3>1, <3>2, <3>3 DEF Stays
  <2> QED
    BY <1>3, <2>1, <2>2, PartsStay, RepliesSame, LineStays
<1>9. RouteInv'
  BY <1>3, <1>4 DEF RouteInv
<1> QED
  BY <1>7, <1>8, <1>9 DEF OrderInv

(* The executor executes the front of the queue, or pops it.                 *)
LEMMA ExecuteKeepsOrder ==
    ASSUME ServerInv, ServerInv', OrderInv, RouteInv, execCommand \/ pop_front
    PROVE  OrderInv' /\ RouteInv'
<1>0. WorkTyped
  BY DEF ServerInv, Typed
<1>1. UNCHANGED <<sent, half, received, toClient, toServer, m_ptrLoop, functors, submitting>>
  BY DEF execCommand, pop_front, client, socket, connection
<1>2. m_deque \in Seq(LiveRequests) /\ DOMAIN m_deque \subseteq Nat /\ m_deque # <<>>
  BY <1>0 DEF execCommand, pop_front, WorkTyped
<1>3. ASSUME NEW c \in Clients
      PROVE  Stays(Unanswered(c), Unanswered(c)')
  <2>1. CASE execCommand
    <3>1. executor = "wait" /\ m_deque' = m_deque
      BY <2>1 DEF execCommand
    <3>2. DOMAIN Unanswered(c)' \subseteq Nat
      BY <1>2, <3>1 DEF Unanswered
    <3>3. \A n \in DOMAIN Unanswered(c)' :
             n \in DOMAIN Unanswered(c) /\ Unanswered(c)'[n] = Unanswered(c)[n]
      BY <3>1 DEF Unanswered
    <3>4. \A n \in DOMAIN Unanswered(c)' : n + 0 = n
      BY <3>2
    <3> QED
      BY <3>2, <3>3, <3>4 DEF Stays
  <2>2. CASE pop_front
    <3>1. executor = "pop" /\ executor' = "wait" /\ m_deque' = Tail(m_deque)
      BY <2>2 DEF pop_front
    <3>2. \A n \in DOMAIN m_deque' :
             n + 1 \in DOMAIN m_deque /\ 1 < n + 1 /\ m_deque'[n] = m_deque[n + 1]
      BY <1>2, <3>1, TailPlaces
    <3>3. DOMAIN m_deque' \subseteq Nat
      BY <1>2, <3>1, TailPlaces
    <3>4. DOMAIN Unanswered(c)' \subseteq Nat
      BY <3>3 DEF Unanswered
    <3>5. \A n \in DOMAIN Unanswered(c)' :
             n + 1 \in DOMAIN Unanswered(c) /\ Unanswered(c)'[n] = Unanswered(c)[n + 1]
      BY <3>1, <3>2 DEF Unanswered
    <3> QED
      BY <3>4, <3>5 DEF Stays
  <2> QED
    BY <2>1, <2>2
<1>4. ASSUME NEW c \in Clients
      PROVE  GoodLine(Line(c)', c, sent'[c], half')
  BY <1>1, <1>3, PartsStay, RepliesSame, LineStays
<1> QED
  BY <1>1, <1>4, RouteStays DEF OrderInv

(* The executor queues the reply in the loop of the connection.              *)
LEMMA ReplyKeepsOrder ==
    ASSUME ServerInv, ServerInv', OrderInv, RouteInv, queueReply
    PROVE  OrderInv' /\ RouteInv'
<1>0. WorkTyped /\ ConnectionsTyped /\ executor = "send" /\ m_deque # <<>>
  BY DEF ServerInv, Typed, WorkTyped, queueReply
<1>1. m_deque \in Seq(LiveRequests) /\ functors \in [Loops -> Seq(LiveFunctors)]
  BY <1>0 DEF WorkTyped
<1>2. /\ 1 \in DOMAIN m_deque /\ Head(m_deque) = m_deque[1] /\ Head(m_deque) \in LiveRequests
      /\ DOMAIN m_deque \subseteq Nat /\ \A n \in DOMAIN m_deque : n # 1 => 1 < n
  BY <1>0, <1>1
<1>3. PICK r \in LiveRequests : r = Head(m_deque)
  BY <1>2
<1>4. PICK c \in Clients : c = r[1]
  BY DEF LiveRequests, Accepted
<1>5. PICK l \in Loops : l = m_ptrLoop[c]
  BY <1>0 DEF ConnectionsTyped
<1>6. PICK x : x = Functor("sendInLoop", c, r)
  OBVIOUS
<1>7. x.op = "sendInLoop" /\ x.conn = c /\ x.reply = r
  BY <1>6 DEF Functor
<1>8. /\ executor' = "pop" /\ m_deque' = m_deque
      /\ functors' = [functors EXCEPT ![l] = Append(@, x)]
      /\ UNCHANGED <<sent, half, received, toClient, toServer, m_ptrLoop, submitting>>
  BY <1>3, <1>4, <1>5, <1>6 DEF queueReply, ReplyLoop, client, socket, connection
<1>9. /\ functors[l] \in Seq(LiveFunctors) /\ functors'[l] = Append(functors[l], x)
      /\ \A k \in Loops \ {l} : functors'[k] = functors[k]
  BY <1>1, <1>8
<1>10. /\ Len(functors[l]) + 1 \in Nat
       /\ \A i \in DOMAIN functors'[l] :
             \/ i = Len(functors[l]) + 1 /\ functors'[l][i] = x
             \/ /\ i \in DOMAIN functors[l] /\ i < Len(functors[l]) + 1
                /\ functors'[l][i] = functors[l][i]
  BY <1>9, AppendPlaces
<1>11. GoodLine(Line(c)', c, sent'[c], half')
  <2> DEFINE m == Len(functors[l]) + 1
  <2>1. 1 \in DOMAIN Unanswered(c) /\ Unanswered(c)[1] = r
    BY <1>0, <1>2, <1>3, <1>4 DEF Unanswered
  <2>2. /\ DOMAIN Unanswered(c)' \subseteq Nat
        /\ \A n \in DOMAIN Unanswered(c)' :
              n \in DOMAIN Unanswered(c) /\ 1 < n /\ Unanswered(c)'[n] = Unanswered(c)[n]
    BY <1>0, <1>2, <1>8 DEF Unanswered
  <2>3. \A n \in DOMAIN Unanswered(c)' : n + 0 = n
    BY <2>2
  <2>4. m_ptrLoop[c] = l /\ m_ptrLoop'[c] = l
    BY <1>5, <1>8
  <2>5. \A i \in DOMAIN QueuedReplies(c)' :
           \/ i = m /\ QueuedReplies(c)'[i] = r
           \/ i \in DOMAIN QueuedReplies(c) /\ i < m /\ QueuedReplies(c)'[i] = QueuedReplies(c)[i]
    BY <1>7, <1>10, <2>4 DEF QueuedReplies
  <2>6. m \in Nat
    BY <1>10
  <2> HIDE DEF m
  <2>7. Submitted(c)' = Submitted(c)
    BY <1>8 DEF Submitted
  <2>8. \A q \in Places \ {3, 4} : Line(c)'[q] = Line(c)[q]
    BY <1>8, <2>7, LineParts
  <2>9. /\ 1 \in DOMAIN Line(c)[4] /\ Line(c)[4][1] = r
        /\ DOMAIN Line(c)'[4] \subseteq Nat
        /\ \A n \in DOMAIN Line(c)'[4] :
              n + 0 \in DOMAIN Line(c)[4] /\ 1 < n + 0 /\ Line(c)'[4][n] = Line(c)[4][n + 0]
    BY <2>1, <2>2, <2>3, LineParts
  <2>10. \A n \in DOMAIN Line(c)'[3] :
            \/ n = m /\ Line(c)'[3][n] = Line(c)[4][1]
            \/ n \in DOMAIN Line(c)[3] /\ n < m /\ Line(c)'[3][n] = Line(c)[3][n]
    BY <2>5, <2>9, LineParts
  <2>11. GoodLine(Line(c), c, sent[c], half)
    BY DEF OrderInv
  <2>12. 3 \in Places /\ 4 \in Places /\ 4 = 3 + 1 /\ 0 \in Nat
    BY DEF Places
  <2>13. MovesOn(Line(c), Line(c)', 3, 4, 1, 0, m)
    BY <2>6, <2>8, <2>9, <2>10, <2>12 DEF MovesOn
  <2>14. GoodLine(Line(c)', c, sent[c], half)
    BY <2>11, <2>13, MovedOn
  <2> QED
    BY <1>8, <2>14
<1>12. ASSUME NEW d \in Clients \ {c}
       PROVE  GoodLine(Line(d)', d, sent'[d], half')
  <2>1. Stays(Unanswered(d), Unanswered(d)')
    <3>1. m_deque[1][1] # d
      BY <1>2, <1>3, <1>4, <1>12
    <3>2. Unanswered(d)' = Unanswered(d)
      BY <1>0, <1>8, <3>1 DEF Unanswered
    <3>3. DOMAIN Unanswered(d) \subseteq Nat
      BY <1>2 DEF Unanswered
    <3> QED
      BY <3>2, <3>3, SameStays
  <2>2. Stays(QueuedReplies(d), QueuedReplies(d)')
    <3>1. PICK k \in Loops : m_ptrLoop[d] = k /\ m_ptrLoop'[d] = k
      BY <1>0, <1>8 DEF ConnectionsTyped
    <3>2. DOMAIN functors[k] \subseteq Nat
      <4>1. functors[k] \in Seq(LiveFunctors)
        BY <1>1
      <4> QED
        BY <4>1
    <3>3. \A i \in DOMAIN functors'[k] :
             \/ functors'[k][i].op # "sendInLoop" \/ functors'[k][i].conn # d
             \/ i \in DOMAIN functors[k] /\ functors'[k][i] = functors[k][i]
      BY <1>7, <1>9, <1>10, <1>12
    <3>4. \A i \in DOMAIN functors[k] : i + 0 = i
      BY <3>2
    <3>5. \A i \in DOMAIN functors'[k] :
             \/ functors'[k][i].op # "sendInLoop" \/ functors'[k][i].conn # d
             \/ i + 0 \in DOMAIN functors[k] /\ functors'[k][i] = functors[k][i + 0]
      BY <3>3, <3>4
    <3>6. 0 \in Nat
      OBVIOUS
    <3> QED
      BY <3>1, <3>5, <3>6, RepliesStay
  <2> QED
    BY <1>8, <2>1, <2>2, PartsStay, LineStays
<1>13. RouteInv'
  <2>1. ASSUME NEW k \in Loops, NEW i \in DOMAIN functors'[k], functors'[k][i].op = "sendInLoop"
        PROVE  m_ptrLoop'[functors'[k][i].conn] = k
    <3>1. CASE i \in DOMAIN functors[k] /\ functors'[k][i] = functors[k][i]
      BY <1>8, <2>1, <3>1 DEF RouteInv
    <3>2. CASE k = l /\ functors'[k][i] = x
      BY <1>5, <1>7, <1>8, <3>2
    <3> QED
      BY <1>9, <1>10, <3>1, <3>2
  <2> QED
    BY <1>8, <2>1 DEF RouteInv
<1> QED
  BY <1>11, <1>12, <1>13 DEF OrderInv

(* A worker writes a reply to the client, or cannot.                         *)
LEMMA WriteKeepsOrder ==
    ASSUME ServerInv, ServerInv', OrderInv, RouteInv, NEW l \in Workers, SendInLoop(l)
    PROVE  OrderInv' /\ RouteInv'
<1>0. WorkTyped /\ ConnectionsTyped /\ ClientsTyped /\ l \in Loops /\ functors[l] # <<>>
  BY DEF ServerInv, Typed, SendInLoop, Loops
<1>1. /\ functors \in [Loops -> Seq(LiveFunctors)] /\ functors[l] \in Seq(LiveFunctors)
      /\ functors'[l] = Tail(functors[l]) /\ \A k \in Loops \ {l} : functors'[k] = functors[k]
  BY <1>0 DEF WorkTyped, SendInLoop, Popped
<1>2. /\ 1 \in DOMAIN functors[l] /\ Head(functors[l]) = functors[l][1]
      /\ Head(functors[l]) \in LiveFunctors
      /\ \A i \in DOMAIN functors'[l] :
            i + 1 \in DOMAIN functors[l] /\ 1 < i + 1 /\ functors'[l][i] = functors[l][i + 1]
  BY <1>0, <1>1, TailPlaces
<1>3. PICK f \in LiveFunctors : f = Head(functors[l])
  BY <1>2
<1>4. f.op = "sendInLoop" /\ f.reply \in Requests /\ f.conn \in Clients
  BY <1>3 DEF SendInLoop, LiveFunctors, Accepted
<1>5. PICK c \in Clients : c = f.conn
  BY <1>4
<1>6. /\ UNCHANGED <<sent, half, received, toServer, m_ptrLoop, submitting, m_deque, executor>>
      /\ \/ toClient' = toClient
         \/ toClient' = [toClient EXCEPT ![c] =
                            IF Len(@) < SendBuffer THEN Append(@, f.reply) ELSE @]
  BY <1>3, <1>5 DEF SendInLoop, client, connection, queue
<1>7. /\ toClient[c] \in Seq(Requests)
      /\ toClient'[c] = toClient[c] \/ toClient'[c] = Append(toClient[c], f.reply)
      /\ \A d \in Clients \ {c} : toClient'[d] = toClient[d]
  BY <1>0, <1>6 DEF ClientsTyped
<1>8. m_ptrLoop[c] = l
  BY <1>0, <1>2, <1>3, <1>4, <1>5 DEF RouteInv
<1>9. ASSUME NEW d \in Clients
      PROVE  Stays(QueuedReplies(d), QueuedReplies(d)')
  <2>1. PICK k \in Loops : m_ptrLoop[d] = k /\ m_ptrLoop'[d] = k
    BY <1>0, <1>6 DEF ConnectionsTyped
  <2>2. CASE k = l
    <3>1. \A i \in DOMAIN functors'[k] :
             i + 1 \in DOMAIN functors[k] /\ functors'[k][i] = functors[k][i + 1]
      BY <1>2, <2>2
    <3>2. 1 \in Nat
      OBVIOUS
    <3> QED
      BY <2>1, <3>1, <3>2, RepliesStay
  <2>3. CASE k # l
    <3>1. functors[k] \in Seq(LiveFunctors) /\ functors'[k] = functors[k]
      BY <1>1, <2>3
    <3>2. \A i \in DOMAIN functors'[k] :
             i + 0 \in DOMAIN functors[k] /\ functors'[k][i] = functors[k][i + 0]
      BY <3>1
    <3>3. 0 \in Nat
      OBVIOUS
    <3> QED
      BY <2>1, <3>2, <3>3, RepliesStay
  <2> QED
    BY <2>2, <2>3
<1>10. GoodLine(Line(c)', c, sent'[c], half')
  <2>1. CASE toClient'[c] = toClient[c]
    BY <1>6, <1>9, <2>1, PartsStay, LineStays
  <2>2. CASE toClient'[c] = Append(toClient[c], f.reply)
    <3> DEFINE m == Len(toClient[c]) + 1
    <3>1. 1 \in DOMAIN QueuedReplies(c) /\ QueuedReplies(c)[1] = f.reply
      BY <1>2, <1>3, <1>4, <1>5, <1>8 DEF QueuedReplies
    <3>2. DOMAIN QueuedReplies(c)' \subseteq Nat
      BY <1>9 DEF Stays
    <3>3. \A i \in DOMAIN QueuedReplies(c)' :
             /\ i + 1 \in DOMAIN QueuedReplies(c) /\ 1 < i + 1
             /\ QueuedReplies(c)'[i] = QueuedReplies(c)[i + 1]
      <4>1. m_ptrLoop'[c] = l
        BY <1>6, <1>8
      <4> QED
        BY <1>2, <1>8, <4>1 DEF QueuedReplies
    <3>4. /\ m \in Nat
          /\ \A i \in DOMAIN toClient'[c] :
                \/ i = m /\ toClient'[c][i] = f.reply
                \/ i \in DOMAIN toClient[c] /\ i < m /\ toClient'[c][i] = toClient[c][i]
      BY <1>7, <2>2, AppendPlaces
    <3> HIDE DEF m
    <3>5. Unanswered(c)' = Unanswered(c) /\ Submitted(c)' = Submitted(c)
      BY <1>6 DEF Unanswered, Submitted
    <3>6. \A q \in Places \ {2, 3} : Line(c)'[q] = Line(c)[q]
      BY <1>6, <3>5, LineParts
    <3>7. /\ 1 \in DOMAIN Line(c)[3] /\ Line(c)[3][1] = f.reply
          /\ DOMAIN Line(c)'[3] \subseteq Nat
          /\ \A i \in DOMAIN Line(c)'[3] :
                i + 1 \in DOMAIN Line(c)[3] /\ 1 < i + 1 /\ Line(c)'[3][i] = Line(c)[3][i + 1]
      BY <3>1, <3>2, <3>3, LineParts
    <3>8. \A i \in DOMAIN Line(c)'[2] :
             \/ i = m /\ Line(c)'[2][i] = Line(c)[3][1]
             \/ i \in DOMAIN Line(c)[2] /\ i < m /\ Line(c)'[2][i] = Line(c)[2][i]
      BY <3>4, <3>7, LineParts
    <3>9. GoodLine(Line(c), c, sent[c], half)
      BY DEF OrderInv
    <3>10. 2 \in Places /\ 3 \in Places /\ 3 = 2 + 1 /\ 1 \in Nat
      BY DEF Places
    <3>11. MovesOn(Line(c), Line(c)', 2, 3, 1, 1, m)
      BY <3>4, <3>6, <3>7, <3>8, <3>10 DEF MovesOn
    <3>12. GoodLine(Line(c)', c, sent[c], half)
      BY <3>9, <3>11, MovedOn
    <3> QED
      BY <1>6, <3>12
  <2> QED
    BY <1>7, <2>1, <2>2
<1>11. ASSUME NEW d \in Clients \ {c}
       PROVE  GoodLine(Line(d)', d, sent'[d], half')
  BY <1>6, <1>7, <1>9, PartsStay, LineStays
<1>12. RouteInv'
  <2>1. ASSUME NEW k \in Loops, NEW i \in DOMAIN functors'[k], functors'[k][i].op = "sendInLoop"
        PROVE  m_ptrLoop'[functors'[k][i].conn] = k
    <3>1. CASE k = l
      BY <1>0, <1>2, <1>6, <2>1, <3>1 DEF RouteInv
    <3>2. CASE k # l
      BY <1>1, <1>6, <2>1, <3>2 DEF RouteInv
    <3> QED
      BY <3>1, <3>2
  <2> QED
    BY <1>6, <2>1 DEF RouteInv
<1> QED
  BY <1>10, <1>11, <1>12 DEF OrderInv

-----------------------------------------------------------------------------
FlowInv == ServerInv /\ OrderInv /\ RouteInv

LEMMA FlowInit == Init => FlowInv
<1> SUFFICES ASSUME Init PROVE FlowInv
  OBVIOUS
<1>1. ServerInv
  BY ServerInit
<1>2. ASSUME NEW c \in Clients, NEW p \in Places
      PROVE  DOMAIN Line(c)[p] = {}
  <2>1. m_ptrLoop[c] \in Loops
    BY <1>1 DEF ServerInv, Typed, ConnectionsTyped
  <2>2. DOMAIN QueuedReplies(c) = {}
    BY <2>1 DEF Init, QueuedReplies
  <2>3. DOMAIN Submitted(c) = {}
    BY DEF Init, Submitted
  <2>4. DOMAIN Unanswered(c) = {}
    BY DEF Init, Unanswered
  <2>5. DOMAIN received[c] = {} /\ DOMAIN toClient[c] = {} /\ DOMAIN toServer[c] = {}
    BY DEF Init
  <2> QED
    BY <2>2, <2>3, <2>4, <2>5, LineParts
<1>3. OrderInv
  <2>1. ASSUME NEW c \in Clients
        PROVE  GoodLine(Line(c), c, sent[c], half)
    <3> DEFINE L == Line(c)
    <3>1. \A p \in Places : DOMAIN L[p] = {}
      BY <1>2
    <3> HIDE DEF L
    <3>2. GoodLine(L, c, sent[c], half)
      BY <3>1 DEF GoodLine
    <3> QED
      BY <3>2 DEF L
  <2> QED
    BY <2>1 DEF OrderInv
<1>4. RouteInv
  BY DEF Init, RouteInv
<1> QED
  BY <1>1, <1>3, <1>4 DEF FlowInv

(* The invariant is inductive.                                              *)
LEMMA FlowStep ==
    ASSUME FlowInv, [Next]_vars
    PROVE  FlowInv'
<1>1. ServerInv /\ OrderInv /\ RouteInv /\ ServerInv'
  BY ServerStep DEF FlowInv
<1> SUFFICES OrderInv' /\ RouteInv'
  BY <1>1 DEF FlowInv
<1>2. CASE StartMain \/ WakeMain \/ \E w \in Workers : StartWorker(w)
  <2>1. ServerUnchanged
    BY <1>2 DEF StartMain, WakeMain, StartWorker
  <2>2. UNCHANGED <<client, toServer, toClient, m_ptrLoop, functors, queue>>
    BY <2>1 DEF ServerUnchanged, socket, connection
  <2> QED
    BY <1>1, <2>2, IdleKeepsOrder
<1>3. ASSUME NEW c \in Clients, ClientStep(c)
      PROVE  OrderInv' /\ RouteInv'
  <2>1. CASE ClientConnect(c) \/ ClientClose(c) \/ ClientReset(c)
    <3>1. UNCHANGED <<client, toServer, toClient, m_ptrLoop, functors, queue>>
      BY <2>1 DEF ClientConnect, ClientClose, ClientReset, connection
    <3> QED
      BY <1>1, <3>1, IdleKeepsOrder
  <2>2. CASE ClientSend(c) \/ ClientSendTail(c)
    BY <1>1, <2>2, SendKeepsOrder
  <2>3. CASE ClientReceive(c)
    BY <1>1, <2>3, ReceiveKeepsOrder
  <2> QED
    BY <1>3, <2>1, <2>2, <2>3 DEF ClientStep
<1>4. ASSUME NEW c \in Clients, Accept(c) \/ HandleEvent(c)
      PROVE  OrderInv' /\ RouteInv'
  <2>1. CASE Accept(c)
    BY <1>1, <2>1, AcceptKeepsOrder
  <2>2. CASE HandleError(c)
    BY <1>1, <2>2, RemovalKeepsOrder
  <2>3. CASE HandleRead(c)
    BY <1>1, <2>3, ReadKeepsOrder
  <2> QED
    BY <1>4, <2>1, <2>2, <2>3 DEF HandleEvent
<1>5. ASSUME NEW w \in Workers, RunFunctor(w) \/ producerTask(w)
      PROVE  OrderInv' /\ RouteInv'
  <2>1. CASE RunConnectionFunctor(w)
    BY <1>1, <2>1, RemovalKeepsOrder
  <2>2. CASE SendInLoop(w)
    BY <1>1, <2>2, WriteKeepsOrder
  <2>3. CASE producerTask(w)
    BY <1>1, <2>3, ProduceKeepsOrder
  <2> QED
    BY <1>5, <2>1, <2>2, <2>3 DEF RunFunctor
<1>6. CASE RemoveConnectionInLoop
  BY <1>1, <1>6, RemovalKeepsOrder
<1>7. CASE consumer
  BY <1>1, <1>7, ExecuteKeepsOrder, ReplyKeepsOrder DEF consumer
<1>8. CASE UNCHANGED vars
  <2>1. UNCHANGED <<client, toServer, toClient, m_ptrLoop, functors, queue>>
    BY <1>8 DEF vars, socket, connection
  <2> QED
    BY <1>1, <2>1, IdleKeepsOrder
<1> QED
  BY <1>2, <1>3, <1>4, <1>5, <1>6, <1>7, <1>8 DEF Next

(* However reads, the task queue, the executor and the loops interleave, the *)
(* requests of a connection and the replies to them stay in the order the   *)
(* client sent them, and none reaches another client: because one worker    *)
(* reads a connection and writes its replies, and one executor answers.     *)
THEOREM OrderTheorem == Spec => []InOrder
<1>1. FlowInv => InOrder
  <2> SUFFICES ASSUME FlowInv, NEW c \in Clients,
                      NEW p \in DOMAIN Line(c), NEW q \in DOMAIN Line(c),
                      NEW i \in DOMAIN Line(c)[p]
               PROVE  /\ Line(c)[p][i][1] = c
                      /\ \A j \in DOMAIN Line(c)[q] :
                            p < q \/ (p = q /\ i < j) => Before(Line(c)[p][i], Line(c)[q][j])
    BY DEF InOrder
  <2>1. DOMAIN Line(c) = Places
    BY DEF Line, Places
  <2>2. GoodLine(Line(c), c, sent[c], half)
    BY DEF FlowInv, OrderInv
  <2> QED
    BY <2>1, <2>2 DEF GoodLine
<1> QED
  BY <1>1, FlowInit, FlowStep, PTL DEF Spec
=============================================================================
