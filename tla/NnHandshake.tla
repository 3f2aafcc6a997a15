---------------------------- MODULE NnHandshake -----------------------------
(***************************************************************************)
(* How a peer becomes a connection of NnBridge: run_service, its accept    *)
(* loop and the workers it spawns, against connect_to_fuzzer in the peer.  *)
(*                                                                         *)
(* One task accepts a stream, says hello, reads one request without a      *)
(* timeout and only then accepts the next.  A RemoteNnHello makes it a job *)
(* of the runtime's blocking pool, which holds PoolSize jobs at a time;    *)
(* the job becomes an LLMP client of the broker and tells the peer its id. *)
(*                                                                         *)
(* The server's end of a stream has one owner at a time, and is closed     *)
(* when its owner drops it.                                                *)
(***************************************************************************)
EXTENDS Naturals, Sequences, FiniteSets

CONSTANTS
  Peers,      \* programs that connect, each once
  Prompt,     \* the peers that do not pause inside the handshake
  Requests,   \* what peers may send as their request
  PoolSize,   \* threads of the runtime's blocking pool
  None

RequestKinds == {"RemoteNnHello", "LocalHello", "Illegal"}

ASSUME PromptPeers == Prompt \subseteq Peers
ASSUME RequestsKnown == Requests \subseteq RequestKinds
ASSUME PoolSizePositive == PoolSize \in Nat \ {0}
ASSUME NoneIsNoPeer == None \notin Peers

\* A TcpResponce; client_id is 0 in one that carries none.
Packets == [name: {"nothing", "RemoteFuzzerHello", "RemoteNNAccepted"}, client_id: Nat]
Nothing == [name |-> "nothing", client_id |-> 0]
Hello == [name |-> "RemoteFuzzerHello", client_id |-> 0]

VARIABLES
  broker,   \* "running" or "exited"
  service,  \* the accept loop: accept, request, panicked
  serving,  \* the peer whose request the accept loop reads
  backlog,  \* Seq(Peers)  connections not yet accepted
  stream,   \* [Peers -> ...]  who owns the server's end
  wrote,    \* [Peers -> ...]  what the peer has written of its request
  told,     \* [Peers -> Packets]  the last response written to the peer
  client,   \* [Peers -> Nat]  the LLMP client id of the worker, 0 before it has one
  lastId,   \* the last LLMP client id the broker has given out
  peer,     \* [Peers -> ...]  the peer's place in connect_to_fuzzer
  id        \* [Peers -> Nat]  the id the peer has read from the accept packet

serverVars == <<service, serving, backlog, stream, told, client>>
peerVars == <<wrote, peer, id>>
vars == <<broker, serverVars, lastId, peerVars>>

Init ==
  /\ broker = "running"
  /\ service = "accept"
  /\ serving = None
  /\ backlog = <<>>
  /\ stream = [p \in Peers |-> "none"]
  /\ wrote = [p \in Peers |-> "nothing"]
  /\ told = [p \in Peers |-> Nothing]
  /\ client = [p \in Peers |-> 0]
  /\ lastId = 0
  /\ peer = [p \in Peers |-> "out"]
  /\ id = [p \in Peers |-> 0]

Gone(p) == peer[p] \in {"failed", "gone"}

-----------------------------------------------------------------------------
(* The peer: connect_to_fuzzer *)

\* TcpStream::connect: the kernel completes it while the listener exists.
PeerConnect(p) ==
  /\ peer[p] = "out"
  /\ IF service = "panicked"
     THEN /\ peer' = [peer EXCEPT ![p] = "failed"]
          /\ UNCHANGED <<backlog, stream>>
     ELSE /\ peer' = [peer EXCEPT ![p] = "hello"]
          /\ backlog' = Append(backlog, p)
          /\ stream' = [stream EXCEPT ![p] = "backlog"]
  /\ UNCHANGED <<broker, service, serving, told, client, lastId, wrote, id>>

PeerGetsHello(p) ==
  /\ peer[p] = "hello"
  /\ told[p].name = "RemoteFuzzerHello"
  /\ peer' = [peer EXCEPT ![p] = "request"]
  /\ UNCHANGED <<broker, serverVars, lastId, wrote, id>>

\* send_tcp_msg writes the size and then the body.
PeerWritesSize(p) ==
  /\ peer[p] = "request"
  /\ wrote[p] = "nothing"
  /\ wrote' = [wrote EXCEPT ![p] = "size"]
  /\ UNCHANGED <<broker, serverVars, lastId, peer, id>>

PeerWritesBody(p) ==
  /\ peer[p] = "request"
  /\ wrote[p] = "size"
  /\ \E r \in Requests : wrote' = [wrote EXCEPT ![p] = r]
  /\ peer' = [peer EXCEPT ![p] = "accept"]
  /\ UNCHANGED <<broker, serverVars, lastId, id>>

PeerGetsAccept(p) ==
  /\ peer[p] = "accept"
  /\ told[p].name = "RemoteNNAccepted"
  /\ peer' = [peer EXCEPT ![p] = "connected"]
  /\ id' = [id EXCEPT ![p] = told[p].client_id]
  /\ UNCHANGED <<broker, serverVars, lastId, wrote>>

\* A read or write of the handshake fails because the server's end is closed.
PeerFails(p) ==
  /\ peer[p] \in {"hello", "request", "accept"}
  /\ stream[p] = "closed"
  /\ peer' = [peer EXCEPT ![p] = "failed"]
  /\ UNCHANGED <<broker, serverVars, lastId, wrote, id>>

\* The peer's process ends, be it between the two writes of its request.
PeerDies(p) ==
  /\ peer[p] \in {"hello", "request", "accept", "connected"}
  /\ peer' = [peer EXCEPT ![p] = "gone"]
  /\ UNCHANGED <<broker, serverVars, lastId, wrote, id>>

-----------------------------------------------------------------------------
(* The accept loop: run_service *)

\* accept, then the hello.  Accepting a peer that has gone, and writing it the
\* hello, may fail.  A failed accept that consumes nothing is just tried again.
ServiceAccept ==
  /\ service = "accept"
  /\ backlog # <<>>
  /\ backlog' = Tail(backlog)
  /\ LET p == Head(backlog)
     IN  \/ /\ told' = [told EXCEPT ![p] = Hello]
            /\ stream' = [stream EXCEPT ![p] = "service"]
            /\ serving' = p
            /\ service' = "request"
         \/ /\ Gone(p)
            /\ stream' = [stream EXCEPT ![p] = "closed"]
            /\ UNCHANGED <<told, serving, service>>
  /\ UNCHANGED <<broker, client, lastId, peerVars>>

\* A refused stream goes out of scope.
RefusedLeaked == "none"  \* mutant: it is neither kept nor closed
Refused == "closed"

\* The loop goes on to the next connection; the stream goes to its new owner.
ServiceContinues(owner) ==
  /\ stream' = [stream EXCEPT ![serving] = owner]
  /\ serving' = None
  /\ service' = "accept"
  /\ UNCHANGED <<broker, backlog, told, client, lastId, peerVars>>

\* The task unwinds, and the listener and the stream in hand go with it.  Its runtime
\* shuts down: a job that waits for a thread is dropped, or still run by one that
\* comes free.  Workers that run stay.
DroppedFew == {"service"}  \* mutant: the listener outlives the task
DroppedInPanic == {"backlog", "service"}
ServicePanics ==
  /\ service' = "panicked"
  /\ serving' = None
  /\ backlog' = <<>>
  /\ \E jobs \in SUBSET {p \in Peers : stream[p] = "job"} :
       stream' = [p \in Peers |-> IF stream[p] \in DroppedInPanic \/ p \in jobs
                                  THEN "closed" ELSE stream[p]]
  /\ UNCHANGED <<broker, told, client, lastId, peerVars>>

\* No byte of the size: an error of recv_tcp_message.
ServiceRequestFails ==
  /\ service = "request"
  /\ wrote[serving] = "nothing"
  /\ Gone(serving)
  /\ ServiceContinues(Refused)

\* The size without the body: a panic of recv_tcp_message.
ServiceRequestCut ==
  /\ service = "request"
  /\ wrote[serving] = "size"
  /\ Gone(serving)
  /\ ServicePanics

ServiceRequestIllegal ==
  /\ service = "request"
  /\ wrote[serving] = "Illegal"
  /\ ServiceContinues(Refused)

ServiceRemoteNnHello ==
  /\ service = "request"
  /\ wrote[serving] = "RemoteNnHello"
  /\ ServiceContinues("job")

\* unimplemented!()
ServiceLocalHello ==
  /\ service = "request"
  /\ wrote[serving] = "LocalHello"
  /\ ServicePanics

-----------------------------------------------------------------------------
(* A job of the blocking pool *)

Running == {p \in Peers : stream[p] \in {"attached", "worker"}}
PoolFull == Cardinality(Running) >= PoolSize

\* NnConnector::new registers with the broker, which numbers its clients.  Without a
\* broker, or without shared memory for the pages, the job ends and drops the stream.
NextId == lastId + 1
JobAttaches(p) ==
  /\ stream[p] = "job"
  /\ ~PoolFull
  /\ \/ /\ broker = "running"
        /\ lastId' = NextId
        /\ client' = [client EXCEPT ![p] = NextId]
        /\ stream' = [stream EXCEPT ![p] = "attached"]
     \/ /\ stream' = [stream EXCEPT ![p] = "closed"]
        /\ UNCHANGED <<lastId, client>>
  /\ UNCHANGED <<broker, service, serving, backlog, told, peerVars>>

\* mutants: a packet of another name, and the newest id instead of the worker's own
AcceptPacketOther(p) == [name |-> "RemoteNNAccept", client_id |-> client[p]]
AcceptPacketNewest(p) == [name |-> "RemoteNNAccepted", client_id |-> lastId]
AcceptPacket(p) == [name |-> "RemoteNNAccepted", client_id |-> client[p]]

\* The accept packet.  Whether the peer is there to get it or not, the worker
\* goes on to handle_connection.
JobAccepts(p) ==
  /\ stream[p] = "attached"
  /\ told' = [told EXCEPT ![p] = AcceptPacket(p)]
  /\ stream' = [stream EXCEPT ![p] = "worker"]
  /\ UNCHANGED <<broker, service, serving, backlog, client, lastId, peerVars>>

\* handle_connection panics when it writes to a peer that has gone or when the
\* broker has shut down.
WorkerEnds(p) ==
  /\ stream[p] = "worker"
  /\ Gone(p) \/ broker = "exited"
  /\ stream' = [stream EXCEPT ![p] = "closed"]
  /\ UNCHANGED <<broker, service, serving, backlog, told, client, lastId, peerVars>>

BrokerExits ==
  /\ broker = "running"
  /\ broker' = "exited"
  /\ UNCHANGED <<serverVars, lastId, peerVars>>

-----------------------------------------------------------------------------
Service ==
  \/ ServiceAccept \/ ServiceRequestFails \/ ServiceRequestCut
  \/ ServiceRequestIllegal \/ ServiceRemoteNnHello \/ ServiceLocalHello

Job(p) == JobAttaches(p) \/ JobAccepts(p)

PeerReads(p) == PeerGetsHello(p) \/ PeerGetsAccept(p) \/ PeerFails(p)
PeerWrites(p) == PeerWritesSize(p) \/ PeerWritesBody(p)

Next ==
  \/ Service
  \/ \E p \in Peers :
       Job(p) \/ WorkerEnds(p) \/ PeerConnect(p) \/ PeerReads(p) \/ PeerWrites(p) \/ PeerDies(p)
  \/ BrokerExits

Spec == Init /\ [][Next]_vars

(***************************************************************************)
(* The runtime polls the accept loop and runs the jobs it has threads for; *)
(* blocking reads return what is there.  Only Prompt peers are known to    *)
(* write their request, and nothing makes a worker notice a peer's end.    *)
(***************************************************************************)
Fairness ==
  /\ WF_vars(Service)
  /\ \A p \in Peers : WF_vars(JobAttaches(p)) /\ WF_vars(JobAccepts(p)) /\ WF_vars(PeerReads(p))
  /\ \A p \in Prompt : WF_vars(PeerWrites(p))

FairSpec == Spec /\ Fairness

-----------------------------------------------------------------------------
(***************************************************************************)
(* The abstract roll: the id of a worker's LLMP client is its peer's place.*)
(***************************************************************************)
RollBar == [i \in 1..lastId |-> CHOOSE p \in Peers : client[p] = i]
AskedBar == {p \in Peers : wrote[p] = "RemoteNnHello"}
RefusedBar == {p \in Peers : stream[p] = "closed" /\ client[p] = 0}

Admission == INSTANCE NnAdmission WITH
  asked <- AskedBar, roll <- RollBar, refused <- RefusedBar, knows <- id

\* Service, jobs and peers together do what NnAdmission promises: whatever the
\* order in which the jobs of the pool reach the broker, each peer that said hello
\* is entered once or turned away, under an id that nobody had or will have, and a
\* peer is told no id but its own.
ImplementsAdmission == Admission!Spec

-----------------------------------------------------------------------------
TypeOK ==
  /\ broker \in {"running", "exited"}
  /\ service \in {"accept", "request", "panicked"}
  /\ serving \in Peers \cup {None}
  /\ backlog \in Seq(Peers)
  /\ stream \in [Peers -> {"none", "backlog", "service", "job", "attached", "worker", "closed"}]
  /\ wrote \in [Peers -> {"nothing", "size"} \cup RequestKinds]
  /\ told \in [Peers -> Packets]
  /\ client \in [Peers -> Nat]
  /\ lastId \in Nat
  /\ peer \in [Peers -> {"out", "hello", "request", "accept", "connected", "failed", "gone"}]
  /\ id \in [Peers -> Nat]

\* A peer that waits for an answer is owed one by whoever owns the server's end
\* of its stream, and the owner is still there to give it or has closed it.
SomebodyOwes ==
  \A p \in Peers : peer[p] \in {"hello", "accept"} =>
    \/ stream[p] = "backlog" /\ service # "panicked" /\ \E i \in DOMAIN backlog : backlog[i] = p
    \/ stream[p] = "service" /\ service = "request" /\ serving = p
    \/ stream[p] = "job" /\ wrote[p] = "RemoteNnHello"
    \/ stream[p] = "attached" /\ client[p] # 0
    \/ stream[p] = "worker" /\ told[p].name = "RemoteNNAccepted"
    \/ stream[p] = "closed"

\* A peer is left without an answer for good only if a peer that does not write
\* its request holds the accept loop, or the blocking pool is full.
WaitsOnlyFor ==
  \A p \in Peers :
    <>[](peer[p] \in {"hello", "accept"})
      => <>[](serving \in Peers \ Prompt \/ PoolFull)

\* "panics if port is already used" is all that the documentation of run_service
\* says of panics: once bound, the service stays.
ServiceStays == service # "panicked"
=============================================================================
