------------------------- MODULE NnHandshakeProofs -------------------------
(***************************************************************************)
(* Theorems about NnHandshake, for any peers, requests and pool.           *)
(***************************************************************************)
EXTENDS NnHandshake, TLAPS

Streams == {"none", "backlog", "service", "job", "attached", "worker", "closed"}

(***************************************************************************)
(* A peer is owed an answer because the server's end of its stream is      *)
(* where the server has it; so the invariant ties each owner of a stream   *)
(* to the owner's own state.                                               *)
(***************************************************************************)

\* The backlog holds each connection that waits in it once, and nothing else.
BacklogOwns ==
  /\ \A i \in DOMAIN backlog : stream[backlog[i]] = "backlog"
  /\ \A i, j \in DOMAIN backlog : backlog[i] = backlog[j] => i = j
  /\ \A p \in Peers : stream[p] = "backlog" => \E i \in DOMAIN backlog : backlog[i] = p

\* The accept loop holds one stream while it reads a request, and none otherwise.
ServiceOwns ==
  /\ service = "request" => serving \in Peers /\ stream[serving] = "service"
  /\ \A p \in Peers : stream[p] = "service" => service = "request" /\ serving = p
  /\ service = "panicked" => \A p \in Peers : stream[p] \notin DroppedInPanic

\* A job was asked for by a hello, what has attached has an id, and a peer is
\* told that it was accepted only after that, with that id.
JobsOwn ==
  \A p \in Peers :
    /\ stream[p] = "job" => wrote[p] = "RemoteNnHello"
    /\ stream[p] \in {"attached", "worker"} => client[p] # 0
    /\ stream[p] = "worker" => told[p].name = "RemoteNNAccepted"
    /\ client[p] # 0 => stream[p] \in {"attached", "worker", "closed"}
    /\ told[p].name = "RemoteNNAccepted" => client[p] # 0 /\ told[p].client_id = client[p]

\* A peer outside the handshake has no stream, one inside it has.
PeersOwn ==
  \A p \in Peers :
    /\ peer[p] = "out" => stream[p] = "none"
    /\ peer[p] \in {"hello", "request", "accept", "connected"} => stream[p] # "none"

\* Ids are given out once, and a peer that is connected has its worker's.
IdsFresh ==
  /\ \A p \in Peers : client[p] <= lastId
  /\ \A p, q \in Peers : client[p] = client[q] /\ p # q => client[p] = 0
  /\ \A p \in Peers : peer[p] = "connected" => id[p] = client[p] /\ id[p] # 0

HandInv == TypeOK /\ BacklogOwns /\ ServiceOwns /\ JobsOwn /\ PeersOwn /\ IdsFresh

-----------------------------------------------------------------------------
LEMMA InitInv == Init => HandInv
<1> SUFFICES ASSUME Init PROVE HandInv
  OBVIOUS
<1>1. TypeOK BY DEF Init, TypeOK, Packets, Nothing
<1>2. BacklogOwns /\ ServiceOwns BY DEF Init, BacklogOwns, ServiceOwns, DroppedInPanic
<1>3. JobsOwn /\ PeersOwn /\ IdsFresh BY DEF Init, JobsOwn, PeersOwn, IdsFresh, Nothing
<1> QED BY <1>1, <1>2, <1>3 DEF HandInv

-----------------------------------------------------------------------------
(* The peer *)

LEMMA ConnectStep ==
  ASSUME HandInv, NEW p \in Peers, PeerConnect(p)
  PROVE  HandInv'
<1>1. /\ UNCHANGED <<broker, service, serving, told, client, lastId, wrote, id>>
      /\ peer[p] = "out" /\ stream[p] = "none"
  BY DEF PeerConnect, HandInv, PeersOwn
<1>2. /\ backlog \in Seq(Peers) /\ stream \in [Peers -> Streams]
      /\ peer \in [Peers -> {"out", "hello", "request", "accept", "connected", "failed", "gone"}]
  BY DEF HandInv, TypeOK, Streams
<1>3. CASE service = "panicked"
  <2>1. peer' = [peer EXCEPT ![p] = "failed"] /\ UNCHANGED <<backlog, stream>>
    BY <1>3 DEF PeerConnect
  <2>2. TypeOK' BY <1>1, <2>1 DEF HandInv, TypeOK
  <2>3. BacklogOwns' /\ ServiceOwns' /\ JobsOwn'
    BY <1>1, <2>1 DEF HandInv, BacklogOwns, ServiceOwns, JobsOwn
  <2>4. PeersOwn' /\ IdsFresh' BY <1>1, <1>2, <2>1 DEF HandInv, PeersOwn, IdsFresh
  <2> QED BY <2>2, <2>3, <2>4 DEF HandInv
<1>4. CASE service # "panicked"
  <2>1. /\ peer' = [peer EXCEPT ![p] = "hello"]
        /\ backlog' = Append(backlog, p)
        /\ stream' = [stream EXCEPT ![p] = "backlog"]
    BY <1>4 DEF PeerConnect
  <2>2. /\ stream' \in [Peers -> Streams] /\ stream'[p] = "backlog"
        /\ \A q \in Peers \ {p} : stream'[q] = stream[q] /\ peer'[q] = peer[q]
        /\ peer'[p] = "hello"
    BY <1>2, <2>1 DEF Streams
  <2>3. /\ backlog' \in Seq(Peers) /\ Len(backlog) \in Nat
        /\ DOMAIN backlog = 1..Len(backlog) /\ DOMAIN backlog' = 1..(Len(backlog) + 1)
        /\ \A i \in DOMAIN backlog : backlog'[i] = backlog[i] /\ backlog[i] \in Peers
        /\ backlog'[Len(backlog) + 1] = p
    BY <1>2, <2>1
  <2>4. TypeOK' BY <1>1, <1>2, <2>1, <2>2, <2>3 DEF HandInv, TypeOK, Streams
  <2>5. BacklogOwns'
    <3>1. \A i \in DOMAIN backlog : backlog[i] # p /\ stream[backlog[i]] = "backlog"
      BY <1>1 DEF HandInv, BacklogOwns
    <3>2. \A i \in DOMAIN backlog' : i \in DOMAIN backlog \/ i = Len(backlog) + 1 BY <2>3
    <3>3. \A i \in DOMAIN backlog' : stream'[backlog'[i]] = "backlog" BY <2>2, <2>3, <3>1, <3>2
    <3>4. \A i, j \in DOMAIN backlog' : backlog'[i] = backlog'[j] => i = j
      BY <2>3, <3>1, <3>2 DEF HandInv, BacklogOwns
    <3>5. \A q \in Peers : stream'[q] = "backlog" => \E i \in DOMAIN backlog' : backlog'[i] = q
      <4> SUFFICES ASSUME NEW q \in Peers, stream'[q] = "backlog"
                   PROVE  \E i \in DOMAIN backlog' : backlog'[i] = q
        OBVIOUS
      <4>1. CASE q = p
        <5>1. Len(backlog) + 1 \in DOMAIN backlog' BY <2>3
        <5> QED BY <2>3, <4>1, <5>1
      <4>2. CASE q # p
        <5>1. \E i \in DOMAIN backlog : backlog[i] = q BY <2>2, <4>2 DEF HandInv, BacklogOwns
        <5> QED BY <2>3, <5>1
      <4> QED BY <4>1, <4>2
    <3> QED BY <3>3, <3>4, <3>5 DEF BacklogOwns
  <2>6. ServiceOwns' BY <1>1, <1>4, <2>2 DEF HandInv, ServiceOwns
  <2>7. JobsOwn' BY <1>1, <2>2 DEF HandInv, JobsOwn
  <2>8. PeersOwn' /\ IdsFresh' BY <1>1, <2>2 DEF HandInv, PeersOwn, IdsFresh
  <2> QED BY <2>4, <2>5, <2>6, <2>7, <2>8 DEF HandInv
<1> QED BY <1>3, <1>4

Inside == {"hello", "request", "accept", "connected"}

\* A peer that has connected moves in its own state only; it must not take back
\* its request, nor take itself for connected without the id of its worker.
LEMMA PeerMoves ==
  ASSUME HandInv, TypeOK', UNCHANGED <<broker, serverVars, lastId>>,
         \A q \in Peers : stream[q] = "job" => wrote'[q] = "RemoteNnHello",
         \A q \in Peers : peer'[q] # peer[q] => peer[q] \in Inside /\ peer'[q] # "out",
         \A q \in Peers : peer'[q] = "connected" => id'[q] = client[q] /\ id'[q] # 0
  PROVE  HandInv'
<1> USE DEF serverVars
<1>1. BacklogOwns' /\ ServiceOwns' BY DEF HandInv, BacklogOwns, ServiceOwns
<1>2. JobsOwn' BY DEF HandInv, JobsOwn
<1>3. PeersOwn' BY DEF HandInv, PeersOwn, Inside
<1>4. IdsFresh' BY DEF HandInv, IdsFresh
<1> QED BY <1>1, <1>2, <1>3, <1>4 DEF HandInv

LEMMA PeerStep ==
  ASSUME HandInv, NEW p \in Peers, PeerReads(p) \/ PeerWrites(p) \/ PeerDies(p)
  PROVE  HandInv'
<1>1. /\ peer \in [Peers -> {"out", "hello", "request", "accept", "connected", "failed", "gone"}]
      /\ wrote \in [Peers -> {"nothing", "size"} \cup RequestKinds]
      /\ id \in [Peers -> Nat] /\ client \in [Peers -> Nat]
  BY DEF HandInv, TypeOK
<1>2. /\ \A q \in Peers : stream[q] = "job" => wrote[q] = "RemoteNnHello"
      /\ \A q \in Peers : peer[q] = "connected" => id[q] = client[q] /\ id[q] # 0
  BY DEF HandInv, JobsOwn, IdsFresh
<1>3. CASE PeerGetsAccept(p)
  <2>1. /\ UNCHANGED <<broker, serverVars, lastId, wrote>> /\ peer[p] \in Inside
        /\ peer' = [peer EXCEPT ![p] = "connected"] /\ id' = [id EXCEPT ![p] = client[p]]
        /\ client[p] # 0
    BY <1>3 DEF PeerGetsAccept, Inside, HandInv, JobsOwn
  <2>2. TypeOK' BY <2>1, <1>1 DEF HandInv, TypeOK, serverVars
  <2>3. \A q \in Peers : peer'[q] # peer[q] => peer[q] \in Inside /\ peer'[q] # "out"
    BY <1>1, <2>1
  <2>4. \A q \in Peers : peer'[q] = "connected" => id'[q] = client[q] /\ id'[q] # 0
    BY <1>1, <1>2, <2>1
  <2> QED BY <1>2, <2>1, <2>2, <2>3, <2>4, PeerMoves
<1>4. CASE PeerGetsHello(p) \/ PeerFails(p) \/ PeerDies(p)
  <2>1. PICK state \in {"request", "failed", "gone"} :
          /\ UNCHANGED <<broker, serverVars, lastId, wrote, id>> /\ peer[p] \in Inside
          /\ peer' = [peer EXCEPT ![p] = state]
    BY <1>4 DEF PeerGetsHello, PeerFails, PeerDies, Inside
  <2>2. TypeOK' BY <2>1, <1>1 DEF HandInv, TypeOK, serverVars
  <2>3. \A q \in Peers : /\ peer'[q] # peer[q] => peer[q] \in Inside /\ peer'[q] # "out"
                         /\ peer'[q] = "connected" => peer[q] = "connected"
    BY <1>1, <2>1
  <2> QED BY <1>2, <2>1, <2>2, <2>3, PeerMoves
<1>5. CASE PeerWritesSize(p) \/ PeerWritesBody(p)
  <2>1. PICK w \in {"size"} \cup RequestKinds, state \in {"request", "accept"} :
          /\ UNCHANGED <<broker, serverVars, lastId, id>> /\ peer[p] = "request"
          /\ wrote[p] \in {"nothing", "size"} /\ wrote' = [wrote EXCEPT ![p] = w]
          /\ peer' = [peer EXCEPT ![p] = state]
    <3>1. CASE PeerWritesSize(p)
      <4>1. peer' = [peer EXCEPT ![p] = "request"] BY <1>1, <3>1 DEF PeerWritesSize
      <4> QED BY <3>1, <4>1 DEF PeerWritesSize
    <3>2. CASE PeerWritesBody(p) BY <3>2, RequestsKnown DEF PeerWritesBody
    <3> QED BY <1>5, <3>1, <3>2
  <2>2. TypeOK' BY <2>1, <1>1 DEF HandInv, TypeOK, serverVars
  <2>3. \A q \in Peers : /\ peer'[q] # peer[q] => peer[q] \in Inside /\ peer'[q] # "out"
                         /\ peer'[q] = "connected" => peer[q] = "connected"
    BY <1>1, <2>1 DEF Inside
  <2>4. \A q \in Peers : stream[q] = "job" => wrote'[q] = "RemoteNnHello"
    BY <1>1, <1>2, <2>1
  <2> QED BY <1>2, <2>1, <2>2, <2>3, <2>4, PeerMoves
<1> QED BY <1>3, <1>4, <1>5 DEF PeerReads, PeerWrites

-----------------------------------------------------------------------------
(* The accept loop *)

\* The first connection of the backlog goes to the loop, or is closed.
LEMMA AcceptStep ==
  ASSUME HandInv, ServiceAccept
  PROVE  HandInv'
<1> DEFINE p == Head(backlog)
<1>1. /\ service = "accept" /\ backlog # <<>> /\ backlog' = Tail(backlog)
      /\ UNCHANGED <<broker, client, lastId, peerVars>>
      /\ \/ /\ told' = [told EXCEPT ![p] = Hello]
            /\ stream' = [stream EXCEPT ![p] = "service"]
            /\ serving' = p /\ service' = "request"
         \/ /\ stream' = [stream EXCEPT ![p] = "closed"]
            /\ UNCHANGED <<told, serving, service>>
  BY DEF ServiceAccept
<1>2. /\ backlog \in Seq(Peers) /\ stream \in [Peers -> Streams] /\ service' \in {"accept", "request"}
      /\ told \in [Peers -> Packets]
  BY <1>1 DEF HandInv, TypeOK, Streams
<1>3. /\ p = backlog[1] /\ 1 \in DOMAIN backlog /\ p \in Peers
      /\ Tail(backlog) \in Seq(Peers) /\ Len(backlog) \in Nat
      /\ DOMAIN backlog = 1..Len(backlog) /\ DOMAIN Tail(backlog) = 1..(Len(backlog) - 1)
      /\ \A i \in DOMAIN Tail(backlog) : Tail(backlog)[i] = backlog[i + 1] /\ backlog[i + 1] \in Peers
  BY <1>1, <1>2
<1>4. stream[p] = "backlog" BY <1>3 DEF HandInv, BacklogOwns
<1> HIDE DEF p
<1>5. /\ stream' \in [Peers -> Streams] /\ stream'[p] \in {"service", "closed"}
      /\ \A q \in Peers \ {p} : stream'[q] = stream[q] /\ told'[q] = told[q]
      /\ told' \in [Peers -> Packets]
      /\ told'[p] \in {Hello, told[p]}
      /\ stream'[p] = "service" => service' = "request" /\ serving' = p
      /\ service' = "request" => serving' = p /\ stream'[p] = "service"
  <2>1. Hello \in Packets BY DEF Hello, Packets
  <2> QED BY <1>1, <1>2, <1>3, <2>1 DEF Streams
<1>6. TypeOK' BY <1>1, <1>2, <1>3, <1>5 DEF HandInv, TypeOK, peerVars, Streams
<1>7. BacklogOwns'
  <2>1. \A i, j \in DOMAIN backlog : backlog[i] = backlog[j] => i = j BY DEF HandInv, BacklogOwns
  <2>2. \A i \in DOMAIN backlog' :
          i + 1 \in DOMAIN backlog /\ i + 1 # 1 /\ backlog'[i] = backlog[i + 1] /\ backlog'[i] \in Peers
    BY <1>1, <1>3
  <2>3. \A i \in DOMAIN backlog' : backlog'[i] # p BY <1>3, <2>1, <2>2
  <2>4. \A i \in DOMAIN backlog' : stream'[backlog'[i]] = "backlog"
    BY <1>5, <2>2, <2>3 DEF HandInv, BacklogOwns
  <2>5. \A i, j \in DOMAIN backlog' : backlog'[i] = backlog'[j] => i = j
    <3> TAKE i, j \in DOMAIN backlog'
    <3>1. backlog'[i] = backlog'[j] => i + 1 = j + 1 BY <2>1, <2>2
    <3>2. i \in Nat /\ j \in Nat BY <1>1, <1>3
    <3> QED BY <3>1, <3>2
  <2>6. \A q \in Peers : stream'[q] = "backlog" => \E i \in DOMAIN backlog' : backlog'[i] = q
    <3> SUFFICES ASSUME NEW q \in Peers, stream'[q] = "backlog"
                 PROVE  \E i \in DOMAIN backlog' : backlog'[i] = q
      OBVIOUS
    <3>1. q # p /\ stream[q] = "backlog" BY <1>5
    <3>2. PICK k \in DOMAIN backlog : backlog[k] = q BY <3>1 DEF HandInv, BacklogOwns
    <3>3. k - 1 \in DOMAIN Tail(backlog) /\ (k - 1) + 1 = k BY <1>3, <3>1, <3>2
    <3>4. Tail(backlog)[k - 1] = q BY <1>3, <3>2, <3>3
    <3> QED BY <1>1, <3>3, <3>4
  <2> QED BY <2>4, <2>5, <2>6 DEF BacklogOwns
<1>8. ServiceOwns'
  <2>1. \A q \in Peers : stream[q] # "service" BY <1>1 DEF HandInv, ServiceOwns
  <2> QED BY <1>2, <1>3, <1>5, <2>1 DEF ServiceOwns
<1>9. JobsOwn'
  <2>1. client[p] = 0 /\ told[p].name # "RemoteNNAccepted" BY <1>3, <1>4 DEF HandInv, JobsOwn
  <2>2. UNCHANGED <<client, wrote>> BY <1>1 DEF peerVars
  <2>3. /\ stream'[p] \in {"service", "closed"} /\ client'[p] = 0
        /\ told'[p].name # "RemoteNNAccepted"
    BY <1>5, <2>1, <2>2 DEF Hello
  <2>4. \A q \in Peers \ {p} : stream'[q] = stream[q] /\ told'[q] = told[q] BY <1>5
  <2> QED BY <2>2, <2>3, <2>4 DEF HandInv, JobsOwn
<1>10. PeersOwn' BY <1>1, <1>3, <1>4, <1>5 DEF HandInv, PeersOwn, peerVars
<1>11. IdsFresh' BY <1>1 DEF HandInv, IdsFresh, peerVars
<1> QED BY <1>6, <1>7, <1>8, <1>9, <1>10, <1>11 DEF HandInv

\* A request that could be read leaves the stream to a job or to nobody.
LEMMA RequestStep ==
  ASSUME HandInv, ServiceRequestFails \/ ServiceRequestIllegal \/ ServiceRemoteNnHello
  PROVE  HandInv'
<1>1. PICK owner \in {"job", "closed"} :
        /\ service = "request"
        /\ owner = "job" => wrote[serving] = "RemoteNnHello"
        /\ stream' = [stream EXCEPT ![serving] = owner]
        /\ serving' = None /\ service' = "accept"
        /\ UNCHANGED <<broker, backlog, told, client, lastId, peerVars>>
  BY DEF ServiceRequestFails, ServiceRequestIllegal, ServiceRemoteNnHello, ServiceContinues, Refused
<1>2. serving \in Peers /\ stream[serving] = "service" /\ stream \in [Peers -> Streams]
  BY <1>1 DEF HandInv, ServiceOwns, TypeOK, Streams
<1>3. /\ stream' \in [Peers -> Streams] /\ stream'[serving] = owner
      /\ \A q \in Peers \ {serving} : stream'[q] = stream[q]
  BY <1>1, <1>2 DEF Streams
<1>4. TypeOK' BY <1>1, <1>3 DEF HandInv, TypeOK, peerVars, Streams
<1>5. BacklogOwns'
  <2>1. \A i \in DOMAIN backlog : backlog[i] \in Peers BY DEF HandInv, TypeOK
  <2> QED BY <1>1, <1>2, <1>3, <2>1 DEF HandInv, BacklogOwns
<1>6. ServiceOwns' BY <1>1, <1>2, <1>3 DEF HandInv, ServiceOwns
<1>7. JobsOwn' BY <1>1, <1>2, <1>3 DEF HandInv, JobsOwn, peerVars
<1>8. PeersOwn' BY <1>1, <1>2, <1>3 DEF HandInv, PeersOwn, peerVars
<1>9. IdsFresh' BY <1>1 DEF HandInv, IdsFresh, peerVars
<1> QED BY <1>4, <1>5, <1>6, <1>7, <1>8, <1>9 DEF HandInv

\* A panic closes everything the loop's task owns, and jobs, but nothing else.
LEMMA PanicCloses ==
  ASSUME HandInv, ServiceRequestCut \/ ServiceLocalHello
  PROVE  /\ service' = "panicked" /\ serving' = None /\ backlog' = <<>>
         /\ UNCHANGED <<broker, told, client, lastId, peerVars>>
         /\ stream' \in [Peers -> Streams]
         /\ \A p \in Peers : /\ stream[p] \in DroppedInPanic => stream'[p] = "closed"
                             /\ \/ stream'[p] = stream[p]
                                \/ /\ stream[p] \in DroppedInPanic \cup {"job"}
                                   /\ stream'[p] = "closed"
<1>1. PICK jobs \in SUBSET {p \in Peers : stream[p] = "job"} :
        stream' = [p \in Peers |-> IF stream[p] \in DroppedInPanic \/ p \in jobs
                                   THEN "closed" ELSE stream[p]]
  BY DEF ServiceRequestCut, ServiceLocalHello, ServicePanics
<1>2. stream \in [Peers -> Streams] BY DEF HandInv, TypeOK, Streams
<1>3. /\ service' = "panicked" /\ serving' = None /\ backlog' = <<>>
      /\ UNCHANGED <<broker, told, client, lastId, peerVars>>
  BY DEF ServiceRequestCut, ServiceLocalHello, ServicePanics
<1>4. \A p \in jobs : stream[p] = "job" BY <1>1
<1>5. stream' \in [Peers -> Streams] BY <1>1, <1>2 DEF Streams
<1> QED BY <1>1, <1>3, <1>4, <1>5

LEMMA PanicStep ==
  ASSUME HandInv, ServiceRequestCut \/ ServiceLocalHello
  PROVE  HandInv'
<1>1. /\ service' = "panicked" /\ serving' = None /\ backlog' = <<>>
      /\ UNCHANGED <<broker, told, client, lastId, peerVars>>
      /\ stream' \in [Peers -> Streams]
  BY PanicCloses
<1>2. \A p \in Peers : /\ stream[p] \in DroppedInPanic => stream'[p] = "closed"
                       /\ \/ stream'[p] = stream[p]
                          \/ stream[p] \in DroppedInPanic \cup {"job"} /\ stream'[p] = "closed"
  BY PanicCloses
<1>3. TypeOK' BY <1>1 DEF HandInv, TypeOK, peerVars, Streams
<1>4. BacklogOwns' /\ ServiceOwns' BY <1>1, <1>2 DEF BacklogOwns, ServiceOwns, DroppedInPanic
<1>5. JobsOwn' BY <1>1, <1>2 DEF HandInv, JobsOwn, DroppedInPanic, peerVars
<1>6. PeersOwn' BY <1>1, <1>2 DEF HandInv, PeersOwn, DroppedInPanic, peerVars
<1>7. IdsFresh' BY <1>1 DEF HandInv, IdsFresh, peerVars
<1> QED BY <1>3, <1>4, <1>5, <1>6, <1>7 DEF HandInv

-----------------------------------------------------------------------------
(* Jobs and workers *)

\* An id that was not given out before makes the job a worker of its own.
LEMMA AttachStep ==
  ASSUME HandInv, NEW p \in Peers, JobAttaches(p)
  PROVE  HandInv'
<1>1. /\ UNCHANGED <<broker, service, serving, backlog, told, peerVars>>
      /\ stream[p] = "job"
      /\ \/ /\ lastId' = lastId + 1 /\ client' = [client EXCEPT ![p] = lastId + 1]
            /\ stream' = [stream EXCEPT ![p] = "attached"]
         \/ stream' = [stream EXCEPT ![p] = "closed"] /\ UNCHANGED <<lastId, client>>
  BY DEF JobAttaches, NextId
<1>2. stream \in [Peers -> Streams] /\ client \in [Peers -> Nat] /\ lastId \in Nat
  BY DEF HandInv, TypeOK, Streams
<1>3. client[p] = 0 BY <1>1 DEF HandInv, JobsOwn
<1>4. /\ stream' \in [Peers -> Streams] /\ client' \in [Peers -> Nat] /\ lastId' \in Nat
      /\ lastId <= lastId'
      /\ \A q \in Peers \ {p} : stream'[q] = stream[q] /\ client'[q] = client[q]
      /\ \/ stream'[p] = "attached" /\ client'[p] = lastId + 1 /\ lastId' = lastId + 1
         \/ stream'[p] = "closed" /\ client'[p] = 0
  BY <1>1, <1>2, <1>3 DEF Streams
<1>5. TypeOK' BY <1>1, <1>4 DEF HandInv, TypeOK, peerVars, Streams
<1>6. BacklogOwns'
  <2>1. \A i \in DOMAIN backlog : backlog[i] \in Peers BY DEF HandInv, TypeOK
  <2> QED BY <1>1, <1>4, <2>1 DEF HandInv, BacklogOwns
<1>7. ServiceOwns' BY <1>1, <1>4 DEF HandInv, ServiceOwns, DroppedInPanic
<1>8. JobsOwn'
  <2>1. told[p].name # "RemoteNNAccepted" BY <1>3 DEF HandInv, JobsOwn
  <2>2. UNCHANGED <<told, wrote>> BY <1>1 DEF peerVars
  <2>3. stream'[p] = "attached" => client'[p] # 0 BY <1>2, <1>4
  <2>4. stream'[p] \in {"attached", "closed"} /\ (stream'[p] = "closed" => client'[p] = 0)
    BY <1>4
  <2>5. \A q \in Peers \ {p} : stream'[q] = stream[q] /\ client'[q] = client[q] BY <1>4
  <2> QED BY <2>1, <2>2, <2>3, <2>4, <2>5 DEF HandInv, JobsOwn
<1>9. PeersOwn'
  <2>1. peer' = peer /\ peer[p] # "out" BY <1>1 DEF HandInv, PeersOwn, peerVars
  <2> QED BY <1>4, <2>1 DEF HandInv, PeersOwn
<1>10. IdsFresh'
  <2>1. \A q \in Peers : client[q] \in Nat /\ client[q] <= lastId BY <1>2 DEF HandInv, IdsFresh
  <2>2. \A q \in Peers : client'[q] <= lastId' BY <1>2, <1>4, <2>1
  <2>3. \A q \in Peers \ {p} : client'[q] # client'[p] \/ client'[p] = 0 BY <1>2, <1>4, <2>1
  <2>4. \A q, r \in Peers : client'[q] = client'[r] /\ q # r => client'[q] = 0
    BY <1>4, <2>3 DEF HandInv, IdsFresh
  <2>5. UNCHANGED <<peer, id>> /\ peer[p] # "connected"
    BY <1>1, <1>3 DEF HandInv, IdsFresh, peerVars
  <2>6. \A q \in Peers : peer'[q] = "connected" => id'[q] = client'[q] /\ id'[q] # 0
    BY <1>4, <2>5 DEF HandInv, IdsFresh
  <2> QED BY <2>2, <2>4, <2>6 DEF IdsFresh
<1> QED BY <1>5, <1>6, <1>7, <1>8, <1>9, <1>10 DEF HandInv

LEMMA WorkerStep ==
  ASSUME HandInv, NEW p \in Peers, JobAccepts(p) \/ WorkerEnds(p)
  PROVE  HandInv'
<1>1. /\ UNCHANGED <<broker, service, serving, backlog, client, lastId, peerVars>>
      /\ stream[p] \in {"attached", "worker"}
      /\ \/ /\ told' = [told EXCEPT ![p] = AcceptPacket(p)]
            /\ stream' = [stream EXCEPT ![p] = "worker"]
         \/ stream' = [stream EXCEPT ![p] = "closed"] /\ UNCHANGED told
  BY DEF JobAccepts, WorkerEnds
<1>2. /\ stream \in [Peers -> Streams]
      /\ told \in [Peers -> Packets]
  BY DEF HandInv, TypeOK, Streams
<1>3. client[p] # 0 /\ client[p] \in Nat BY <1>1 DEF HandInv, JobsOwn, TypeOK
<1>4. /\ stream' \in [Peers -> Streams] /\ stream'[p] \in {"worker", "closed"}
      /\ told' \in [Peers -> Packets]
      /\ stream'[p] = "worker" => told'[p].name = "RemoteNNAccepted"
      /\ told'[p] = told[p] \/ told'[p].client_id = client[p]
      /\ \A q \in Peers \ {p} : stream'[q] = stream[q] /\ told'[q] = told[q]
  <2>1. /\ AcceptPacket(p) \in Packets /\ AcceptPacket(p).name = "RemoteNNAccepted"
        /\ AcceptPacket(p).client_id = client[p]
    BY <1>3 DEF AcceptPacket, Packets
  <2> QED BY <1>1, <1>2, <2>1 DEF Streams
<1>5. TypeOK' BY <1>1, <1>4 DEF HandInv, TypeOK, peerVars, Streams
<1>6. BacklogOwns'
  <2>1. \A i \in DOMAIN backlog : backlog[i] \in Peers BY DEF HandInv, TypeOK
  <2> QED BY <1>1, <1>4, <2>1 DEF HandInv, BacklogOwns
<1>7. ServiceOwns' BY <1>1, <1>4 DEF HandInv, ServiceOwns, DroppedInPanic
<1>8. JobsOwn'
  <2>1. UNCHANGED <<client, wrote>> BY <1>1 DEF peerVars
  <2> QED BY <1>3, <1>4, <2>1 DEF HandInv, JobsOwn
<1>9. PeersOwn'
  <2>1. peer' = peer /\ peer[p] # "out" BY <1>1 DEF HandInv, PeersOwn, peerVars
  <2> QED BY <1>4, <2>1 DEF HandInv, PeersOwn
<1>10. IdsFresh' BY <1>1 DEF HandInv, IdsFresh, peerVars
<1> QED BY <1>5, <1>6, <1>7, <1>8, <1>9, <1>10 DEF HandInv

-----------------------------------------------------------------------------
(* The invariant *)

LEMMA NextInv == HandInv /\ [Next]_vars => HandInv'
<1> SUFFICES ASSUME HandInv, [Next]_vars PROVE HandInv'
  OBVIOUS
<1>1. CASE Service BY <1>1, AcceptStep, RequestStep, PanicStep DEF Service
<1>2. CASE \E p \in Peers : Job(p) \/ WorkerEnds(p) BY <1>2, AttachStep, WorkerStep DEF Job
<1>3. CASE \E p \in Peers : PeerConnect(p) \/ PeerReads(p) \/ PeerWrites(p) \/ PeerDies(p)
  BY <1>3, ConnectStep, PeerStep
<1>4. CASE BrokerExits \/ UNCHANGED vars
  <2>1. broker' \in {"running", "exited"} /\ UNCHANGED <<serverVars, lastId, peerVars>>
    BY <1>4 DEF BrokerExits, vars, HandInv, TypeOK
  <2> QED BY <2>1
    DEF HandInv, TypeOK, BacklogOwns, ServiceOwns, JobsOwn, PeersOwn, IdsFresh, serverVars, peerVars
<1> QED BY <1>1, <1>2, <1>3, <1>4 DEF Next

THEOREM HandInvariant == Spec => []HandInv
<1> QED BY InitInv, NextInv, PTL DEF Spec

\* Every variable keeps its type: what is written to a peer is a packet it knows.
THEOREM TypeCorrect == Spec => []TypeOK
<1>1. HandInv => TypeOK BY DEF HandInv
<1> QED BY <1>1, HandInvariant, PTL

\* No peer waits for an answer that nobody is going to give: the server's end of
\* its stream is with one who will, or closed.
THEOREM SomebodyOwesAlways == Spec => []SomebodyOwes
<1>1. HandInv => SomebodyOwes
  <2> SUFFICES ASSUME HandInv, NEW p \in Peers, peer[p] \in {"hello", "accept"}
               PROVE  \/ /\ stream[p] = "backlog" /\ service # "panicked"
                         /\ \E i \in DOMAIN backlog : backlog[i] = p
                      \/ stream[p] = "service" /\ service = "request" /\ serving = p
                      \/ stream[p] = "job" /\ wrote[p] = "RemoteNnHello"
                      \/ stream[p] = "attached" /\ client[p] # 0
                      \/ stream[p] = "worker" /\ told[p].name = "RemoteNNAccepted"
                      \/ stream[p] = "closed"
    BY DEF SomebodyOwes
  <2>1. stream[p] \in Streams \ {"none"} BY DEF HandInv, TypeOK, PeersOwn, Streams
  <2>2. stream[p] = "backlog" => service # "panicked"
    BY DEF HandInv, ServiceOwns, DroppedInPanic
  <2> QED BY <2>1, <2>2 DEF HandInv, BacklogOwns, ServiceOwns, JobsOwn, Streams
<1> QED BY <1>1, HandInvariant, PTL
-----------------------------------------------------------------------------
(***************************************************************************)
(* The roll.  Beyond HandInv the mapping needs that every id given out is  *)
(* somebody's, so that the roll has no empty places, and that a peer which *)
(* is still in the handshake has not been told an id before.               *)
(***************************************************************************)

Holds(p, i) == p \in Peers /\ client[p] = i
RollFull == \A i \in 1..lastId : \E p \in Peers : Holds(p, i)
NotToldYet ==
  \A p \in Peers : peer[p] \in {"out", "hello", "request", "accept"} => id[p] = 0

RollInv == HandInv /\ RollFull /\ NotToldYet

\* The place of a peer on the roll is its id.
PlacesAreIds ==
  /\ lastId \in Nat /\ RollBar \in Seq(Peers) /\ Len(RollBar) = lastId
  /\ \A i \in 1..lastId : Holds(RollBar[i], i)
  /\ \A p \in Peers : client[p] \in Nat /\ client[p] <= lastId
  /\ \A p \in Peers : client[p] # 0 => RollBar[client[p]] = p

LEMMA RollPlaces == RollInv => PlacesAreIds
<1> SUFFICES ASSUME RollInv PROVE PlacesAreIds
  OBVIOUS
<1>1. lastId \in Nat /\ client \in [Peers -> Nat] /\ \A p \in Peers : client[p] <= lastId
  BY DEF RollInv, HandInv, TypeOK, IdsFresh
<1>2. \A i \in 1..lastId : Holds(RollBar[i], i)
  <2> SUFFICES ASSUME NEW i \in 1..lastId PROVE Holds(RollBar[i], i)
    OBVIOUS
  <2>1. \E p \in Peers : client[p] = i BY DEF RollInv, RollFull, Holds
  <2>2. RollBar[i] = CHOOSE p \in Peers : client[p] = i BY DEF RollBar
  <2> QED BY <2>1, <2>2 DEF Holds
<1>3. RollBar \in Seq(Peers) /\ Len(RollBar) = lastId
  <2>1. RollBar \in [1..lastId -> Peers] BY <1>2 DEF RollBar, Holds
  <2> QED BY <1>1, <2>1
<1>4. \A p \in Peers : client[p] # 0 => RollBar[client[p]] = p
  <2> SUFFICES ASSUME NEW p \in Peers, client[p] # 0 PROVE RollBar[client[p]] = p
    OBVIOUS
  <2>1. client[p] \in 1..lastId BY <1>1
  <2>2. Holds(RollBar[client[p]], client[p]) BY <1>2, <2>1
  <2> QED BY <2>1, <2>2 DEF Holds, RollInv, HandInv, IdsFresh
<1> QED BY <1>1, <1>2, <1>3, <1>4 DEF PlacesAreIds

\* Who is on the roll.
LEMMA RollMembers ==
  ASSUME RollInv
  PROVE  Admission!Enrolled = {p \in Peers : client[p] # 0}
<1>1. DOMAIN RollBar = 1..lastId BY DEF RollBar
<1>2. \A p \in Peers : client[p] # 0 => client[p] \in 1..lastId /\ RollBar[client[p]] = p
  BY RollPlaces DEF PlacesAreIds
<1>3. \A i \in 1..lastId : RollBar[i] \in Peers /\ client[RollBar[i]] # 0
  BY RollPlaces DEF PlacesAreIds, Holds
<1> QED BY <1>1, <1>2, <1>3 DEF Admission!Enrolled

LEMMA RollKept == UNCHANGED <<client, lastId>> => UNCHANGED RollBar
BY DEF RollBar

\* The place that a job takes is the one after the last.
LEMMA RollAppends ==
  ASSUME RollInv, RollInv', NEW p \in Peers, client[p] = 0,
         lastId' = lastId + 1, client' = [client EXCEPT ![p] = lastId + 1]
  PROVE  RollBar' = Append(RollBar, p)
<1>1. /\ lastId \in Nat /\ RollBar \in Seq(Peers) /\ Len(RollBar) = lastId
      /\ \A i \in 1..lastId : Holds(RollBar[i], i)
  BY RollPlaces DEF PlacesAreIds
<1>2. /\ RollBar' \in Seq(Peers) /\ Len(RollBar') = lastId + 1
      /\ \A q \in Peers : client'[q] # 0 => RollBar'[client'[q]] = q
  <2>1. PlacesAreIds' BY RollPlaces, PTL
  <2> QED BY <2>1 DEF PlacesAreIds
<1>3. client \in [Peers -> Nat] BY DEF RollInv, HandInv, TypeOK
<1>4. RollBar'[lastId + 1] = p BY <1>1, <1>2, <1>3
<1>5. \A i \in 1..lastId : RollBar'[i] = RollBar[i]
  <2> SUFFICES ASSUME NEW i \in 1..lastId PROVE RollBar'[i] = RollBar[i]
    OBVIOUS
  <2>1. RollBar[i] \in Peers /\ client[RollBar[i]] = i /\ i # 0 BY <1>1 DEF Holds
  <2>2. client'[RollBar[i]] = i BY <1>3, <2>1
  <2> QED BY <1>2, <2>1, <2>2
<1> DEFINE longer == Append(RollBar, p)
<1>6. /\ longer \in Seq(Peers) /\ Len(longer) = lastId + 1 /\ longer[lastId + 1] = p
      /\ \A i \in 1..lastId : longer[i] = RollBar[i]
  BY <1>1
<1> HIDE DEF longer
<1>7. \A i \in 1..(lastId + 1) : RollBar'[i] = longer[i] BY <1>1, <1>4, <1>5, <1>6
<1>8. RollBar' = longer BY <1>1, <1>2, <1>6, <1>7
<1> QED BY <1>8 DEF longer

-----------------------------------------------------------------------------
(* The strengthened invariant *)

LEMMA InitRoll == Init => RollInv
<1> SUFFICES ASSUME Init PROVE RollInv
  OBVIOUS
<1>1. RollFull BY DEF Init, RollFull
<1>2. NotToldYet BY DEF Init, NotToldYet
<1> QED BY <1>1, <1>2, InitInv DEF RollInv

\* What leaves the ids alone leaves the roll full.
LEMMA FullKept == RollFull /\ UNCHANGED <<client, lastId>> => RollFull'
BY DEF RollFull, Holds

LEMMA ToldKept == NotToldYet /\ UNCHANGED <<peer, id>> => NotToldYet'
BY DEF NotToldYet

LEMMA FullStep ==
  ASSUME RollInv, [Next]_vars
  PROVE  RollFull'
<1>1. ASSUME NEW p \in Peers, JobAttaches(p) PROVE RollFull'
  <2>1. CASE UNCHANGED <<lastId, client>> BY <2>1, FullKept DEF RollInv
  <2>2. CASE lastId' = lastId + 1 /\ client' = [client EXCEPT ![p] = lastId + 1]
    <3>1. lastId \in Nat /\ client \in [Peers -> Nat] BY DEF RollInv, HandInv, TypeOK
    <3>2. client[p] = 0 BY <1>1 DEF JobAttaches, RollInv, HandInv, JobsOwn
    <3> SUFFICES ASSUME NEW i \in 1..(lastId + 1) PROVE \E q \in Peers : client'[q] = i
      BY <2>2 DEF RollFull, Holds
    <3>3. CASE i = lastId + 1 BY <2>2, <3>1, <3>3
    <3>4. CASE i # lastId + 1
      <4>1. i \in 1..lastId /\ i # 0 BY <3>1, <3>4
      <4>2. PICK q \in Peers : client[q] = i BY <4>1 DEF RollInv, RollFull, Holds
      <4>3. q # p BY <3>2, <4>1, <4>2
      <4> QED BY <2>2, <3>1, <4>2, <4>3
    <3> QED BY <3>3, <3>4
  <2> QED BY <1>1, <2>1, <2>2 DEF JobAttaches, NextId
<1>2. CASE Service \/ BrokerExits \/ UNCHANGED vars
  <2>1. UNCHANGED <<client, lastId>>
    BY <1>2 DEF Service, ServiceAccept, ServiceRequestFails, ServiceRequestCut,
      ServiceRequestIllegal, ServiceRemoteNnHello, ServiceLocalHello, ServiceContinues,
      ServicePanics, BrokerExits, vars, serverVars
  <2> QED BY <2>1, FullKept DEF RollInv
<1>3. ASSUME NEW p \in Peers,
             JobAccepts(p) \/ WorkerEnds(p) \/ PeerConnect(p) \/ PeerReads(p) \/ PeerWrites(p)
               \/ PeerDies(p)
      PROVE RollFull'
  <2>1. UNCHANGED <<client, lastId>>
    BY <1>3 DEF JobAccepts, WorkerEnds, PeerConnect, PeerReads, PeerGetsHello, PeerGetsAccept,
      PeerFails, PeerWrites, PeerWritesSize, PeerWritesBody, PeerDies, serverVars
  <2> QED BY <2>1, FullKept DEF RollInv
<1> QED BY <1>1, <1>2, <1>3 DEF Next, Job

LEMMA ToldStep ==
  ASSUME RollInv, [Next]_vars
  PROVE  NotToldYet'
<1>1. /\ peer \in [Peers -> {"out", "hello", "request", "accept", "connected", "failed", "gone"}]
      /\ NotToldYet
  BY DEF RollInv, HandInv, TypeOK
<1>2. ASSUME NEW p \in Peers, PeerGetsAccept(p) PROVE NotToldYet'
  <2>1. /\ peer' = [peer EXCEPT ![p] = "connected"]
        /\ \A q \in Peers \ {p} : id'[q] = id[q]
    BY <1>2 DEF PeerGetsAccept, RollInv, HandInv, TypeOK
  <2> QED BY <1>1, <2>1 DEF NotToldYet
<1>3. ASSUME NEW p \in Peers, PeerConnect(p) \/ PeerGetsHello(p) \/ PeerWritesBody(p)
      PROVE NotToldYet'
  <2>1. peer[p] \in {"out", "hello", "request"} /\ id' = id
    BY <1>3 DEF PeerConnect, PeerGetsHello, PeerWritesBody
  <2>2. \A q \in Peers \ {p} : peer'[q] = peer[q]
    BY <1>1, <1>3 DEF PeerConnect, PeerGetsHello, PeerWritesBody
  <2> QED BY <1>1, <2>1, <2>2 DEF NotToldYet
<1>4. ASSUME NEW p \in Peers, PeerFails(p) \/ PeerDies(p) PROVE NotToldYet'
  <2>1. PICK end \in {"failed", "gone"} : peer' = [peer EXCEPT ![p] = end] /\ id' = id
    BY <1>4 DEF PeerFails, PeerDies
  <2> QED BY <1>1, <2>1 DEF NotToldYet
<1>5. ASSUME NEW p \in Peers, PeerWritesSize(p) \/ Job(p) \/ WorkerEnds(p) PROVE NotToldYet'
  <2>1. UNCHANGED <<peer, id>>
    BY <1>5 DEF PeerWritesSize, Job, JobAttaches, JobAccepts, WorkerEnds, peerVars
  <2> QED BY <1>1, <2>1, ToldKept
<1>6. CASE Service \/ BrokerExits \/ UNCHANGED vars
  <2>1. UNCHANGED <<peer, id>>
    BY <1>6 DEF Service, ServiceAccept, ServiceRequestFails, ServiceRequestCut,
      ServiceRequestIllegal, ServiceRemoteNnHello, ServiceLocalHello, ServiceContinues,
      ServicePanics, BrokerExits, vars, peerVars
  <2> QED BY <1>1, <2>1, ToldKept
<1> QED BY <1>2, <1>3, <1>4, <1>5, <1>6 DEF Next, PeerReads, PeerWrites

LEMMA NextRoll == RollInv /\ [Next]_vars => RollInv'
BY NextInv, FullStep, ToldStep DEF RollInv

-----------------------------------------------------------------------------
(* Each step on the roll *)

AdmissionView == <<broker, AskedBar, RollBar, RefusedBar, id>>

\* A step that only moves streams which stay with the server, or packets.
LEMMA SameRoll ==
  ASSUME UNCHANGED <<broker, client, lastId, wrote, id>>, RefusedBar' = RefusedBar
  PROVE  UNCHANGED AdmissionView
<1>1. UNCHANGED <<RollBar, AskedBar>> BY RollKept DEF AskedBar
<1> QED BY <1>1 DEF AdmissionView

\* Streams of peers without an id are closed.
LEMMA TurnsAway ==
  ASSUME RollInv, NEW some \in SUBSET Peers,
         \A p \in some : stream[p] # "closed" /\ client[p] = 0,
         UNCHANGED <<broker, client, lastId, wrote, id>>,
         \A p \in Peers : stream'[p] = "closed" <=> stream[p] = "closed" \/ p \in some
  PROVE  Admission!Next
<1>1. UNCHANGED <<RollBar, AskedBar>> BY RollKept DEF AskedBar
<1>2. some \cap (RefusedBar \cup Admission!Enrolled) = {} BY RollMembers DEF RefusedBar
<1>3. RefusedBar' = RefusedBar \cup some BY DEF RefusedBar
<1>4. Admission!TurnAway(some) BY <1>1, <1>2, <1>3 DEF Admission!TurnAway
<1> QED BY <1>4 DEF Admission!Next

LEMMA AcceptView ==
  ASSUME RollInv, ServiceAccept
  PROVE  [Admission!Next]_AdmissionView
<1> DEFINE p == Head(backlog)
<1>1. p \in Peers /\ stream[p] = "backlog" /\ client[p] = 0
  <2>1. backlog \in Seq(Peers) /\ backlog # <<>> BY DEF ServiceAccept, RollInv, HandInv, TypeOK
  <2>2. p = backlog[1] /\ 1 \in DOMAIN backlog /\ p \in Peers BY <2>1
  <2>3. stream[p] = "backlog" BY <2>2 DEF RollInv, HandInv, BacklogOwns
  <2> QED BY <2>2, <2>3 DEF RollInv, HandInv, JobsOwn
<1>2. UNCHANGED <<broker, client, lastId, wrote, id>> BY DEF ServiceAccept, peerVars
<1>3. stream \in [Peers -> Streams] BY DEF RollInv, HandInv, TypeOK, Streams
<1>4. PICK owner \in {"service", "closed"} : stream' = [stream EXCEPT ![p] = owner]
  BY DEF ServiceAccept
<1> HIDE DEF p
<1>5. CASE owner = "service"
  <2>1. \A q \in Peers : stream'[q] = "closed" <=> stream[q] = "closed"
    BY <1>1, <1>3, <1>4, <1>5
  <2>2. RefusedBar' = RefusedBar BY <1>2, <2>1 DEF RefusedBar
  <2> QED BY <1>2, <2>2, SameRoll
<1>6. CASE owner = "closed"
  <2>1. \A q \in Peers : stream'[q] = "closed" <=> stream[q] = "closed" \/ q \in {p}
    BY <1>1, <1>3, <1>4, <1>6
  <2> QED BY <1>1, <1>2, <2>1, TurnsAway
<1> QED BY <1>5, <1>6

LEMMA RequestView ==
  ASSUME RollInv, ServiceRequestFails \/ ServiceRequestIllegal \/ ServiceRemoteNnHello
  PROVE  [Admission!Next]_AdmissionView
<1>1. PICK owner \in {"job", "closed"} :
        /\ service = "request"
        /\ stream' = [stream EXCEPT ![serving] = owner]
        /\ UNCHANGED <<broker, client, lastId, wrote, id>>
  BY DEF ServiceRequestFails, ServiceRequestIllegal, ServiceRemoteNnHello, ServiceContinues,
    Refused, peerVars
<1>2. serving \in Peers /\ stream[serving] = "service" /\ client[serving] = 0
  BY <1>1 DEF RollInv, HandInv, ServiceOwns, JobsOwn
<1>3. stream \in [Peers -> Streams] BY DEF RollInv, HandInv, TypeOK, Streams
<1>4. CASE owner = "job"
  <2>1. \A q \in Peers : stream'[q] = "closed" <=> stream[q] = "closed"
    BY <1>1, <1>2, <1>3, <1>4
  <2>2. RefusedBar' = RefusedBar BY <1>1, <2>1 DEF RefusedBar
  <2> QED BY <1>1, <2>2, SameRoll
<1>5. CASE owner = "closed"
  <2>1. \A q \in Peers : stream'[q] = "closed" <=> stream[q] = "closed" \/ q \in {serving}
    BY <1>1, <1>2, <1>3, <1>5
  <2> QED BY <1>1, <1>2, <2>1, TurnsAway
<1> QED BY <1>4, <1>5

\* A panic turns away all who wait for the accept loop, and those who wait for a
\* thread if their jobs are dropped.
LEMMA PanicView ==
  ASSUME RollInv, ServiceRequestCut \/ ServiceLocalHello
  PROVE  [Admission!Next]_AdmissionView
<1> DEFINE dropped == {p \in Peers : stream'[p] = "closed" /\ stream[p] # "closed"}
<1>1. HandInv BY DEF RollInv
<1>2. /\ UNCHANGED <<broker, client, lastId, wrote, id>>
      /\ \A p \in Peers : \/ stream'[p] = stream[p]
                         \/ /\ stream[p] \in {"backlog", "service", "job"}
                            /\ stream'[p] = "closed"
  BY <1>1, PanicCloses DEF DroppedInPanic, peerVars
<1>3. \A p \in dropped : stream[p] # "closed" /\ client[p] = 0
  BY <1>2 DEF RollInv, HandInv, JobsOwn
<1>4. \A p \in Peers : stream'[p] = "closed" <=> stream[p] = "closed" \/ p \in dropped BY <1>2
<1>5. dropped \in SUBSET Peers OBVIOUS
<1> HIDE DEF dropped
<1> QED BY <1>2, <1>3, <1>4, <1>5, TurnsAway

\* A job that reaches the broker is entered on the roll, or turned away.
LEMMA AttachView ==
  ASSUME RollInv, RollInv', NEW p \in Peers, JobAttaches(p)
  PROVE  Admission!Next
<1>1. stream[p] = "job" /\ UNCHANGED <<broker, wrote, id>> BY DEF JobAttaches, peerVars
<1>2. client[p] = 0 /\ wrote[p] = "RemoteNnHello" BY <1>1 DEF RollInv, HandInv, JobsOwn
<1>3. stream \in [Peers -> Streams] BY DEF RollInv, HandInv, TypeOK, Streams
<1>4. client \in [Peers -> Nat] /\ lastId \in Nat BY DEF RollInv, HandInv, TypeOK
<1>5. CASE /\ broker = "running"
           /\ lastId' = lastId + 1 /\ client' = [client EXCEPT ![p] = lastId + 1]
           /\ stream' = [stream EXCEPT ![p] = "attached"]
  <2>1. /\ lastId' = lastId + 1 /\ client' = [client EXCEPT ![p] = lastId + 1]
        /\ stream' = [stream EXCEPT ![p] = "attached"]
    BY <1>5
  <2>2. RollBar' = Append(RollBar, p) BY <1>2, <2>1, RollAppends
  <2>3. AskedBar' = AskedBar BY <1>1 DEF AskedBar
  <2>4. \A q \in Peers : q # p => stream'[q] = stream[q] /\ client'[q] = client[q]
    BY <1>3, <1>4, <2>1
  <2>5. stream'[p] # "closed" BY <1>3, <2>1
  <2>6. RefusedBar' = RefusedBar BY <1>1, <2>4, <2>5 DEF RefusedBar
  <2>7. p \in AskedBar \ (RefusedBar \cup Admission!Enrolled)
    BY <1>1, <1>2, RollMembers DEF AskedBar, RefusedBar
  <2>8. Admission!Admit(p) BY <1>1, <1>5, <2>2, <2>3, <2>6, <2>7 DEF Admission!Admit
  <2> QED BY <2>8 DEF Admission!Next
<1>6. CASE stream' = [stream EXCEPT ![p] = "closed"] /\ UNCHANGED <<lastId, client>>
  <2>1. \A q \in Peers : stream'[q] = "closed" <=> stream[q] = "closed" \/ q \in {p}
    BY <1>3, <1>6
  <2> QED BY <1>1, <1>2, <1>6, <2>1, TurnsAway
<1> QED BY <1>5, <1>6 DEF JobAttaches, NextId

LEMMA WorkerView ==
  ASSUME RollInv, NEW p \in Peers, JobAccepts(p) \/ WorkerEnds(p)
  PROVE  UNCHANGED AdmissionView
<1>1. /\ UNCHANGED <<broker, client, lastId, wrote, id>>
      /\ stream[p] \in {"attached", "worker"}
      /\ \E owner \in {"worker", "closed"} : stream' = [stream EXCEPT ![p] = owner]
  BY DEF JobAccepts, WorkerEnds, peerVars
<1>2. client[p] # 0 BY <1>1 DEF RollInv, HandInv, JobsOwn
<1>3. \A q \in Peers : q # p => stream'[q] = stream[q]
  BY <1>1 DEF RollInv, HandInv, TypeOK
<1>4. RefusedBar' = RefusedBar BY <1>1, <1>2, <1>3 DEF RefusedBar
<1> QED BY <1>1, <1>4, SameRoll

\* The id that a peer reads from its accept packet is its place on the roll.
LEMMA LearnView ==
  ASSUME RollInv, NEW p \in Peers, PeerGetsAccept(p)
  PROVE  Admission!Next
<1>1. /\ peer[p] = "accept" /\ told[p].name = "RemoteNNAccepted"
      /\ id' = [id EXCEPT ![p] = told[p].client_id]
      /\ UNCHANGED <<broker, stream, client, lastId, wrote>>
  BY DEF PeerGetsAccept, serverVars
<1>2. id[p] = 0 BY <1>1 DEF RollInv, NotToldYet
<1>3. client[p] # 0 /\ told[p].client_id = client[p] BY <1>1 DEF RollInv, HandInv, JobsOwn
<1>4. client[p] \in DOMAIN RollBar /\ RollBar[client[p]] = p
  <2>1. client[p] \in 1..lastId /\ RollBar[client[p]] = p BY <1>3, RollPlaces DEF PlacesAreIds
  <2> QED BY <2>1 DEF RollBar
<1>5. UNCHANGED <<RollBar, AskedBar, RefusedBar>> BY <1>1, RollKept DEF AskedBar, RefusedBar
<1>6. Admission!Learn(p) BY <1>1, <1>2, <1>3, <1>4, <1>5 DEF Admission!Learn
<1> QED BY <1>6 DEF Admission!Next

\* What a peer writes is a question, or nothing yet.
LEMMA WriteView ==
  ASSUME RollInv, NEW p \in Peers, PeerWrites(p)
  PROVE  [Admission!Next]_AdmissionView
<1>1. UNCHANGED <<broker, stream, client, lastId, id>>
  BY DEF PeerWrites, PeerWritesSize, PeerWritesBody, serverVars
<1>2. PICK w : wrote[p] \in {"nothing", "size"} /\ wrote' = [wrote EXCEPT ![p] = w]
  BY DEF PeerWrites, PeerWritesSize, PeerWritesBody
<1>3. \A q \in Peers : wrote'[q] = IF q = p THEN w ELSE wrote[q]
  BY <1>2 DEF RollInv, HandInv, TypeOK
<1>4. UNCHANGED <<RollBar, RefusedBar>> BY <1>1, RollKept DEF RefusedBar
<1>5. CASE w = "RemoteNnHello"
  <2>1. AskedBar' = AskedBar \cup {p} BY <1>3, <1>5 DEF AskedBar
  <2>2. Admission!Ask(p) BY <1>1, <1>4, <2>1 DEF Admission!Ask
  <2> QED BY <2>2 DEF Admission!Next
<1>6. CASE w # "RemoteNnHello"
  <2>1. AskedBar' = AskedBar BY <1>2, <1>3, <1>6 DEF AskedBar
  <2> QED BY <1>1, <1>4, <2>1 DEF AdmissionView
<1> QED BY <1>5, <1>6

LEMMA PeerView ==
  ASSUME RollInv, NEW p \in Peers,
         PeerConnect(p) \/ PeerGetsHello(p) \/ PeerFails(p) \/ PeerDies(p)
  PROVE  UNCHANGED AdmissionView
<1>1. UNCHANGED <<broker, client, lastId, wrote, id>>
  BY DEF PeerConnect, PeerGetsHello, PeerFails, PeerDies, serverVars
<1>2. stream' = stream \/ (peer[p] = "out" /\ stream' = [stream EXCEPT ![p] = "backlog"])
  BY DEF PeerConnect, PeerGetsHello, PeerFails, PeerDies, serverVars
<1>3. peer[p] = "out" => stream[p] = "none" BY DEF RollInv, HandInv, PeersOwn
<1>4. stream \in [Peers -> Streams] BY DEF RollInv, HandInv, TypeOK, Streams
<1>5. \A q \in Peers : stream'[q] = "closed" <=> stream[q] = "closed" BY <1>2, <1>3, <1>4
<1>6. RefusedBar' = RefusedBar BY <1>1, <1>5 DEF RefusedBar
<1> QED BY <1>1, <1>6, SameRoll

LEMMA AdmissionStep ==
  ASSUME RollInv, RollInv', [Next]_vars
  PROVE  [Admission!Next]_AdmissionView
<1>1. CASE Service BY <1>1, AcceptView, RequestView, PanicView DEF Service
<1>2. ASSUME NEW p \in Peers, Job(p) \/ WorkerEnds(p) PROVE [Admission!Next]_AdmissionView
  BY <1>2, AttachView, WorkerView DEF Job
<1>3. ASSUME NEW p \in Peers, PeerConnect(p) \/ PeerReads(p) \/ PeerDies(p)
      PROVE [Admission!Next]_AdmissionView
  BY <1>3, LearnView, PeerView DEF PeerReads
<1>4. ASSUME NEW p \in Peers, PeerWrites(p) PROVE [Admission!Next]_AdmissionView
  BY <1>4, WriteView
<1>5. CASE BrokerExits
  <2>1. broker' = "exited" /\ UNCHANGED <<stream, client, lastId, wrote, id>>
    BY <1>5 DEF BrokerExits, serverVars, peerVars
  <2>2. UNCHANGED <<AskedBar, RollBar, RefusedBar>>
    BY <2>1, RollKept DEF AskedBar, RefusedBar
  <2>3. Admission!Close BY <2>1, <2>2 DEF Admission!Close
  <2> QED BY <2>3 DEF Admission!Next
<1>6. CASE UNCHANGED vars
  <2>1. UNCHANGED <<broker, stream, client, lastId, wrote, id>>
    BY <1>6 DEF vars, serverVars, peerVars
  <2>2. RefusedBar' = RefusedBar BY <2>1 DEF RefusedBar
  <2> QED BY <2>1, <2>2, SameRoll
<1> QED BY <1>1, <1>2, <1>3, <1>4, <1>5, <1>6 DEF Next

LEMMA AdmissionInit == Init => Admission!Init
<1> SUFFICES ASSUME Init PROVE Admission!Init
  OBVIOUS
<1>1. AskedBar = {} /\ RefusedBar = {} BY DEF Init, AskedBar, RefusedBar
<1>2. RollBar = <<>>
  <2>1. 1..lastId = {} BY DEF Init
  <2>2. RollBar = [i \in {} |-> CHOOSE p \in Peers : client[p] = i] BY <2>1 DEF RollBar
  <2> QED BY <2>2
<1> QED BY <1>1, <1>2 DEF Init, Admission!Init

\* The service keeps the roll that it promises: every id is one peer's for good.
THEOREM Refinement == Spec => ImplementsAdmission
<1>1. RollInv /\ RollInv' /\ [Next]_vars => [Admission!Next]_Admission!vars
  BY AdmissionStep DEF Admission!vars, AdmissionView
<1> QED BY InitRoll, NextRoll, AdmissionInit, <1>1, PTL DEF Spec, Admission!Spec, ImplementsAdmission
=============================================================================
