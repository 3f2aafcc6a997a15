------------------------------ MODULE NnBridge ------------------------------
(***************************************************************************)
(* The bridge between the LLMP broker of nn_fuzz and its neural-network    *)
(* peers.  Fuzzer instances and one worker thread per connected peer are   *)
(* LLMP clients of one broker.  The broker hooks every message of every    *)
(* client, keeps statistics to itself and broadcasts the rest.  A worker   *)
(* alternates between draining the broadcast into its TCP stream and one   *)
(* read of that stream, whose message it hands to the broker.  The peer    *)
(* (the Python class over nn_connector) sends inputs and reads events.     *)
(*                                                                         *)
(*   fuzzer --out--> broker --bcast--> fuzzer, worker --down--> peer       *)
(*                   broker <--out---- worker <--up---- peer               *)
(*                                                                         *)
(* Logs are append-only and read through cursors.  A stream carries whole  *)
(* messages and at most one that is partly written, while its writer is    *)
(* at it or has closed; whoever times out in the size of that one loses    *)
(* its place in the stream.  The bytes of a frame are in NnFraming and the *)
(* steps of the connection set-up in NnHandshake.                          *)
(***************************************************************************)
EXTENDS Naturals, Sequences, FiniteSets

CONSTANTS
  Fuzzers,    \* fuzzer instances
  Conns,      \* NN connections, each the worker and the peer of one stream
  Kinds,      \* the kinds of event the fuzzers fire
  Large,      \* numbers of the messages whose encoding reaches COMPRESS_THRESHOLD
  MaxEvents,  \* bound: messages a fuzzer fires
  MaxInputs,  \* bound: inputs a peer sends
  MaxGarbled, \* bound: messages a worker out of place hands over
  DownWindow, \* messages a stream holds unread from worker to peer
  UpWindow    \* messages a stream holds unread from peer to worker

EventKinds == {"NewTestcase", "UpdateExecStats", "UpdateUserStats",
               "Objective", "Log", "CustomBuf"}

ASSUME ClientsDisjoint == Fuzzers \cap Conns = {}
ASSUME KindsAreEvents == Kinds \subseteq EventKinds
ASSUME LargeAreNumbers == Large \subseteq Nat
ASSUME BoundsAreNat == {MaxEvents, MaxInputs, MaxGarbled, DownWindow, UpWindow} \subseteq Nat

Clients == Fuzzers \cup Conns

Tags == {"EVENT_TO_BOTH", "DEFAULT"}
Flags == {"COMPRESSED", "FROM_NN"}
Fields == {"corpus", "executions", "user", "objective"}

\* An LLMP message, also the content of a TcpRemoteNewMessage: its sender and
\* its number among the sender's messages stand for the payload.  What a worker
\* out of place takes for a message is Garbled, with a payload that means nothing.
Msg == [client: Clients, n: Nat, tag: Tags, kind: EventKinds \cup {"Garbled"},
        flags: SUBSET Flags, gzip: BOOLEAN]

VARIABLES
  broker,  \* "running" or "exited"
  out,     \* [Clients -> Seq(Msg)]    messages a client has put in its LLMP pages
  seen,    \* [Clients -> Nat]         how many of them the broker has hooked
  bcast,   \* Seq(Msg)                 the broker's broadcast
  stats,   \* [Clients -> [Fields -> Nat]]  number of the message a statistic is from
  ran,     \* [Fuzzers -> Seq(Nat)]    broadcast positions a fuzzer has taken in
  fcur,    \* [Fuzzers -> Nat]         a fuzzer's cursor in the broadcast
  alive,   \* SUBSET Fuzzers           the fuzzers whose fuzz loop has not failed
  wpc,     \* [Conns -> ...]           the worker: none, drain, recv, dead
  start,   \* [Conns -> Nat]           the worker's cursor when it attached
  cur,     \* [Conns -> Nat]           the worker's cursor in the broadcast
  down,    \* [Conns -> Seq(Nat)]      broadcast positions written to the stream
  wlost,   \* SUBSET Conns             living workers out of place in what their peer writes
  got,     \* [Conns -> Nat]           how many of them the peer has read
  ppc,     \* [Conns -> ...]           the peer: off, idle, sending, closed, cut
  up,      \* [Conns -> Seq(Msg)]      messages the peer has written to the stream
  plost    \* SUBSET Conns             open peers out of place in what their worker writes

brokerVars == <<broker, seen, bcast, stats>>
fuzzerVars == <<ran, fcur, alive>>
workerVars == <<wpc, start, cur, down, wlost>>
peerVars == <<got, ppc, up, plost>>
vars == <<brokerVars, out, fuzzerVars, workerVars, peerVars>>

Init ==
  /\ broker = "running"
  /\ out = [c \in Clients |-> <<>>]
  /\ seen = [c \in Clients |-> 0]
  /\ bcast = <<>>
  /\ stats = [c \in Clients |-> [f \in Fields |-> 0]]
  /\ ran = [f \in Fuzzers |-> <<>>]
  /\ fcur = [f \in Fuzzers |-> 0]
  /\ alive = Fuzzers
  /\ wpc = [k \in Conns |-> "none"]
  /\ start = [k \in Conns |-> 0]
  /\ cur = [k \in Conns |-> 0]
  /\ down = [k \in Conns |-> <<>>]
  /\ wlost = {}
  /\ got = [k \in Conns |-> 0]
  /\ ppc = [k \in Conns |-> "off"]
  /\ up = [k \in Conns |-> <<>>]
  /\ plost = {}

-----------------------------------------------------------------------------
(* Messages *)

Compressed(n) == IF n \in Large THEN {"COMPRESSED"} ELSE {}

\* NNEventManager::fire: every event goes out under LLMP_TAG_EVENT_TO_BOTH.
Fired(f, kind) ==
  LET n == Len(out[f]) + 1
  IN  [client |-> f, n |-> n, tag |-> "EVENT_TO_BOTH", kind |-> kind,
       flags |-> Compressed(n), gzip |-> n \in Large]

\* generate_event: an input becomes a NewTestcase under the default tag.
InputTagOther == "EVENT_TO_NN"     \* mutant: a tag that LLMP does not know
InputTagToBoth == "EVENT_TO_BOTH"  \* mutant: tagged like a fuzzer's own event
InputTag == "DEFAULT"
Generated(k) ==
  LET n == Len(up[k]) + 1
  IN  [client |-> k, n |-> n, tag |-> InputTag, kind |-> "NewTestcase",
       flags |-> Compressed(n), gzip |-> n \in Large]

\* What the worker hands to the broker for a message of the peer.
BridgedFlagsFresh(m) == {"FROM_NN"}  \* mutant: the flags of the peer are lost
BridgedFlags(m) == m.flags \cup {"FROM_NN"}
Bridged(m) == [client |-> m.client, n |-> m.n, tag |-> m.tag, kind |-> m.kind,
               flags |-> BridgedFlags(m), gzip |-> m.gzip]

\* What it hands over when bytes from within a message happen to decode as one.
\* LLMP_FLAG_COMPRESSED may be set or not; the payload is as good as unpackable.
Garbled(k) == [client |-> k, n |-> Len(out[k]) + 1, tag |-> "DEFAULT", kind |-> "Garbled",
               flags |-> {"FROM_NN"}, gzip |-> FALSE]

\* The worker's client_id == id test.
OwnNever(k, m) == FALSE                   \* mutant: the test is missing
OwnByFlag(k, m) == "FROM_NN" \in m.flags  \* mutant: the flag instead of the id
Own(k, m) == m.client = k

\* The broker's hook looks into EVENT_TO_BOTH messages only, and forwards all
\* others as they are.
ForwardedKindsWide == {"NewTestcase", "CustomBuf", "Objective"}  \* mutant
ForwardedKinds == {"NewTestcase", "CustomBuf"}
ForwardedHooked(m) ==  \* mutant: what the hook does not know is dropped
  m.tag = "EVENT_TO_BOTH" /\ m.kind \in ForwardedKinds
ForwardedPlain(m) ==  \* mutant: what is compressed is dropped
  "COMPRESSED" \notin m.flags /\ (m.tag = "EVENT_TO_BOTH" => m.kind \in ForwardedKinds)
Forwarded(m) == m.tag = "EVENT_TO_BOTH" => m.kind \in ForwardedKinds

Updates == [NewTestcase |-> {"corpus", "executions"},
            UpdateExecStats |-> {"executions"},
            UpdateUserStats |-> {"user"},
            Objective |-> {"objective"},
            Log |-> {}, CustomBuf |-> {}]
Touched(m) == IF m.tag = "EVENT_TO_BOTH" THEN Updates[m.kind] ELSE {}

-----------------------------------------------------------------------------
(* Fuzzer instances *)

FuzzerFire(f) ==
  /\ f \in alive
  /\ Len(out[f]) < MaxEvents
  /\ \E kind \in Kinds : out' = [out EXCEPT ![f] = Append(@, Fired(f, kind))]
  /\ UNCHANGED <<brokerVars, fuzzerVars, workerVars, peerVars>>

\* The event manager of a fuzzer reads the next broadcast message and takes in
\* every one that is not its own.
FuzzerProcess(f) ==
  /\ f \in alive
  /\ fcur[f] < Len(bcast)
  /\ fcur' = [fcur EXCEPT ![f] = @ + 1]
  /\ ran' = IF bcast[fcur[f] + 1].client = f THEN ran
            ELSE [ran EXCEPT ![f] = Append(@, fcur[f] + 1)]
  /\ UNCHANGED <<brokerVars, out, alive, workerVars, peerVars>>

\* A message that is no event makes the event manager fail, and fuzz_loop with it.
FuzzerFails(f) ==
  /\ f \in alive
  /\ fcur[f] < Len(bcast)
  /\ bcast[fcur[f] + 1].kind = "Garbled"
  /\ alive' = alive \ {f}
  /\ UNCHANGED <<brokerVars, out, ran, fcur, workerVars, peerVars>>

-----------------------------------------------------------------------------
(* The broker *)

\* One call of the hook of broker_loop, for the next message of client c.
BrokerMsg(c) ==
  /\ broker = "running"
  /\ seen[c] < Len(out[c])
  /\ LET m == out[c][seen[c] + 1]
     IN  /\ bcast' = IF Forwarded(m) THEN Append(bcast, m) ELSE bcast
         /\ stats' = [stats EXCEPT ![c] =
                        [f \in Fields |-> IF f \in Touched(m) THEN m.n ELSE stats[c][f]]]
  /\ seen' = [seen EXCEPT ![c] = @ + 1]
  /\ UNCHANGED <<broker, out, fuzzerVars, workerVars, peerVars>>

\* loop_forever returns when the broker process is told to shut down, and ends with
\* a panic when the hook fails on a message it cannot unpack (the ? of its decoding),
\* which a garbled message is too if its tag comes out as EVENT_TO_BOTH.
BrokerExit ==
  /\ broker = "running"
  /\ broker' = "exited"
  /\ UNCHANGED <<out, seen, bcast, stats, fuzzerVars, workerVars, peerVars>>

-----------------------------------------------------------------------------
(* Connections *)

\* run_service accepts a peer and spawns its worker, whose LLMP client starts
\* reading somewhere in the pages the broker still holds.
Connect(k) ==
  /\ wpc[k] = "none"
  /\ broker = "running"
  /\ \E p \in 0..Len(bcast) :
       /\ start' = [start EXCEPT ![k] = p]
       /\ cur' = [cur EXCEPT ![k] = p]
  /\ wpc' = [wpc EXCEPT ![k] = "drain"]
  /\ ppc' = [ppc EXCEPT ![k] = "idle"]
  /\ UNCHANGED <<brokerVars, out, fuzzerVars, down, wlost, got, up, plost>>

Closed(k) == ppc[k] \in {"closed", "cut"}

(* The worker: handle_connection *)

HasNext(k) == wpc[k] = "drain" /\ cur[k] < Len(bcast)
NextMsg(k) == bcast[cur[k] + 1]
AdvanceNot(k) == UNCHANGED cur                      \* mutant: read again
AdvanceToEnd(k) == cur' = [cur EXCEPT ![k] = Len(bcast)]  \* mutant: backlog lost
Advance(k) == cur' = [cur EXCEPT ![k] = @ + 1]

\* A panic ends the worker's thread, and with it its end of the stream.
Panic(k) ==
  /\ wpc' = [wpc EXCEPT ![k] = "dead"]
  /\ wlost' = wlost \ {k}

\* A message this worker put there earlier is passed over.
WorkerSkip(k) ==
  /\ HasNext(k)
  /\ Own(k, NextMsg(k))
  /\ Advance(k)
  /\ UNCHANGED <<brokerVars, out, fuzzerVars, wpc, start, down, wlost, peerVars>>

\* send_tcp_msg blocks until the stream has room.  To a peer that has closed
\* the first writes still succeed.  A peer out of place reads it without order.
DownRoom(k) == k \in plost \/ Len(down[k]) - got[k] < DownWindow
WorkerForward(k) ==
  /\ HasNext(k)
  /\ ~Own(k, NextMsg(k))
  /\ DownRoom(k) \/ Closed(k)
  /\ Advance(k)
  /\ down' = [down EXCEPT ![k] = Append(@, cur[k] + 1)]
  /\ UNCHANGED <<brokerVars, out, fuzzerVars, wpc, start, wlost, peerVars>>

\* A write to a closed peer fails and the worker panics.
WorkerForwardFails(k) ==
  /\ HasNext(k)
  /\ ~Own(k, NextMsg(k))
  /\ Closed(k)
  /\ Panic(k)
  /\ Advance(k)
  /\ UNCHANGED <<brokerVars, out, fuzzerVars, start, down, peerVars>>

\* Nothing to forward: the worker goes on to read the stream.
WorkerEmpty(k) ==
  /\ wpc[k] = "drain"
  /\ cur[k] = Len(bcast)
  /\ wpc' = [wpc EXCEPT ![k] = "recv"]
  /\ UNCHANGED <<brokerVars, out, fuzzerVars, start, cur, down, wlost, peerVars>>

\* The broker is gone and its last page says so: recv_buf_with_flags fails.
WorkerBrokerGone(k) ==
  /\ wpc[k] = "drain"
  /\ cur[k] = Len(bcast)
  /\ broker = "exited"
  /\ Panic(k)
  /\ UNCHANGED <<brokerVars, out, fuzzerVars, start, cur, down, peerVars>>

\* One message of the peer is handed to the broker.  Messages are taken in
\* order, so the number handed over is the number read.
WorkerRecv(k) ==
  /\ wpc[k] = "recv"
  /\ k \notin wlost
  /\ Len(out[k]) < Len(up[k])
  /\ out' = [out EXCEPT ![k] = Append(@, Bridged(up[k][Len(@) + 1]))]
  /\ wpc' = [wpc EXCEPT ![k] = "drain"]
  /\ UNCHANGED <<brokerVars, fuzzerVars, start, cur, down, wlost, peerVars>>

\* A worker out of place takes whatever it reads for a size, a body, a message.
WorkerRecvGarbled(k) ==
  /\ wpc[k] = "recv"
  /\ k \in wlost
  /\ Cardinality({n \in DOMAIN out[k] : out[k][n].kind = "Garbled"}) < MaxGarbled
  /\ out' = [out EXCEPT ![k] = Append(@, Garbled(k))]
  /\ wpc' = [wpc EXCEPT ![k] = "drain"]
  /\ UNCHANGED <<brokerVars, fuzzerVars, start, cur, down, wlost, peerVars>>

\* The read times out before a message, or finds the stream closed or reset: both
\* are ignored.
AllRead(k) == Len(out[k]) = Len(up[k])
ReadEndsOnClose(k) == Closed(k)  \* mutant: no read timeout on the stream
ReadEnds(k) == AllRead(k) \/ Closed(k) \/ k \in wlost
WorkerRecvFails(k) ==
  /\ wpc[k] = "recv"
  /\ ReadEnds(k)
  /\ wpc' = [wpc EXCEPT ![k] = "drain"]
  /\ UNCHANGED <<brokerVars, out, fuzzerVars, start, cur, down, wlost, peerVars>>

\* The read times out within the size of a message that the peer is still writing:
\* ignored too, but the bytes read are gone.
WorkerLosesPlace(k) ==
  /\ wpc[k] = "recv"
  /\ k \notin wlost
  /\ AllRead(k) /\ ppc[k] = "sending"
  /\ wlost' = wlost \cup {k}
  /\ wpc' = [wpc EXCEPT ![k] = "drain"]
  /\ UNCHANGED <<brokerVars, out, fuzzerVars, start, cur, down, peerVars>>

\* The worker panics over what it receives: a body times out or is cut off, a message
\* is not taken by LLMP (no memory for a page), or bytes out of place are no message.
WorkerRecvDies(k) ==
  /\ wpc[k] = "recv"
  /\ \/ AllRead(k) /\ ppc[k] \in {"sending", "cut"}
     \/ ~AllRead(k)
     \/ k \in wlost
  /\ Panic(k)
  /\ UNCHANGED <<brokerVars, out, fuzzerVars, start, cur, down, peerVars>>

(* The peer: FuzzConnector *)

\* send_input begins ...
PeerSend(k) ==
  /\ ppc[k] = "idle"
  /\ Len(up[k]) < MaxInputs
  /\ ppc' = [ppc EXCEPT ![k] = "sending"]
  /\ UNCHANGED <<brokerVars, out, fuzzerVars, workerVars, got, up, plost>>

\* ... and returns once the stream has taken the message ...
UpRoom(k) == k \in wlost \/ Len(up[k]) - Len(out[k]) < UpWindow
PeerSendDone(k) ==
  /\ ppc[k] = "sending"
  /\ UpRoom(k)
  /\ up' = [up EXCEPT ![k] = Append(@, Generated(k))]
  /\ ppc' = [ppc EXCEPT ![k] = "idle"]
  /\ UNCHANGED <<brokerVars, out, fuzzerVars, workerVars, got, plost>>

\* ... or fails because the worker has gone.
PeerSendFails(k) ==
  /\ ppc[k] = "sending"
  /\ wpc[k] = "dead"
  /\ ppc' = [ppc EXCEPT ![k] = "idle"]
  /\ UNCHANGED <<brokerVars, out, fuzzerVars, workerVars, got, up, plost>>

\* recv_testcase reads an event, garbled ones only to report an error.  When it times
\* out between two it changes nothing.
PeerRecvDone(k) ==
  /\ ppc[k] = "idle"
  /\ k \notin plost
  /\ got[k] < Len(down[k])
  /\ got' = [got EXCEPT ![k] = @ + 1]
  /\ UNCHANGED <<brokerVars, out, fuzzerVars, workerVars, ppc, up, plost>>

\* recv_testcase times out within an event that the worker is still writing: what it
\* read of the size is gone, and in the body it panics, which a program that goes on
\* all the same survives out of place (PeerClose is one that does not).
PeerLosesPlace(k) ==
  /\ ppc[k] = "idle"
  /\ k \notin plost
  /\ got[k] = Len(down[k])
  /\ HasNext(k) /\ ~Own(k, NextMsg(k))
  /\ plost' = plost \cup {k}
  /\ UNCHANGED <<brokerVars, out, fuzzerVars, workerVars, got, ppc, up>>

\* The peer drops the connector or its process ends, which in the middle of
\* send_input may leave part of a body in the stream.
PeerClose(k) ==
  /\ \E end \in {"closed", "cut"} :
       /\ ppc[k] \in IF end = "cut" THEN {"sending"} ELSE {"idle", "sending"}
       /\ ppc' = [ppc EXCEPT ![k] = end]
  /\ plost' = plost \ {k}
  /\ UNCHANGED <<brokerVars, out, fuzzerVars, workerVars, got, up>>

-----------------------------------------------------------------------------
WorkerStep(k) ==
  \/ WorkerSkip(k) \/ WorkerForward(k) \/ WorkerForwardFails(k)
  \/ WorkerEmpty(k) \/ WorkerBrokerGone(k)
  \/ WorkerRecv(k) \/ WorkerRecvGarbled(k) \/ WorkerRecvFails(k)
  \/ WorkerLosesPlace(k) \/ WorkerRecvDies(k)

PeerStep(k) ==
  \/ PeerSend(k) \/ PeerSendDone(k) \/ PeerSendFails(k)
  \/ PeerRecvDone(k) \/ PeerLosesPlace(k) \/ PeerClose(k)

Next ==
  \/ \E f \in Fuzzers : FuzzerFire(f) \/ FuzzerProcess(f) \/ FuzzerFails(f)
  \/ \E c \in Clients : BrokerMsg(c)
  \/ BrokerExit
  \/ \E k \in Conns : Connect(k) \/ WorkerStep(k) \/ PeerStep(k)

Spec == Init /\ [][Next]_vars

(***************************************************************************)
(* Fairness.  The broker polls all its clients every 5 ms and fuzzers      *)
(* process the broadcast in every stage loop.  A worker is one sequential  *)
(* thread that never stops by itself and whose reads end after 3 s.  A     *)
(* peer finishes the call it is in and, like examples/connect_to_fuzz.rs,  *)
(* comes back to read as long as it lives; it need not send.               *)
(***************************************************************************)
Fairness ==
  /\ \A f \in Fuzzers : WF_vars(FuzzerProcess(f))
  /\ \A c \in Clients : WF_vars(BrokerMsg(c))
  /\ \A k \in Conns :
       /\ WF_vars(WorkerStep(k))
       /\ WF_vars(PeerSendDone(k) \/ PeerSendFails(k))
       /\ WF_vars(PeerRecvDone(k))

FairSpec == Spec /\ Fairness

-----------------------------------------------------------------------------
(* Safety *)

\* Every variable has its type.
TypeOK ==
  /\ broker \in {"running", "exited"}
  /\ out \in [Clients -> Seq(Msg)]
  /\ seen \in [Clients -> Nat]
  /\ bcast \in Seq(Msg)
  /\ stats \in [Clients -> [Fields -> Nat]]
  /\ ran \in [Fuzzers -> Seq(Nat)]
  /\ fcur \in [Fuzzers -> Nat]
  /\ alive \subseteq Fuzzers
  /\ wpc \in [Conns -> {"none", "drain", "recv", "dead"}]
  /\ start \in [Conns -> Nat]
  /\ cur \in [Conns -> Nat]
  /\ down \in [Conns -> Seq(Nat)]
  /\ wlost \subseteq Conns
  /\ got \in [Conns -> Nat]
  /\ ppc \in [Conns -> {"off", "idle", "sending", "closed", "cut"}]
  /\ up \in [Conns -> Seq(Msg)]
  /\ plost \subseteq Conns

\* What a worker has written to its stream is in the order of the broadcast,
\* without repetition, and lies between where it attached and where it is.
FeedInOrder ==
  \A k \in Conns :
    /\ \A i \in DOMAIN down[k] : down[k][i] \in (start[k] + 1)..cur[k]
    /\ \A i, j \in DOMAIN down[k] : i < j => down[k][i] < down[k][j]

\* No peer is sent back a message that came in through its own worker, although
\* the broker broadcasts it to that worker too.
NoEcho ==
  \A k \in Conns : \A i \in DOMAIN down[k] : bcast[down[k][i]].client # k

\* A worker leaves no gap: of what the others published since it attached it
\* has written everything up to each message it wrote and, while it lives, up
\* to its cursor.  Messages of other neural networks and those that came in
\* while it was reading are included.
NoGap(k, to) ==
  \A p \in (start[k] + 1)..to :
    bcast[p].client = k \/ \E i \in DOMAIN down[k] : down[k][i] = p
FeedComplete ==
  \A k \in Conns :
    /\ wpc[k] \in {"drain", "recv"} => NoGap(k, cur[k])
    /\ \A i \in DOMAIN down[k] : NoGap(k, down[k][i])

\* The broadcast holds the messages of each client that the broker has hooked,
\* unchanged, in the client's order, each once, with the statistics left out:
\* whatever the tag, new test cases and custom buffers are what clients share, and
\* what a worker out of place hands over reaches them all.
PublishedExactly ==
  \A c \in Clients :
    /\ \A p \in DOMAIN bcast : bcast[p].client = c =>
         /\ bcast[p].n \in 1..seen[c]
         /\ bcast[p] = out[c][bcast[p].n]
         /\ \A q \in 1..(p - 1) : bcast[q].client = c => bcast[q].n < bcast[p].n
    /\ \A n \in 1..seen[c] :
         out[c][n].kind \in {"NewTestcase", "CustomBuf", "Garbled"}
           <=> \E p \in DOMAIN bcast : bcast[p].client = c /\ bcast[p].n = n

\* Whoever reads a message of the broadcast or of an NN stream decompresses it
\* exactly if it was compressed, whichever side of the bridge it came from; and
\* the messages of neural networks are marked as such.  Only what a worker out of
\* place hands over means nothing.
Decodable ==
  \A c \in Clients : \A n \in DOMAIN out[c] :
    /\ \/ out[c][n].kind = "Garbled"
       \/ "COMPRESSED" \in out[c][n].flags <=> out[c][n].gzip
    /\ "FROM_NN" \in out[c][n].flags <=> c \in Conns

\* The monitor's figure for a fuzzer comes from the newest hooked event that
\* carries it.  A neural network never gets figures: the zero corpus size and
\* executions its inputs carry count nowhere.
MonitorExact ==
  \A c \in Clients, f \in Fields :
    LET news == {n \in 1..seen[c] : c \in Fuzzers /\ f \in Updates[out[c][n].kind]}
    IN  IF news = {} THEN stats[c][f] = 0
        ELSE stats[c][f] \in news /\ \A n \in news : n <= stats[c][f]

(* Refinement *)

\* The abstract feed, seen from what fuzzers have taken in and peers have read.  A
\* network has submitted what its peer has sent, and what its worker, out of place,
\* has handed over beyond that.
Sent(c) == IF c \in Conns /\ Len(out[c]) <= Len(up[c]) THEN Len(up[c]) ELSE Len(out[c])
submittedBar == [c \in Clients |-> Sent(c)]
logBar == [p \in 1..Len(bcast) |-> [client |-> bcast[p].client, n |-> bcast[p].n]]
joinedBar == Fuzzers \cup {k \in Conns : wpc[k] # "none"}
startBar == [c \in Clients |-> IF c \in Conns THEN start[c] ELSE 0]
inboxBar == [c \in Clients |-> IF c \in Conns THEN SubSeq(down[c], 1, got[c]) ELSE ran[c]]

Feed == INSTANCE NnFeed WITH
  Remote <- Conns, submitted <- submittedBar, settled <- seen, log <- logBar,
  joined <- joinedBar, start <- startBar, inbox <- inboxBar

\* Broker, workers, streams and peers together implement the abstract feed.
ImplementsFeed == Feed!Spec

\* From a peer's send_input to what fuzzers take in and other peers read, through
\* stream, worker, pages, hook and broadcast: the inputs of a network arrive in
\* the order sent, none left out since the receiver attached and none twice.  From
\* where a worker loses its place, what it hands over counts as the next inputs.
InputsInOrder == Feed!InputsInOrder

(* Liveness *)

\* The worker is in a write to a peer that is itself in a write to this worker.
\* Neither write has a timeout, so only the end of the peer's process resolves it.
WriteDeadlock(k) ==
  /\ HasNext(k) /\ ~Own(k, NextMsg(k)) /\ ~DownRoom(k)
  /\ ppc[k] = "sending" /\ ~UpRoom(k)

\* What takes a connection out of service: its peer closes, its worker panics, one
\* of the two is out of place, both are stuck in a write, or the broker exits.
OutOfService(k) ==
  \/ Closed(k) \/ wpc[k] = "dead" \/ k \in wlost \cup plost
  \/ WriteDeadlock(k) \/ broker = "exited"

\* What another client publishes after a peer has connected is read by that
\* peer, unless the connection goes out of service: the worker comes back from its
\* blocking read, and from a full stream of a peer that is not sending.
EventReachesPeer ==
  \A k \in Conns,
     p \in 1..(Cardinality(Fuzzers) * MaxEvents
               + Cardinality(Conns) * (MaxInputs + MaxGarbled)) :
    (/\ wpc[k] # "none" /\ start[k] < p
     /\ p <= Len(bcast) /\ bcast[p].client # k)
      ~> ((\E i \in 1..got[k] : down[k][i] = p) \/ OutOfService(k))

\* An input a peer has sent is taken in by every fuzzer, unless the connection goes
\* out of service or the fuzzer fails.
InputReachesFuzzers ==
  \A k \in Conns, n \in 1..MaxInputs, f \in Fuzzers :
    (Len(up[k]) >= n)
      ~> (\/ \E i \in DOMAIN ran[f] : bcast[ran[f][i]].client = k /\ bcast[ran[f][i]].n = n
          \/ OutOfService(k) \/ f \notin alive)

(* What the comments say *)

\* The read timeout "makes sure we will still forward our own stuff"
\* (handle_connection): a worker is never stuck in a write to a peer that is
\* itself stuck in a write to this worker.
KeepsForwarding == \A k \in Conns : ~WriteDeadlock(k)
=============================================================================
