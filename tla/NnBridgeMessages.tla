-------------------------- MODULE NnBridgeMessages --------------------------
(***************************************************************************)
(* What NnBridge makes of a message on its way: which flags it has, whether*)
(* it is published and what the monitor learns from it, for any number of  *)
(* fuzzers and connections, any kinds of event, bounds and windows.        *)
(***************************************************************************)
EXTENDS NnBridgeRefinement

USE DEF brokerVars, fuzzerVars, workerVars, peerVars

-----------------------------------------------------------------------------
(***************************************************************************)
(* The invariant.  What the broker publishes and what figures it takes     *)
(* depends on tag and kind, which are those the message was sent with.     *)
(***************************************************************************)

MarkedRight(m) == "COMPRESSED" \in m.flags <=> m.gzip
OfFuzzer(m) == m.tag = "EVENT_TO_BOTH" /\ m.kind \in EventKinds /\ MarkedRight(m)
OfNetwork(m) == (m.kind = "NewTestcase" /\ MarkedRight(m)) \/ m.kind = "Garbled"

\* A fuzzer's messages have the tag that the broker looks into, a network's are
\* inputs, or garbled, and are marked on the way through the worker.
Marks ==
  /\ \A f \in Fuzzers : \A n \in DOMAIN out[f] :
       OfFuzzer(out[f][n]) /\ "FROM_NN" \notin out[f][n].flags
  /\ \A k \in Conns : \A n \in DOMAIN out[k] :
       OfNetwork(out[k][n]) /\ "FROM_NN" \in out[k][n].flags
  /\ \A k \in Conns : \A n \in DOMAIN up[k] :
       up[k][n].kind = "NewTestcase" /\ MarkedRight(up[k][n])

\* The kinds that reach the broadcast, if only because the hook does not look.
Shared == {"NewTestcase", "CustomBuf", "Garbled"}

MessagesInv == Marks /\ PublishedExactly /\ MonitorExact

LEMMA MarksDecodable == Marks => Decodable
BY ClientsDisjoint DEF Marks, Decodable, MarkedRight, OfFuzzer, OfNetwork, Clients

\* What was hooked of a client stays what it is when the client sends more.
LEMMA SentMore ==
  ASSUME TypeOK, CopiesInv, MessagesInv, UNCHANGED <<seen, bcast, stats>>,
         \A c \in Clients : \A n \in DOMAIN out[c] : out'[c][n] = out[c][n]
  PROVE  PublishedExactly' /\ MonitorExact'
<1>1. \A c \in Clients : \A n \in 1..seen[c] : n \in DOMAIN out[c] /\ out'[c][n] = out[c][n]
  <2>1. \A c \in Clients : /\ seen[c] \in Nat /\ seen[c] <= Len(out[c]) /\ Len(out[c]) \in Nat
                           /\ DOMAIN out[c] = 1..Len(out[c])
    BY DEF CopiesInv, CursorsBehind, TypeOK
  <2> QED BY <2>1
<1>2. PublishedExactly' BY <1>1 DEF MessagesInv, PublishedExactly
<1>3. MonitorExact'
  <2> SUFFICES ASSUME NEW c \in Clients, NEW f \in Fields
               PROVE  LET news == {n \in 1..seen[c] : c \in Fuzzers /\ f \in Updates[out'[c][n].kind]}
                      IN  IF news = {} THEN stats[c][f] = 0
                          ELSE stats[c][f] \in news /\ \A n \in news : n <= stats[c][f]
    BY DEF MonitorExact
  <2>1. {n \in 1..seen[c] : c \in Fuzzers /\ f \in Updates[out'[c][n].kind]}
          = {n \in 1..seen[c] : c \in Fuzzers /\ f \in Updates[out[c][n].kind]}
    BY <1>1
  <2> QED BY <2>1 DEF MessagesInv, MonitorExact
<1> QED BY <1>2, <1>3

\* A fuzzer fires an event.
LEMMA MessagesFire ==
  ASSUME TypeOK, CopiesInv, MessagesInv, NEW f \in Fuzzers, FuzzerFire(f)
  PROVE  MessagesInv'
<1>1. PICK kind \in Kinds : out' = [out EXCEPT ![f] = Append(out[f], Fired(f, kind))]
  BY DEF FuzzerFire
<1>2. UNCHANGED <<up, seen, bcast, stats>> BY DEF FuzzerFire
<1>3. OfFuzzer(Fired(f, kind)) /\ "FROM_NN" \notin Fired(f, kind).flags
  BY KindsAreEvents DEF Fired, Compressed, MarkedRight, OfFuzzer
<1>4. /\ DOMAIN out'[f] = 1..(Len(out[f]) + 1) /\ out'[f][Len(out[f]) + 1] = Fired(f, kind)
      /\ \A n \in 1..Len(out[f]) : out'[f][n] = out[f][n]
      /\ \A c \in Clients : c # f => out'[c] = out[c]
      /\ \A c \in Clients : Len(out[c]) \in Nat /\ DOMAIN out[c] = 1..Len(out[c])
  <2>1. f \in Clients /\ out \in [Clients -> Seq(Msg)] BY DEF Clients, TypeOK
  <2> QED BY <1>1, <2>1, FiredType, AppendAt
<1>5. \A c \in Clients : \A n \in DOMAIN out[c] : out'[c][n] = out[c][n] BY <1>4 DEF Clients
<1>6. Marks'
  <2>1. \A k \in Conns : k \in Clients /\ k # f BY ClientsDisjoint DEF Clients
  <2>2. ASSUME NEW n \in DOMAIN out'[f]
        PROVE  OfFuzzer(out'[f][n]) /\ "FROM_NN" \notin out'[f][n].flags
    <3>1. CASE n = Len(out[f]) + 1 BY <1>3, <1>4, <3>1
    <3>2. CASE n \in 1..Len(out[f])
      BY <1>4, <3>2 DEF MessagesInv, Marks, Clients
    <3> QED BY <1>4, <2>2, <3>1, <3>2 DEF Clients
  <2>3. \A g \in Fuzzers : g # f => out'[g] = out[g] BY <1>4 DEF Clients
  <2> QED BY <1>2, <1>4, <2>1, <2>2, <2>3 DEF MessagesInv, Marks
<1> QED BY <1>2, <1>5, <1>6, SentMore DEF MessagesInv

\* A worker hands over a network's message.
LEMMA MessagesHandOver ==
  ASSUME TypeOK, CopiesInv, MessagesInv, NEW k \in Conns, NEW m \in Msg,
         OfNetwork(m), "FROM_NN" \in m.flags,
         out' = [out EXCEPT ![k] = Append(out[k], m)], UNCHANGED <<up, seen, bcast, stats>>
  PROVE  MessagesInv'
<1>1. k \in Clients /\ out \in [Clients -> Seq(Msg)] BY DEF Clients, TypeOK
<1>2. /\ DOMAIN out'[k] = 1..(Len(out[k]) + 1) /\ out'[k][Len(out[k]) + 1] = m
      /\ \A n \in 1..Len(out[k]) : out'[k][n] = out[k][n]
      /\ \A c \in Clients : c # k => out'[c] = out[c]
      /\ \A c \in Clients : Len(out[c]) \in Nat /\ DOMAIN out[c] = 1..Len(out[c])
  BY <1>1, AppendAt
<1>3. \A c \in Clients : \A n \in DOMAIN out[c] : out'[c][n] = out[c][n] BY <1>2
<1>4. Marks'
  <2>1. \A f \in Fuzzers : f \in Clients /\ f # k BY ClientsDisjoint DEF Clients
  <2>2. ASSUME NEW n \in DOMAIN out'[k]
        PROVE  OfNetwork(out'[k][n]) /\ "FROM_NN" \in out'[k][n].flags
    <3>1. CASE n = Len(out[k]) + 1 BY <1>2, <3>1
    <3>2. CASE n \in 1..Len(out[k]) BY <1>1, <1>2, <3>2 DEF MessagesInv, Marks
    <3> QED BY <1>1, <1>2, <2>2, <3>1, <3>2
  <2>3. \A j \in Conns : j # k => out'[j] = out[j] BY <1>2 DEF Clients
  <2> QED BY <1>2, <2>1, <2>2, <2>3 DEF MessagesInv, Marks
<1> QED BY <1>3, <1>4, SentMore DEF MessagesInv

\* It marks a message of its peer as such, keeping the other flags, and a garbled
\* one too.
LEMMA MessagesRecv ==
  ASSUME TypeOK, CopiesInv, MessagesInv, NEW k \in Conns,
         WorkerRecv(k) \/ WorkerRecvGarbled(k)
  PROVE  MessagesInv'
<1>1. CASE WorkerRecv(k)
  <2> DEFINE m == up[k][Len(out[k]) + 1]
  <2>1. /\ Len(out[k]) < Len(up[k]) /\ UNCHANGED <<up, seen, bcast, stats>>
        /\ out' = [out EXCEPT ![k] = Append(out[k], Bridged(m))]
    BY <1>1 DEF WorkerRecv
  <2>2. k \in Clients /\ Len(out[k]) \in Nat /\ up[k] \in Seq(Msg) BY DEF Clients, TypeOK
  <2>3. Len(out[k]) + 1 \in DOMAIN up[k] BY <2>1, <2>2
  <2>4. m \in Msg /\ m.kind = "NewTestcase" /\ MarkedRight(m)
    BY <2>2, <2>3 DEF MessagesInv, Marks
  <2> HIDE DEF m
  <2>5. Bridged(m) \in Msg BY <2>4, BridgedType
  <2>6. OfNetwork(Bridged(m)) /\ "FROM_NN" \in Bridged(m).flags
    BY <2>4 DEF Bridged, BridgedFlags, MarkedRight, OfNetwork
  <2> QED BY <2>1, <2>5, <2>6, MessagesHandOver
<1>2. CASE WorkerRecvGarbled(k)
  <2>1. /\ UNCHANGED <<up, seen, bcast, stats>>
        /\ out' = [out EXCEPT ![k] = Append(out[k], Garbled(k))]
    BY <1>2 DEF WorkerRecvGarbled
  <2>2. OfNetwork(Garbled(k)) /\ "FROM_NN" \in Garbled(k).flags BY DEF Garbled, OfNetwork
  <2> QED BY <2>1, <2>2, GarbledType, MessagesHandOver
<1> QED BY <1>1, <1>2

\* A peer writes an input.
LEMMA MessagesSend ==
  ASSUME TypeOK, CopiesInv, MessagesInv, NEW k \in Conns, PeerSendDone(k)
  PROVE  MessagesInv'
<1>1. /\ up' = [up EXCEPT ![k] = Append(up[k], Generated(k))]
      /\ UNCHANGED <<out, seen, bcast, stats>>
  BY DEF PeerSendDone
<1>2. Generated(k).kind = "NewTestcase" /\ MarkedRight(Generated(k))
  BY DEF Generated, Compressed, MarkedRight
<1>3. /\ DOMAIN up'[k] = 1..(Len(up[k]) + 1) /\ up'[k][Len(up[k]) + 1] = Generated(k)
      /\ \A n \in 1..Len(up[k]) : up'[k][n] = up[k][n]
      /\ \A j \in Conns : j # k => up'[j] = up[j]
      /\ \A j \in Conns : Len(up[j]) \in Nat /\ DOMAIN up[j] = 1..Len(up[j])
  <2>1. up \in [Conns -> Seq(Msg)] BY DEF TypeOK
  <2> QED BY <1>1, <2>1, GeneratedType, AppendAt
<1>4. ASSUME NEW n \in DOMAIN up'[k] PROVE up'[k][n].kind = "NewTestcase" /\ MarkedRight(up'[k][n])
  <2>1. CASE n = Len(up[k]) + 1 BY <1>2, <1>3, <2>1
  <2>2. CASE n \in 1..Len(up[k]) BY <1>3, <2>2 DEF MessagesInv, Marks
  <2> QED BY <1>3, <1>4, <2>1, <2>2
<1>5. Marks' BY <1>1, <1>3, <1>4 DEF MessagesInv, Marks
<1>6. PublishedExactly' /\ MonitorExact' BY <1>1, SentMore
<1> QED BY <1>5, <1>6 DEF MessagesInv

-----------------------------------------------------------------------------
(* The broker's hook *)

\* What becomes of a message depends on its kind alone, although the hook asks
\* for the tag first: a peer's inputs pass it by and are test cases.
LEMMA HookByKind ==
  ASSUME TypeOK, CopiesInv, MessagesInv, NEW c \in Clients, NEW n \in DOMAIN out[c]
  PROVE  /\ out[c][n] \in Msg /\ out[c][n].client = c /\ out[c][n].n = n
         /\ Forwarded(out[c][n]) <=> out[c][n].kind \in Shared
         /\ \A f : f \in Touched(out[c][n]) <=> c \in Fuzzers /\ f \in Updates[out[c][n].kind]
<1>1. out[c][n] \in Msg BY DEF TypeOK
<1>2. out[c][n].client = c /\ out[c][n].n = n BY DEF CopiesInv, Numbered
<1>3. CASE c \in Fuzzers
  <2>1. out[c][n].tag = "EVENT_TO_BOTH" BY <1>3 DEF MessagesInv, Marks, OfFuzzer
  <2>2. out[c][n].kind # "Garbled" BY <1>3 DEF MessagesInv, Marks, OfFuzzer, EventKinds
  <2> QED BY <1>1, <1>2, <1>3, <2>1, <2>2 DEF Forwarded, ForwardedKinds, Shared, Touched
<1>4. CASE c \in Conns
  <2>1. out[c][n].tag = "DEFAULT" /\ out[c][n].kind \in Shared
    BY <1>4 DEF MessagesInv, Marks, OfNetwork, Shared, CopiesInv, NeverKept
  <2> QED BY <1>1, <1>2, <1>4, <2>1, ClientsDisjoint DEF Forwarded, Touched
<1> QED BY <1>3, <1>4 DEF Clients

\* The hook publishes the next message of a client, or keeps it.
LEMMA HookPublishes ==
  ASSUME TypeOK, CopiesInv, MessagesInv, NEW c \in Clients, BrokerMsg(c)
  PROVE  PublishedExactly'
<1> DEFINE n0 == seen[c] + 1
           m == out[c][n0]
<1>1. /\ seen[c] < Len(out[c]) /\ UNCHANGED <<out, up>>
      /\ bcast' = IF Forwarded(m) THEN Append(bcast, m) ELSE bcast
      /\ seen' = [seen EXCEPT ![c] = n0]
  BY DEF BrokerMsg
<1>2. /\ \A d \in Clients : seen[d] \in Nat /\ Len(out[d]) \in Nat /\ DOMAIN out[d] = 1..Len(out[d])
      /\ bcast \in Seq(Msg) /\ Len(bcast) \in Nat /\ DOMAIN bcast = 1..Len(bcast)
  BY DEF TypeOK
<1>3. n0 \in DOMAIN out[c] BY <1>1, <1>2
<1>4. /\ m \in Msg /\ m.client = c /\ m.n = n0
      /\ Forwarded(m) <=> m.kind \in Shared
  BY <1>3, HookByKind
<1>5. seen'[c] = n0 /\ \A d \in Clients : d # c => seen'[d] = seen[d]
  BY <1>1 DEF TypeOK
<1>6. n0 \in Nat /\ (\A n \in 1..n0 : n \in 1..seen[c] \/ n = n0) /\ n0 \notin 1..seen[c]
  BY <1>2
<1> HIDE DEF m, n0
<1>7. /\ \A p \in DOMAIN bcast : bcast'[p] = bcast[p]
      /\ \/ ~Forwarded(m) /\ DOMAIN bcast' = DOMAIN bcast
         \/ /\ Forwarded(m) /\ DOMAIN bcast' = 1..(Len(bcast) + 1)
            /\ bcast'[Len(bcast) + 1] = m
  BY <1>1, <1>2, <1>4
<1>8. ASSUME NEW d \in Clients, NEW p \in DOMAIN bcast', bcast'[p].client = d
      PROVE  /\ bcast'[p].n \in 1..seen'[d] /\ bcast'[p] = out[d][bcast'[p].n]
             /\ \A q \in 1..(p - 1) : bcast'[q].client = d => bcast'[q].n < bcast'[p].n
  <2>1. CASE p \in DOMAIN bcast
    <3>1. \A q \in 1..(p - 1) : q \in DOMAIN bcast BY <1>2, <2>1
    <3>2. /\ bcast[p].n \in 1..seen[d] /\ bcast[p] = out[d][bcast[p].n]
          /\ \A q \in 1..(p - 1) : bcast[q].client = d => bcast[q].n < bcast[p].n
      BY <1>7, <1>8, <2>1 DEF MessagesInv, PublishedExactly
    <3>3. seen[d] <= seen'[d] /\ seen'[d] \in Nat
      <4>1. CASE d = c BY <1>2, <1>5, <4>1 DEF n0
      <4>2. CASE d # c BY <1>2, <1>5, <4>2
      <4> QED BY <4>1, <4>2
    <3>4. bcast[p].n \in 1..seen'[d] BY <1>2, <3>2, <3>3
    <3> QED BY <1>7, <2>1, <3>1, <3>2, <3>4
  <2>2. CASE p \notin DOMAIN bcast
    <3>1. p = Len(bcast) + 1 /\ bcast'[p] = m BY <1>2, <1>7, <1>8, <2>2
    <3>2. d = c BY <1>4, <1>8, <3>1
    <3>3. bcast'[p].n = n0 /\ n0 \in 1..seen'[d] /\ bcast'[p] = out[d][n0]
      <4>1. n0 \in 1..n0 BY <1>2 DEF n0
      <4> QED BY <1>4, <1>5, <3>1, <3>2, <4>1 DEF m
    <3>4. ASSUME NEW q \in 1..(p - 1), bcast'[q].client = d PROVE bcast'[q].n < n0
      <4>1. q \in DOMAIN bcast BY <1>2, <3>1
      <4>2. bcast[q].n \in 1..seen[c] BY <1>7, <3>2, <3>4, <4>1 DEF MessagesInv, PublishedExactly
      <4> QED BY <1>2, <1>7, <4>1, <4>2 DEF n0
    <3> QED BY <3>3, <3>4
  <2> QED BY <2>1, <2>2
<1>9. ASSUME NEW d \in Clients, NEW n \in 1..seen'[d]
      PROVE  out[d][n].kind \in Shared
               <=> \E p \in DOMAIN bcast' : bcast'[p].client = d /\ bcast'[p].n = n
  <2>1. CASE d = c /\ n = n0
    <3>1. \A p \in DOMAIN bcast : bcast[p].client = c => bcast[p].n # n0
      BY <1>6 DEF MessagesInv, PublishedExactly
    <3>2. CASE Forwarded(m)
      <4>1. Len(bcast) + 1 \in DOMAIN bcast' /\ bcast'[Len(bcast) + 1] = m BY <1>2, <1>7, <3>2
      <4> QED BY <1>4, <2>1, <3>2, <4>1 DEF m
    <3>3. CASE ~Forwarded(m) BY <1>4, <1>7, <2>1, <3>1, <3>3 DEF m
    <3> QED BY <3>2, <3>3
  <2>2. CASE ~(d = c /\ n = n0)
    <3>1. n \in 1..seen[d]
      <4>1. CASE d = c BY <1>5, <1>6, <1>9, <2>2, <4>1
      <4>2. CASE d # c BY <1>5, <1>9, <4>2
      <4> QED BY <4>1, <4>2
    <3>2. out[d][n].kind \in Shared
            <=> \E p \in DOMAIN bcast : bcast[p].client = d /\ bcast[p].n = n
      BY <3>1 DEF MessagesInv, PublishedExactly, Shared
    <3>3. \A p \in DOMAIN bcast' : bcast'[p].client = d /\ bcast'[p].n = n => p \in DOMAIN bcast
      <4>1. ~(m.client = d /\ m.n = n) BY <1>4, <2>2
      <4>2. \A p \in DOMAIN bcast' : p \in DOMAIN bcast \/ bcast'[p] = m BY <1>2, <1>7
      <4> QED BY <4>1, <4>2
    <3>4. \A p \in DOMAIN bcast : p \in DOMAIN bcast' BY <1>2, <1>7
    <3> QED BY <1>7, <3>2, <3>3, <3>4
  <2> QED BY <2>1, <2>2
<1> QED BY <1>1, <1>8, <1>9 DEF PublishedExactly, Shared

\* The figures of a client are those of its newest event that carries them.
LEMMA HookCounts ==
  ASSUME TypeOK, CopiesInv, MessagesInv, NEW c \in Clients, BrokerMsg(c)
  PROVE  MonitorExact'
<1> DEFINE n0 == seen[c] + 1
           m == out[c][n0]
           News(d, f, last) == {n \in 1..last : d \in Fuzzers /\ f \in Updates[out[d][n].kind]}
<1>1. /\ seen[c] < Len(out[c]) /\ out' = out
      /\ stats' = [stats EXCEPT ![c] = [f \in Fields |-> IF f \in Touched(m) THEN m.n ELSE stats[c][f]]]
      /\ seen' = [seen EXCEPT ![c] = n0]
  BY DEF BrokerMsg
<1>2. /\ seen \in [Clients -> Nat] /\ stats \in [Clients -> [Fields -> Nat]]
      /\ Len(out[c]) \in Nat /\ DOMAIN out[c] = 1..Len(out[c])
  BY DEF TypeOK
<1>3. n0 \in DOMAIN out[c] BY <1>1, <1>2
<1>4. m.n = n0 /\ \A f : f \in Touched(m) <=> c \in Fuzzers /\ f \in Updates[out[c][n0].kind]
  BY <1>3, HookByKind
<1>5. /\ n0 \in Nat /\ n0 \in 1..n0 /\ (\A n \in 1..n0 : n \in 1..seen[c] \/ n = n0)
      /\ \A n \in 1..n0 : n <= n0
      /\ \A n \in 1..seen[c] : n \in 1..n0
  BY <1>2
<1> HIDE DEF m, n0
<1>6. /\ seen'[c] = n0 /\ \A d \in Clients : d # c => seen'[d] = seen[d] /\ stats'[d] = stats[d]
      /\ \A f \in Fields : stats'[c][f] = IF f \in Touched(m) THEN n0 ELSE stats[c][f]
  BY <1>1, <1>2, <1>4
<1> SUFFICES ASSUME NEW d \in Clients, NEW f \in Fields
             PROVE  IF News(d, f, seen'[d]) = {} THEN stats'[d][f] = 0
                    ELSE /\ stats'[d][f] \in News(d, f, seen'[d])
                         /\ \A n \in News(d, f, seen'[d]) : n <= stats'[d][f]
  BY <1>1 DEF MonitorExact
<1>7. IF News(d, f, seen[d]) = {} THEN stats[d][f] = 0
      ELSE stats[d][f] \in News(d, f, seen[d]) /\ \A n \in News(d, f, seen[d]) : n <= stats[d][f]
  BY DEF MessagesInv, MonitorExact
<1>8. CASE d # c BY <1>6, <1>7, <1>8
<1>9. CASE d = c /\ f \in Touched(m)
  <2>1. n0 \in News(c, f, n0) BY <1>4, <1>5, <1>9
  <2> QED BY <1>5, <1>6, <1>9, <2>1
<1>10. CASE d = c /\ f \notin Touched(m)
  <2>1. n0 \notin News(c, f, n0) BY <1>4, <1>10
  <2>2. News(c, f, n0) = News(c, f, seen[c]) BY <1>5, <2>1
  <2> QED BY <1>6, <1>7, <1>10, <2>2
<1> QED BY <1>8, <1>9, <1>10

-----------------------------------------------------------------------------
(* The theorems *)

\* No step of any process breaks it.
LEMMA MessagesStep ==
  ASSUME TypeOK, CopiesInv, MessagesInv, [Next]_vars
  PROVE  MessagesInv'
<1>1. UNCHANGED <<out, up, seen, bcast, stats>> => MessagesInv'
  BY SentMore DEF MessagesInv, Marks
<1>2. ASSUME NEW c \in Clients, BrokerMsg(c) PROVE MessagesInv'
  <2>1. UNCHANGED <<out, up>> BY <1>2 DEF BrokerMsg
  <2>2. Marks' BY <2>1 DEF MessagesInv, Marks
  <2> QED BY <1>2, <2>2, HookPublishes, HookCounts DEF MessagesInv
<1>3. ASSUME NEW f \in Fuzzers, FuzzerFire(f) PROVE MessagesInv' BY <1>3, MessagesFire
<1>4. ASSUME NEW k \in Conns, WorkerRecv(k) \/ WorkerRecvGarbled(k) PROVE MessagesInv'
  BY <1>4, MessagesRecv
<1>5. ASSUME NEW k \in Conns, PeerSendDone(k) PROVE MessagesInv' BY <1>5, MessagesSend
<1>6. ASSUME NEW k \in Conns, QuietWorkerStep(k) PROVE MessagesInv'
  BY <1>1, <1>6, QuietWorker
<1>7. ASSUME NEW k \in Conns,
             \/ Connect(k) \/ WorkerForward(k) \/ PeerSend(k) \/ PeerSendFails(k)
             \/ PeerRecvDone(k) \/ PeerLosesPlace(k) \/ PeerClose(k)
      PROVE  MessagesInv'
  BY <1>1, <1>7 DEF Connect, WorkerForward, PeerSend, PeerSendFails, PeerRecvDone,
                    PeerLosesPlace, PeerClose
<1>8. ASSUME NEW f \in Fuzzers, FuzzerProcess(f) \/ FuzzerFails(f) PROVE MessagesInv'
  BY <1>1, <1>8 DEF FuzzerProcess, FuzzerFails
<1>9. BrokerExit \/ UNCHANGED vars => MessagesInv' BY <1>1 DEF BrokerExit, vars
<1> QED
  BY <1>2, <1>3, <1>4, <1>5, <1>6, <1>7, <1>8, <1>9
  DEF Next, WorkerStep, QuietWorkerStep, PeerStep

THEOREM MessagesInvariant == Spec => []MessagesInv
<1>1. Init => MessagesInv
  <2> SUFFICES ASSUME Init PROVE MessagesInv
    OBVIOUS
  <2>1. /\ \A c \in Clients : DOMAIN out[c] = {} /\ seen[c] = 0 /\ \A f \in Fields : stats[c][f] = 0
        /\ \A k \in Conns : DOMAIN up[k] = {} /\ DOMAIN out[k] = {}
        /\ \A f \in Fuzzers : DOMAIN out[f] = {}
        /\ DOMAIN bcast = {}
    BY DEF Init, Clients
  <2>2. Marks BY <2>1 DEF Marks
  <2>3. PublishedExactly BY <2>1 DEF PublishedExactly
  <2>4. MonitorExact BY <2>1 DEF MonitorExact
  <2> QED BY <2>2, <2>3, <2>4 DEF MessagesInv
<1>2. TypeOK /\ CopiesInv /\ MessagesInv /\ [Next]_vars => MessagesInv' BY MessagesStep
<1> QED BY <1>1, <1>2, TypeCorrect, CopiesInvariant, PTL DEF Spec

\* The broadcast is what clients share, each client's in its order, each once,
\* though the broker looks at the tag of a message before its kind.
THEOREM PublishesExactly == Spec => []PublishedExactly
<1>1. MessagesInv => PublishedExactly BY DEF MessagesInv
<1> QED BY <1>1, MessagesInvariant, PTL

\* Flags that cross three hands still say how the payload is packed and which
\* side of the bridge it is from.
THEOREM AlwaysDecodable == Spec => []Decodable
<1>1. MessagesInv => Decodable BY MarksDecodable DEF MessagesInv
<1> QED BY <1>1, MessagesInvariant, PTL

\* The monitor's figures are those of the newest event that carries them, and a
\* neural network's inputs never touch them.
THEOREM MonitorIsExact == Spec => []MonitorExact
<1>1. MessagesInv => MonitorExact BY DEF MessagesInv
<1> QED BY <1>1, MessagesInvariant, PTL
=============================================================================
