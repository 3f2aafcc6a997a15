--------------------------- MODULE NnBridgeProofs ---------------------------
(***************************************************************************)
(* Theorems about NnBridge, for any number of fuzzers and connections, any *)
(* bounds and any windows.                                                 *)
(***************************************************************************)
EXTENDS NnBridge, SequenceTheorems, TLAPS

USE DEF brokerVars, fuzzerVars, workerVars, peerVars

-----------------------------------------------------------------------------
(* Types *)

\* A fired event is an LLMP message (NNEventManager::fire).
LEMMA FiredType ==
  ASSUME TypeOK, NEW f \in Fuzzers, NEW kind \in Kinds
  PROVE  Fired(f, kind) \in Msg
<1>1. Len(out[f]) + 1 \in Nat BY DEF TypeOK, Clients
<1>2. Compressed(Len(out[f]) + 1) \in SUBSET Flags BY DEF Compressed, Flags
<1> QED BY <1>1, <1>2, KindsAreEvents DEF Fired, Msg, Clients, Tags

\* A generated input is one too (generate_event).
LEMMA GeneratedType ==
  ASSUME TypeOK, NEW k \in Conns
  PROVE  Generated(k) \in Msg
<1>1. Len(up[k]) + 1 \in Nat BY DEF TypeOK
<1>2. Compressed(Len(up[k]) + 1) \in SUBSET Flags BY DEF Compressed, Flags
<1> QED BY <1>1, <1>2 DEF Generated, InputTag, Msg, Clients, Tags, EventKinds

\* So is what the worker makes of a message of its peer (handle_connection).
LEMMA BridgedType ==
  ASSUME NEW m \in Msg
  PROVE  Bridged(m) \in Msg
<1>1. BridgedFlags(m) \in SUBSET Flags BY DEF BridgedFlags, Flags, Msg
<1> QED BY <1>1 DEF Bridged, Msg

\* And what a worker out of place hands over.
LEMMA GarbledType ==
  ASSUME TypeOK, NEW k \in Conns
  PROVE  Garbled(k) \in Msg
<1>1. Len(out[k]) + 1 \in Nat BY DEF TypeOK, Clients
<1> QED BY <1>1 DEF Garbled, Msg, Clients, Tags, Flags

\* Every step keeps the type of every variable.
LEMMA TypeStep ==
  ASSUME TypeOK, [Next]_vars
  PROVE  TypeOK'
<1>1. ASSUME NEW f \in Fuzzers, FuzzerFire(f) PROVE TypeOK'
  <2>1. PICK kind \in Kinds : out' = [out EXCEPT ![f] = Append(@, Fired(f, kind))]
    BY <1>1 DEF FuzzerFire
  <2>2. Fired(f, kind) \in Msg BY FiredType
  <2>3. out' \in [Clients -> Seq(Msg)] BY <2>1, <2>2 DEF TypeOK, Clients
  <2> QED BY <1>1, <2>3 DEF FuzzerFire, TypeOK
<1>2. ASSUME NEW f \in Fuzzers, FuzzerProcess(f) PROVE TypeOK'
  <2>1. ran' \in [Fuzzers -> Seq(Nat)] BY <1>2 DEF FuzzerProcess, TypeOK
  <2>2. fcur' \in [Fuzzers -> Nat] BY <1>2 DEF FuzzerProcess, TypeOK
  <2> QED BY <1>2, <2>1, <2>2 DEF FuzzerProcess, TypeOK
<1>3. ASSUME NEW c \in Clients, BrokerMsg(c) PROVE TypeOK'
  <2> DEFINE m == out[c][seen[c] + 1]
  <2>1. m \in Msg BY <1>3 DEF BrokerMsg, TypeOK
  <2>2. bcast' \in Seq(Msg) BY <1>3, <2>1 DEF BrokerMsg, TypeOK
  <2>3. m.n \in Nat BY <2>1 DEF Msg
  <2>4. stats' \in [Clients -> [Fields -> Nat]]
    <3>1. stats' = [stats EXCEPT ![c] =
                     [f \in Fields |-> IF f \in Touched(m) THEN m.n ELSE stats[c][f]]]
      BY <1>3 DEF BrokerMsg
    <3>2. [f \in Fields |-> IF f \in Touched(m) THEN m.n ELSE stats[c][f]] \in [Fields -> Nat]
      BY <2>3 DEF TypeOK
    <3> HIDE DEF m
    <3> QED BY <3>1, <3>2 DEF TypeOK
  <2>5. seen' \in [Clients -> Nat] BY <1>3 DEF BrokerMsg, TypeOK
  <2> QED BY <1>3, <2>2, <2>4, <2>5 DEF BrokerMsg, TypeOK
<1>4. CASE BrokerExit
  BY <1>4 DEF BrokerExit, TypeOK
<1>5. ASSUME NEW k \in Conns, Connect(k) PROVE TypeOK'
  BY <1>5 DEF Connect, TypeOK
<1>6. ASSUME NEW k \in Conns, WorkerSkip(k) PROVE TypeOK'
  BY <1>6 DEF WorkerSkip, Advance, TypeOK
<1>7. ASSUME NEW k \in Conns, WorkerForward(k) PROVE TypeOK'
  BY <1>7 DEF WorkerForward, Advance, TypeOK
<1>8. ASSUME NEW k \in Conns, WorkerForwardFails(k) PROVE TypeOK'
  BY <1>8 DEF WorkerForwardFails, Advance, Panic, TypeOK
<1>9. ASSUME NEW k \in Conns,
             \/ WorkerEmpty(k) \/ WorkerBrokerGone(k) \/ WorkerRecvFails(k)
             \/ WorkerLosesPlace(k) \/ WorkerRecvDies(k)
      PROVE TypeOK'
  BY <1>9 DEF WorkerEmpty, WorkerBrokerGone, WorkerRecvFails, WorkerLosesPlace, WorkerRecvDies,
              Panic, TypeOK
<1>10. ASSUME NEW k \in Conns, WorkerRecv(k) PROVE TypeOK'
  <2>1. k \in Clients BY DEF Clients
  <2>2. up[k][Len(out[k]) + 1] \in Msg BY <1>10, <2>1 DEF WorkerRecv, TypeOK
  <2>3. Bridged(up[k][Len(out[k]) + 1]) \in Msg BY <2>2, BridgedType
  <2>4. out' = [out EXCEPT ![k] = Append(out[k], Bridged(up[k][Len(out[k]) + 1]))]
    BY <1>10 DEF WorkerRecv
  <2>5. out' \in [Clients -> Seq(Msg)] BY <2>1, <2>3, <2>4 DEF TypeOK
  <2> QED BY <1>10, <2>5 DEF WorkerRecv, TypeOK
<1>11. ASSUME NEW k \in Conns,
              PeerSend(k) \/ PeerSendFails(k) \/ PeerLosesPlace(k) \/ PeerClose(k)
       PROVE TypeOK'
  BY <1>11 DEF PeerSend, PeerSendFails, PeerLosesPlace, PeerClose, TypeOK
<1>12. ASSUME NEW k \in Conns, PeerRecvDone(k) PROVE TypeOK'
  BY <1>12 DEF PeerRecvDone, TypeOK
<1>13. ASSUME NEW k \in Conns, PeerSendDone(k) PROVE TypeOK'
  <2>1. Generated(k) \in Msg BY GeneratedType
  <2>2. up' \in [Conns -> Seq(Msg)] BY <1>13, <2>1 DEF PeerSendDone, TypeOK
  <2> QED BY <1>13, <2>2 DEF PeerSendDone, TypeOK
<1>14. CASE UNCHANGED vars
  BY <1>14 DEF vars, TypeOK
<1>15. ASSUME NEW k \in Conns, WorkerRecvGarbled(k) PROVE TypeOK'
  <2>1. out' = [out EXCEPT ![k] = Append(out[k], Garbled(k))] BY <1>15 DEF WorkerRecvGarbled
  <2>2. out' \in [Clients -> Seq(Msg)] BY <2>1, GarbledType DEF TypeOK, Clients
  <2> QED BY <1>15, <2>2 DEF WorkerRecvGarbled, TypeOK
<1>16. ASSUME NEW f \in Fuzzers, FuzzerFails(f) PROVE TypeOK'
  BY <1>16 DEF FuzzerFails, TypeOK
<1> QED
  BY <1>1, <1>2, <1>3, <1>4, <1>5, <1>6, <1>7, <1>8, <1>9, <1>10, <1>11, <1>12, <1>13, <1>14,
     <1>15, <1>16
  DEF Next, WorkerStep, PeerStep

\* Every variable keeps its type: Spec => []TypeOK.
THEOREM TypeCorrect == Spec => []TypeOK
<1>1. Init => TypeOK BY DEF Init, TypeOK, Clients, Fields
<1>2. TypeOK /\ [Next]_vars => TypeOK' BY TypeStep
<1> QED BY <1>1, <1>2, PTL DEF Spec

-----------------------------------------------------------------------------
(***************************************************************************)
(* The feed of a peer.  FeedInOrder, NoEcho and FeedComplete talk about    *)
(* what lies between a worker's first and present cursor.  To be inductive *)
(* they need that the cursors stay within the broadcast, which only grows, *)
(* and that a worker that has not attached has written nothing.            *)
(***************************************************************************)

CursorsInLog ==
  \A k \in Conns : start[k] <= cur[k] /\ cur[k] <= Len(bcast)

NothingBeforeAttach ==
  \A k \in Conns : wpc[k] = "none" => down[k] = <<>>

FeedInv ==
  /\ TypeOK
  /\ CursorsInLog
  /\ NothingBeforeAttach
  /\ FeedInOrder
  /\ NoEcho
  /\ FeedComplete

\* What FeedInv says of the types, in the form the steps need.
LEMMA FeedTypes ==
  ASSUME FeedInv
  PROVE  /\ start \in [Conns -> Nat] /\ cur \in [Conns -> Nat]
         /\ down \in [Conns -> Seq(Nat)] /\ Len(bcast) \in Nat
         /\ \A k \in Conns : DOMAIN down[k] = 1..Len(down[k]) /\ Len(down[k]) \in Nat
         /\ \A k \in Conns : \A i \in DOMAIN down[k] : down[k][i] \in Nat
BY DEF FeedInv, TypeOK

\* The broadcast only grows, one message at a time (broker_loop).
LEMMA BcastGrows ==
  ASSUME TypeOK, NEW c \in Clients, BrokerMsg(c)
  PROVE  /\ bcast' \in Seq(Msg)
         /\ Len(bcast) <= Len(bcast')
         /\ \A p \in 1..Len(bcast) : bcast'[p] = bcast[p]
<1> DEFINE m == out[c][seen[c] + 1]
<1>1. m \in Msg BY DEF BrokerMsg, TypeOK
<1>2. bcast' = Append(bcast, m) \/ bcast' = bcast BY DEF BrokerMsg
<1>3. bcast \in Seq(Msg) BY DEF TypeOK
<1> HIDE DEF m
<1>4. CASE bcast' = bcast BY <1>3, <1>4
<1>5. CASE bcast' = Append(bcast, m) BY <1>1, <1>3, <1>5, AppendProperties
<1> QED BY <1>2, <1>4, <1>5

\* The feed invariant does not depend on what lies in the broadcast beyond the
\* cursors: any step that leaves the workers alone and lets the broadcast grow
\* preserves it.
LEMMA FeedInvStable ==
  ASSUME FeedInv, TypeOK', UNCHANGED workerVars,
         Len(bcast) <= Len(bcast'),
         \A p \in 1..Len(bcast) : bcast'[p] = bcast[p]
  PROVE  FeedInv'
<1>1. CursorsInLog' BY DEF FeedInv, CursorsInLog, TypeOK
<1>2. NothingBeforeAttach' BY DEF FeedInv, NothingBeforeAttach
<1>3. FeedInOrder' BY DEF FeedInv, FeedInOrder
<1>4. ASSUME NEW k \in Conns, NEW p \in (start[k] + 1)..cur[k]
      PROVE  p \in 1..Len(bcast) /\ bcast'[p] = bcast[p]
  BY <1>4 DEF FeedInv, CursorsInLog, TypeOK
<1>5. NoEcho' BY <1>4 DEF FeedInv, NoEcho, FeedInOrder
<1>6. FeedComplete'
  <2> SUFFICES ASSUME NEW k \in Conns
               PROVE  /\ wpc[k] \in {"drain", "recv"} => NoGap(k, cur[k])'
                      /\ \A i \in DOMAIN down[k] : NoGap(k, down[k][i])'
    BY DEF FeedComplete
  <2>1. wpc[k] \in {"drain", "recv"} => NoGap(k, cur[k])'
    BY <1>4 DEF FeedInv, FeedComplete, NoGap
  <2>2. ASSUME NEW i \in DOMAIN down[k] PROVE NoGap(k, down[k][i])'
    <3>1. down[k][i] \in (start[k] + 1)..cur[k] BY DEF FeedInv, FeedInOrder
    <3>2. \A p \in (start[k] + 1)..down[k][i] : p \in (start[k] + 1)..cur[k]
      BY <3>1 DEF TypeOK, FeedInv
    <3> QED BY <1>4, <3>2 DEF FeedInv, FeedComplete, NoGap
  <2> QED BY <2>1, <2>2
<1> QED BY <1>1, <1>2, <1>3, <1>5, <1>6 DEF FeedInv

\* A worker that attaches has an empty feed.
LEMMA FeedInvConnect ==
  ASSUME FeedInv, TypeOK', NEW k \in Conns, Connect(k)
  PROVE  FeedInv'
<1>1. PICK p \in 0..Len(bcast) :
        /\ start' = [start EXCEPT ![k] = p]
        /\ cur' = [cur EXCEPT ![k] = p]
  BY DEF Connect
<1>2. down[k] = <<>> /\ down' = down /\ bcast' = bcast
  BY DEF Connect, FeedInv, NothingBeforeAttach
<1>3. wpc' = [wpc EXCEPT ![k] = "drain"] BY DEF Connect
<1>4. CursorsInLog' BY <1>1, <1>2 DEF FeedInv, CursorsInLog, TypeOK
<1>5. NothingBeforeAttach' BY <1>2, <1>3 DEF FeedInv, NothingBeforeAttach, TypeOK
<1>9. /\ DOMAIN down[k] = {} /\ p \in Nat /\ start'[k] = p /\ cur'[k] = p
      /\ \A j \in Conns : j # k => start'[j] = start[j] /\ cur'[j] = cur[j] /\ wpc'[j] = wpc[j]
  BY <1>1, <1>2, <1>3, FeedTypes DEF FeedInv, TypeOK
<1>6. FeedInOrder' BY <1>2, <1>9 DEF FeedInv, FeedInOrder
<1>7. NoEcho' BY <1>2 DEF FeedInv, NoEcho
<1>8. FeedComplete'
  <2> SUFFICES ASSUME NEW j \in Conns
               PROVE  /\ wpc'[j] \in {"drain", "recv"} => NoGap(j, cur[j])'
                      /\ \A i \in DOMAIN down'[j] : NoGap(j, down[j][i])'
    BY DEF FeedComplete
  <2>1. CASE j = k
    BY <1>2, <1>9, <2>1 DEF NoGap
  <2>2. CASE j # k
    BY <1>2, <1>9, <2>2 DEF FeedInv, FeedComplete, NoGap
  <2> QED BY <2>1, <2>2
<1> QED BY <1>4, <1>5, <1>6, <1>7, <1>8 DEF FeedInv

\* A worker passes over one of its own messages: nothing of the others is lost.
LEMMA FeedInvSkip ==
  ASSUME FeedInv, TypeOK', NEW k \in Conns, WorkerSkip(k)
  PROVE  FeedInv'
<1>1. /\ wpc[k] = "drain" /\ cur[k] < Len(bcast) /\ bcast[cur[k] + 1].client = k
      /\ cur' = [cur EXCEPT ![k] = cur[k] + 1]
      /\ UNCHANGED <<bcast, wpc, start, down>>
  BY DEF WorkerSkip, HasNext, NextMsg, Own, Advance
<1>2. CursorsInLog' BY <1>1 DEF FeedInv, CursorsInLog, TypeOK
<1>3. NothingBeforeAttach' BY <1>1 DEF FeedInv, NothingBeforeAttach
<1>7. \A j \in Conns : cur'[j] \in Nat /\ cur[j] \in Nat /\ start[j] \in Nat
                       /\ cur[j] <= cur'[j] /\ (j # k => cur'[j] = cur[j])
  BY <1>1, FeedTypes
<1>8. cur'[k] = cur[k] + 1 BY <1>1, FeedTypes
<1>4. FeedInOrder' BY <1>1, <1>7, FeedTypes DEF FeedInv, FeedInOrder
<1>5. NoEcho' BY <1>1 DEF FeedInv, NoEcho
<1>6. FeedComplete'
  <2>1. \A j \in Conns : \A to : NoGap(j, to)' <=> NoGap(j, to) BY <1>1 DEF NoGap
  <2>2. NoGap(k, cur[k]) BY <1>1 DEF FeedInv, FeedComplete
  <2>3. NoGap(k, cur[k] + 1) BY <1>1, <1>7, <2>2 DEF NoGap
  <2>4. \A j \in Conns : wpc[j] \in {"drain", "recv"} => NoGap(j, cur'[j])
    BY <1>7, <1>8, <2>3 DEF FeedInv, FeedComplete
  <2> QED BY <1>1, <2>1, <2>4 DEF FeedInv, FeedComplete, NoGap
<1> QED BY <1>2, <1>3, <1>4, <1>5, <1>6 DEF FeedInv

\* A worker writes the next message of another client.
LEMMA FeedInvForward ==
  ASSUME FeedInv, TypeOK', NEW k \in Conns, WorkerForward(k)
  PROVE  FeedInv'
<1>1. /\ wpc[k] = "drain" /\ cur[k] < Len(bcast) /\ bcast[cur[k] + 1].client # k
      /\ cur' = [cur EXCEPT ![k] = cur[k] + 1]
      /\ down' = [down EXCEPT ![k] = Append(down[k], cur[k] + 1)]
      /\ UNCHANGED <<bcast, wpc, start>>
  BY DEF WorkerForward, HasNext, NextMsg, Own, Advance
<1>2. /\ down[k] \in Seq(Nat) /\ cur[k] \in Nat /\ start[k] \in Nat
      /\ start[k] <= cur[k] /\ cur'[k] = cur[k] + 1
  BY <1>1 DEF FeedInv, TypeOK, CursorsInLog
<1>3. /\ Len(down'[k]) = Len(down[k]) + 1
      /\ \A i \in 1..Len(down[k]) : down'[k][i] = down[k][i]
      /\ down'[k][Len(down[k]) + 1] = cur[k] + 1
      /\ DOMAIN down'[k] = 1..(Len(down[k]) + 1)
      /\ DOMAIN down[k] = 1..Len(down[k])
  <2>1. down'[k] = Append(down[k], cur[k] + 1) BY <1>1 DEF FeedInv, TypeOK
  <2>2. cur[k] + 1 \in Nat BY <1>2
  <2>3. down'[k] \in Seq(Nat) BY DEF TypeOK
  <2> QED BY <1>2, <2>1, <2>2, <2>3, AppendProperties
<1>4. \A j \in Conns : j # k => cur'[j] = cur[j] /\ down'[j] = down[j]
  BY <1>1 DEF FeedInv, TypeOK
<1>5. CursorsInLog' BY <1>1 DEF FeedInv, CursorsInLog, TypeOK
<1>6. NothingBeforeAttach' BY <1>1, <1>4 DEF FeedInv, NothingBeforeAttach
<1>7. \A i \in 1..Len(down[k]) : down[k][i] \in (start[k] + 1)..cur[k]
  BY <1>3 DEF FeedInv, FeedInOrder
<1>8. FeedInOrder'
  <2> SUFFICES ASSUME NEW j \in Conns
               PROVE  /\ \A i \in DOMAIN down'[j] : down'[j][i] \in (start'[j] + 1)..cur'[j]
                      /\ \A h, i \in DOMAIN down'[j] : h < i => down'[j][h] < down'[j][i]
    BY DEF FeedInOrder
  <2>1. CASE j # k BY <1>1, <1>4, <2>1 DEF FeedInv, FeedInOrder
  <2>2. CASE j = k
    <3>1. \A i \in 1..(Len(down[k]) + 1) : down'[k][i] \in (start[k] + 1)..(cur[k] + 1)
      <4> TAKE i \in 1..(Len(down[k]) + 1)
      <4>1. CASE i = Len(down[k]) + 1 BY <1>2, <1>3, <4>1
      <4>2. CASE i # Len(down[k]) + 1
        <5>1. i \in 1..Len(down[k]) BY <1>2, <4>2
        <5>2. down'[k][i] \in (start[k] + 1)..cur[k] BY <1>3, <1>7, <5>1
        <5> QED BY <1>2, <5>2
      <4> QED BY <4>1, <4>2
    <3>2. ASSUME NEW h \in 1..(Len(down[k]) + 1), NEW i \in 1..(Len(down[k]) + 1), h < i
          PROVE  down'[k][h] < down'[k][i]
      <4>1. h \in 1..Len(down[k]) /\ down'[k][h] = down[k][h] BY <1>2, <1>3, <3>2
      <4>2. CASE i = Len(down[k]) + 1 BY <1>2, <1>3, <1>7, <4>1, <4>2
      <4>3. CASE i # Len(down[k]) + 1
        <5>1. i \in 1..Len(down[k]) /\ down'[k][i] = down[k][i] BY <1>2, <1>3, <4>3
        <5> QED BY <1>3, <3>2, <4>1, <5>1 DEF FeedInv, FeedInOrder
      <4> QED BY <4>2, <4>3
    <3> QED BY <1>1, <1>2, <1>3, <2>2, <3>1, <3>2
  <2> QED BY <2>1, <2>2
<1>9. NoEcho'
  <2> SUFFICES ASSUME NEW j \in Conns, NEW i \in DOMAIN down'[j]
               PROVE  bcast'[down'[j][i]].client # j
    BY DEF NoEcho
  <2>1. CASE j # k BY <1>1, <1>4, <2>1 DEF FeedInv, NoEcho
  <2>2. CASE j = k /\ i \in 1..Len(down[k]) BY <1>1, <1>3, <2>2 DEF FeedInv, NoEcho
  <2>3. CASE j = k /\ i = Len(down[k]) + 1 BY <1>1, <1>3, <2>3
  <2> QED BY <1>2, <1>3, <2>1, <2>2, <2>3
<1>10. FeedComplete'
  <2> SUFFICES ASSUME NEW j \in Conns
               PROVE  /\ wpc'[j] \in {"drain", "recv"} => NoGap(j, cur[j])'
                      /\ \A i \in DOMAIN down'[j] : NoGap(j, down[j][i])'
    BY DEF FeedComplete
  <2>1. CASE j # k BY <1>1, <1>4, <2>1 DEF FeedInv, FeedComplete, NoGap
  <2>2. CASE j = k
    <3>1. NoGap(k, cur[k]) BY <1>1 DEF FeedInv, FeedComplete
    <3>2. ASSUME NEW p \in (start[k] + 1)..(cur[k] + 1)
          PROVE  bcast[p].client = k \/ \E i \in DOMAIN down'[k] : down'[k][i] = p
      <4>1. CASE p = cur[k] + 1 BY <1>2, <1>3, <4>1
      <4>2. CASE p # cur[k] + 1
        <5>1. p \in (start[k] + 1)..cur[k] BY <1>2, <4>2
        <5>2. bcast[p].client = k \/ \E i \in 1..Len(down[k]) : down[k][i] = p
          BY <1>3, <3>1, <5>1 DEF NoGap
        <5>3. CASE bcast[p].client = k BY <5>3
        <5>4. CASE \E i \in 1..Len(down[k]) : down[k][i] = p
          <6>1. PICK i \in 1..Len(down[k]) : down[k][i] = p BY <5>4
          <6>2. i \in DOMAIN down'[k] /\ down'[k][i] = p BY <1>2, <1>3, <6>1
          <6> QED BY <6>2
        <5> QED BY <5>2, <5>3, <5>4
      <4> QED BY <4>1, <4>2
    <3>3. NoGap(k, cur[k])' BY <1>1, <1>2, <3>2 DEF NoGap
    <3>4. ASSUME NEW i \in DOMAIN down'[k] PROVE NoGap(k, down[k][i])'
      <4>1. down'[k][i] \in (start[k] + 1)..(cur[k] + 1)
        BY <1>1, <1>2, <1>8 DEF FeedInOrder
      <4>2. \A p \in (start[k] + 1)..down'[k][i] : p \in (start[k] + 1)..(cur[k] + 1)
        BY <1>2, <4>1
      <4> QED BY <1>1, <3>2, <4>2 DEF NoGap
    <3> QED BY <2>2, <3>3, <3>4
  <2> QED BY <2>1, <2>2
<1> QED BY <1>5, <1>6, <1>8, <1>9, <1>10 DEF FeedInv

\* A worker that changes its state without writing: it dies, or it goes on from
\* draining to reading or back.
LEMMA FeedInvMove ==
  ASSUME FeedInv, TypeOK', NEW k \in Conns,
         \/ WorkerForwardFails(k) \/ WorkerEmpty(k) \/ WorkerBrokerGone(k)
         \/ WorkerRecv(k) \/ WorkerRecvGarbled(k) \/ WorkerRecvFails(k)
         \/ WorkerLosesPlace(k) \/ WorkerRecvDies(k)
  PROVE  FeedInv'
<1> USE DEF WorkerForwardFails, WorkerEmpty, WorkerBrokerGone, WorkerRecv, WorkerRecvGarbled,
            WorkerRecvFails, WorkerLosesPlace, WorkerRecvDies, Panic
<1>1. UNCHANGED <<bcast, start, down>>
  OBVIOUS
<1>2. \/ cur' = cur
      \/ /\ wpc' = [wpc EXCEPT ![k] = "dead"] /\ cur[k] < Len(bcast)
         /\ cur' = [cur EXCEPT ![k] = cur[k] + 1]
  BY DEF Advance, HasNext
<1>3. /\ wpc[k] \in {"drain", "recv"}
      /\ \E s \in {"drain", "recv", "dead"} : wpc' = [wpc EXCEPT ![k] = s]
  BY DEF HasNext
<1> HIDE DEF WorkerForwardFails, WorkerEmpty, WorkerBrokerGone, WorkerRecv, WorkerRecvGarbled,
             WorkerRecvFails, WorkerLosesPlace, WorkerRecvDies, Panic
<1>9. \A j \in Conns : cur'[j] \in Nat /\ cur[j] \in Nat /\ start[j] \in Nat
                       /\ cur[j] <= cur'[j] /\ (cur'[j] = cur[j] \/ cur'[j] <= Len(bcast))
  <2>1. CASE cur' = cur BY <2>1, FeedTypes
  <2>2. CASE cur[k] < Len(bcast) /\ cur' = [cur EXCEPT ![k] = cur[k] + 1]
    BY <2>2, FeedTypes
  <2> QED BY <1>2, <2>1, <2>2
<1>4. CursorsInLog' BY <1>1, <1>9, FeedTypes DEF FeedInv, CursorsInLog
<1>5. NothingBeforeAttach' BY <1>1, <1>3 DEF FeedInv, NothingBeforeAttach, TypeOK
<1>6. FeedInOrder'
  <2>1. FeedInOrder BY DEF FeedInv
  <2>2. \A j \in Conns : \A i \in DOMAIN down[j] : down[j][i] \in Nat BY FeedTypes
  <2> QED BY <1>1, <1>9, <2>1, <2>2 DEF FeedInOrder
<1>7. NoEcho' BY <1>1 DEF FeedInv, NoEcho
<1>8. FeedComplete'
  <2>1. \A j \in Conns : \A to : NoGap(j, to)' <=> NoGap(j, to) BY <1>1 DEF NoGap
  <2>2. \A j \in Conns :
          wpc'[j] \in {"drain", "recv"} => wpc[j] \in {"drain", "recv"} /\ cur'[j] = cur[j]
    BY <1>2, <1>3 DEF FeedInv, TypeOK
  <2>3. \A j \in Conns : wpc'[j] \in {"drain", "recv"} => NoGap(j, cur'[j])
    BY <2>2 DEF FeedInv, FeedComplete
  <2> QED BY <1>1, <2>1, <2>3 DEF FeedInv, FeedComplete, NoGap
<1> QED BY <1>4, <1>5, <1>6, <1>7, <1>8 DEF FeedInv

\* Every step keeps the feed invariant.
LEMMA FeedStep ==
  ASSUME FeedInv, [Next]_vars
  PROVE  FeedInv'
<1>1. TypeOK /\ TypeOK' BY TypeStep DEF FeedInv
<1>2. bcast \in Seq(Msg) /\ Len(bcast) \in Nat BY <1>1 DEF TypeOK
<1>3. ASSUME UNCHANGED workerVars, UNCHANGED bcast PROVE FeedInv'
  BY <1>1, <1>2, <1>3, FeedInvStable
<1>4. ASSUME NEW f \in Fuzzers, FuzzerFire(f) \/ FuzzerProcess(f) \/ FuzzerFails(f)
      PROVE  FeedInv'
  BY <1>3, <1>4 DEF FuzzerFire, FuzzerProcess, FuzzerFails
<1>5. ASSUME NEW c \in Clients, BrokerMsg(c) PROVE FeedInv'
  <2>1. UNCHANGED workerVars BY <1>5 DEF BrokerMsg
  <2>2. /\ Len(bcast) <= Len(bcast')
        /\ \A p \in 1..Len(bcast) : bcast'[p] = bcast[p]
    BY <1>1, <1>5, BcastGrows
  <2> QED BY <1>1, <2>1, <2>2, FeedInvStable
<1>6. CASE BrokerExit BY <1>3, <1>6 DEF BrokerExit
<1>7. ASSUME NEW k \in Conns, Connect(k) PROVE FeedInv' BY <1>1, <1>7, FeedInvConnect
<1>8. ASSUME NEW k \in Conns, WorkerStep(k) PROVE FeedInv'
  BY <1>1, <1>8, FeedInvSkip, FeedInvForward, FeedInvMove DEF WorkerStep
<1>9. ASSUME NEW k \in Conns, PeerStep(k) PROVE FeedInv'
  BY <1>3, <1>9 DEF PeerStep, PeerSend, PeerSendDone, PeerSendFails, PeerRecvDone,
                    PeerLosesPlace, PeerClose
<1>10. CASE UNCHANGED vars BY <1>3, <1>10 DEF vars
<1> QED BY <1>4, <1>5, <1>6, <1>7, <1>8, <1>9, <1>10 DEF Next

\* Cursors lie in the broadcast, nothing is written before a worker attaches, and
\* the three feed properties hold, together, at all times.
THEOREM FeedInvariant == Spec => []FeedInv
<1>1. Init => FeedInv
  <2> SUFFICES ASSUME Init PROVE FeedInv
    OBVIOUS
  <2>1. TypeOK BY DEF Init, TypeOK, Clients, Fields
  <2>2. /\ bcast = <<>> /\ \A k \in Conns : start[k] = 0 /\ cur[k] = 0 /\ wpc[k] = "none"
        /\ \A k \in Conns : down[k] = <<>> /\ DOMAIN down[k] = {}
    BY DEF Init
  <2>3. CursorsInLog /\ NothingBeforeAttach BY <2>2 DEF CursorsInLog, NothingBeforeAttach
  <2>4. FeedInOrder /\ NoEcho /\ FeedComplete
    BY <2>2 DEF FeedInOrder, NoEcho, FeedComplete, NoGap
  <2> QED BY <2>1, <2>3, <2>4 DEF FeedInv
<1>2. FeedInv /\ [Next]_vars => FeedInv' BY FeedStep
<1> QED BY <1>1, <1>2, PTL DEF Spec

\* What a worker writes is in broadcast order and without repetition.
THEOREM FeedOrdered == Spec => []FeedInOrder
<1>1. FeedInv => FeedInOrder BY DEF FeedInv
<1> QED BY <1>1, FeedInvariant, PTL

\* No peer is sent its own inputs back.
THEOREM NeverEchoed == Spec => []NoEcho
<1>1. FeedInv => NoEcho BY DEF FeedInv
<1> QED BY <1>1, FeedInvariant, PTL

\* A worker that lives leaves out no message of another client.
THEOREM NeverGapped == Spec => []FeedComplete
<1>1. FeedInv => FeedComplete BY DEF FeedInv
<1> QED BY <1>1, FeedInvariant, PTL
=============================================================================
