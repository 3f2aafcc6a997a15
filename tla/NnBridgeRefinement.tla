------------------------- MODULE NnBridgeRefinement -------------------------
(***************************************************************************)
(* NnBridge implements NnFeed, for any number of fuzzers and connections,  *)
(* any bounds and any windows.                                             *)
(***************************************************************************)
EXTENDS NnBridgeProofs

USE DEF brokerVars, fuzzerVars, workerVars, peerVars

-----------------------------------------------------------------------------
(***************************************************************************)
(* The invariant.  The mapping counts what a peer has written, or its      *)
(* worker out of place has handed over beyond that, as submitted, and what *)
(* it has read as delivered, so beyond FeedInv the proof needs how far the *)
(* copies of a message have come: the n-th message of a client is its n-th *)
(* in every place, no cursor is past what it reads, the broker keeps       *)
(* nothing of a peer, and a fuzzer is up to date.                          *)
(***************************************************************************)

LastRan(f) == IF ran[f] = <<>> THEN 0 ELSE ran[f][Len(ran[f])]

Numbered ==
  /\ \A c \in Clients : \A n \in DOMAIN out[c] : out[c][n].client = c /\ out[c][n].n = n
  /\ \A k \in Conns : \A n \in DOMAIN up[k] : up[k][n].client = k /\ up[k][n].n = n

NeverKept ==
  \A k \in Conns :
    /\ \A n \in DOMAIN out[k] : out[k][n].tag = "DEFAULT"
    /\ \A n \in DOMAIN up[k] : up[k][n].tag = "DEFAULT"

CursorsBehind ==
  /\ \A c \in Clients : seen[c] <= Len(out[c])
  /\ \A k \in Conns : got[k] <= Len(down[k])

PeerHasWorker == \A k \in Conns : wpc[k] = "none" => ppc[k] = "off"

UpToDate(f) ==
  /\ LastRan(f) \in Nat /\ LastRan(f) <= fcur[f] /\ fcur[f] <= Len(bcast)
  /\ \A p \in (LastRan(f) + 1)..fcur[f] : bcast[p].client = f
FuzzersUpToDate == \A f \in Fuzzers : UpToDate(f)

CopiesInv ==
  /\ Numbered
  /\ NeverKept
  /\ CursorsBehind
  /\ PeerHasWorker
  /\ FuzzersUpToDate

\* Appending to the messages of one client leaves the others' and its own
\* earlier ones as they are.
LEMMA AppendAt ==
  ASSUME NEW D, NEW S, NEW f \in [D -> Seq(S)], NEW c \in D, NEW m \in S,
         NEW g, g = [f EXCEPT ![c] = Append(f[c], m)]
  PROVE  /\ g[c] = Append(f[c], m)
         /\ Len(g[c]) = Len(f[c]) + 1
         /\ DOMAIN g[c] = 1..(Len(f[c]) + 1)
         /\ g[c][Len(f[c]) + 1] = m
         /\ \A n \in 1..Len(f[c]) : g[c][n] = f[c][n]
         /\ \A d \in D : d # c => g[d] = f[d]
         /\ \A d \in D : Len(f[d]) \in Nat /\ DOMAIN f[d] = 1..Len(f[d])
<1>1. f[c] \in Seq(S) /\ g[c] = Append(f[c], m) OBVIOUS
<1>2. \A d \in D : d # c => g[d] = f[d] OBVIOUS
<1>3. \A d \in D : Len(f[d]) \in Nat /\ DOMAIN f[d] = 1..Len(f[d]) BY LenProperties
<1>4. /\ Append(f[c], m) \in Seq(S) /\ Len(Append(f[c], m)) = Len(f[c]) + 1
      /\ Append(f[c], m)[Len(f[c]) + 1] = m
      /\ \A n \in 1..Len(f[c]) : Append(f[c], m)[n] = f[c][n]
  BY <1>1, AppendProperties
<1>5. DOMAIN Append(f[c], m) = 1..Len(Append(f[c], m)) BY <1>4, LenProperties
<1> QED BY <1>1, <1>2, <1>3, <1>4, <1>5

\* A fuzzer fires an event: the next of its messages.
LEMMA CopiesFire ==
  ASSUME TypeOK, CopiesInv, NEW f \in Fuzzers, FuzzerFire(f)
  PROVE  Numbered' /\ NeverKept' /\ CursorsBehind'
<1>1. PICK kind \in Kinds : out' = [out EXCEPT ![f] = Append(out[f], Fired(f, kind))]
  BY DEF FuzzerFire
<1>2. Fired(f, kind) \in Msg BY FiredType
<1>3. Fired(f, kind).client = f /\ Fired(f, kind).n = Len(out[f]) + 1 BY DEF Fired
<1>4. /\ DOMAIN out'[f] = 1..(Len(out[f]) + 1) /\ Len(out'[f]) = Len(out[f]) + 1
      /\ out'[f][Len(out[f]) + 1] = Fired(f, kind)
      /\ \A n \in 1..Len(out[f]) : out'[f][n] = out[f][n]
      /\ \A c \in Clients : c # f => out'[c] = out[c]
      /\ \A c \in Clients : Len(out[c]) \in Nat /\ DOMAIN out[c] = 1..Len(out[c])
  <2>1. f \in Clients /\ out \in [Clients -> Seq(Msg)] BY DEF Clients, TypeOK
  <2> QED BY <1>1, <1>2, <2>1, AppendAt
<1>5. \A k \in Conns : k \in Clients /\ k # f BY ClientsDisjoint DEF Clients
<1>6. UNCHANGED <<up, seen, got, down>> BY DEF FuzzerFire
<1>7. Numbered'
  <2>1. ASSUME NEW n \in DOMAIN out'[f] PROVE out'[f][n].client = f /\ out'[f][n].n = n
    <3>1. CASE n = Len(out[f]) + 1 BY <1>3, <1>4, <3>1
    <3>2. CASE n \in 1..Len(out[f])
      BY <1>4, <3>2 DEF CopiesInv, Numbered, Clients
    <3> QED BY <1>4, <2>1, <3>1, <3>2 DEF Clients
  <2> QED BY <1>4, <1>6, <2>1 DEF CopiesInv, Numbered
<1>8. NeverKept' BY <1>4, <1>5, <1>6 DEF CopiesInv, NeverKept
<1>9. CursorsBehind'
  <2>1. \A c \in Clients : Len(out[c]) <= Len(out'[c]) BY <1>4
  <2> QED BY <1>4, <1>5, <1>6, <2>1 DEF CopiesInv, CursorsBehind, TypeOK
<1> QED BY <1>7, <1>8, <1>9

\* A worker hands over the next message of its peer, or a garbled one.
LEMMA CopiesHandOver ==
  ASSUME TypeOK, CopiesInv, NEW k \in Conns, NEW m \in Msg,
         m.client = k, m.n = Len(out[k]) + 1, m.tag = "DEFAULT",
         out' = [out EXCEPT ![k] = Append(out[k], m)], UNCHANGED <<up, seen, got, down>>
  PROVE  Numbered' /\ NeverKept' /\ CursorsBehind'
<1>1. k \in Clients /\ out \in [Clients -> Seq(Msg)] BY DEF Clients, TypeOK
<1>2. /\ DOMAIN out'[k] = 1..(Len(out[k]) + 1) /\ Len(out'[k]) = Len(out[k]) + 1
      /\ out'[k][Len(out[k]) + 1] = m
      /\ \A n \in 1..Len(out[k]) : out'[k][n] = out[k][n]
      /\ \A c \in Clients : c # k => out'[c] = out[c]
      /\ \A c \in Clients : Len(out[c]) \in Nat /\ DOMAIN out[c] = 1..Len(out[c])
  BY <1>1, AppendAt
<1>3. ASSUME NEW n \in DOMAIN out'[k]
      PROVE  out'[k][n].client = k /\ out'[k][n].n = n /\ out'[k][n].tag = "DEFAULT"
  <2>1. CASE n = Len(out[k]) + 1 BY <1>2, <2>1
  <2>2. CASE n \in 1..Len(out[k])
    BY <1>1, <1>2, <2>2 DEF CopiesInv, Numbered, NeverKept
  <2> QED BY <1>1, <1>2, <1>3, <2>1, <2>2
<1>4. Numbered' BY <1>2, <1>3 DEF CopiesInv, Numbered
<1>5. NeverKept' BY <1>2, <1>3 DEF CopiesInv, NeverKept, Clients
<1>6. CursorsBehind'
  <2>1. \A c \in Clients : Len(out[c]) <= Len(out'[c]) BY <1>2
  <2>2. \A c \in Clients : seen[c] <= Len(out'[c])
    BY <1>2, <2>1 DEF CopiesInv, CursorsBehind, TypeOK
  <2> QED BY <2>2 DEF CopiesInv, CursorsBehind
<1> QED BY <1>4, <1>5, <1>6

\* The message that WorkerRecv hands over, and the one of WorkerRecvGarbled.
LEMMA HandedOver ==
  ASSUME TypeOK, CopiesInv, NEW k \in Conns, WorkerRecv(k) \/ WorkerRecvGarbled(k)
  PROVE  \E m \in Msg : /\ m.client = k /\ m.n = Len(out[k]) + 1 /\ m.tag = "DEFAULT"
                        /\ out' = [out EXCEPT ![k] = Append(out[k], m)]
<1>1. CASE WorkerRecv(k)
  <2> DEFINE m == up[k][Len(out[k]) + 1]
  <2>1. Len(out[k]) < Len(up[k]) /\ out' = [out EXCEPT ![k] = Append(out[k], Bridged(m))]
    BY <1>1 DEF WorkerRecv
  <2>2. k \in Clients /\ Len(out[k]) \in Nat /\ up[k] \in Seq(Msg) BY DEF Clients, TypeOK
  <2>3. Len(out[k]) + 1 \in DOMAIN up[k] BY <2>1, <2>2
  <2>4. m \in Msg /\ m.client = k /\ m.n = Len(out[k]) + 1 /\ m.tag = "DEFAULT"
    BY <2>2, <2>3 DEF CopiesInv, Numbered, NeverKept
  <2> HIDE DEF m
  <2>5. /\ Bridged(m) \in Msg /\ Bridged(m).client = k /\ Bridged(m).n = Len(out[k]) + 1
        /\ Bridged(m).tag = "DEFAULT"
    BY <2>4, BridgedType DEF Bridged
  <2> QED BY <2>1, <2>5
<1>2. CASE WorkerRecvGarbled(k)
  <2>1. out' = [out EXCEPT ![k] = Append(out[k], Garbled(k))] BY <1>2 DEF WorkerRecvGarbled
  <2>2. /\ Garbled(k) \in Msg /\ Garbled(k).client = k /\ Garbled(k).n = Len(out[k]) + 1
        /\ Garbled(k).tag = "DEFAULT"
    BY GarbledType DEF Garbled
  <2> QED BY <2>1, <2>2
<1> QED BY <1>1, <1>2

\* A peer writes its next input.
LEMMA CopiesSend ==
  ASSUME TypeOK, CopiesInv, NEW k \in Conns, PeerSendDone(k)
  PROVE  Numbered' /\ NeverKept' /\ CursorsBehind'
<1>1. up' = [up EXCEPT ![k] = Append(up[k], Generated(k))] /\ UNCHANGED <<out, seen, got, down>>
  BY DEF PeerSendDone
<1>2. Generated(k) \in Msg BY GeneratedType
<1>3. /\ Generated(k).client = k /\ Generated(k).n = Len(up[k]) + 1
      /\ Generated(k).tag = "DEFAULT"
  BY DEF Generated, InputTag
<1>4. /\ DOMAIN up'[k] = 1..(Len(up[k]) + 1) /\ Len(up'[k]) = Len(up[k]) + 1
      /\ up'[k][Len(up[k]) + 1] = Generated(k)
      /\ \A n \in 1..Len(up[k]) : up'[k][n] = up[k][n]
      /\ \A j \in Conns : j # k => up'[j] = up[j]
      /\ \A j \in Conns : Len(up[j]) \in Nat /\ DOMAIN up[j] = 1..Len(up[j])
  <2>1. up \in [Conns -> Seq(Msg)] BY DEF TypeOK
  <2> QED BY <1>1, <1>2, <2>1, AppendAt
<1>5. ASSUME NEW n \in DOMAIN up'[k]
      PROVE  up'[k][n].client = k /\ up'[k][n].n = n /\ up'[k][n].tag = "DEFAULT"
  <2>1. CASE n = Len(up[k]) + 1 BY <1>3, <1>4, <2>1
  <2>2. CASE n \in 1..Len(up[k]) BY <1>4, <2>2 DEF CopiesInv, Numbered, NeverKept
  <2> QED BY <1>4, <1>5, <2>1, <2>2
<1>6. Numbered' BY <1>1, <1>4, <1>5 DEF CopiesInv, Numbered
<1>7. NeverKept' BY <1>1, <1>4, <1>5 DEF CopiesInv, NeverKept
<1>8. CursorsBehind' BY <1>1 DEF CopiesInv, CursorsBehind
<1> QED BY <1>6, <1>7, <1>8

\* A fuzzer takes in or passes over the next message of the broadcast.
LEMMA CopiesProcess ==
  ASSUME TypeOK, CopiesInv, NEW f \in Fuzzers, FuzzerProcess(f)
  PROVE  FuzzersUpToDate'
<1>1. /\ fcur[f] < Len(bcast) /\ bcast' = bcast /\ fcur[f] \in Nat /\ Len(bcast) \in Nat
      /\ fcur'[f] = fcur[f] + 1
      /\ \A g \in Fuzzers : g # f => fcur'[g] = fcur[g]
  BY DEF FuzzerProcess, TypeOK
<1>2. UpToDate(f) BY DEF CopiesInv, FuzzersUpToDate
<1>3. CASE bcast[fcur[f] + 1].client = f
  <2>1. ran' = ran BY <1>3 DEF FuzzerProcess
  <2>2. \A g \in Fuzzers : LastRan(g)' = LastRan(g) BY <2>1 DEF LastRan
  <2>3. UpToDate(f)' BY <1>1, <1>2, <1>3, <2>2 DEF UpToDate
  <2> QED BY <1>1, <2>2, <2>3 DEF CopiesInv, FuzzersUpToDate, UpToDate
<1>4. CASE bcast[fcur[f] + 1].client # f
  <2>1. ran' = [ran EXCEPT ![f] = Append(ran[f], fcur[f] + 1)] BY <1>4 DEF FuzzerProcess
  <2>2. ran \in [Fuzzers -> Seq(Nat)] /\ fcur[f] + 1 \in Nat BY <1>1 DEF TypeOK
  <2>3. /\ Len(ran'[f]) = Len(ran[f]) + 1 /\ ran'[f][Len(ran[f]) + 1] = fcur[f] + 1
        /\ \A g \in Fuzzers : g # f => ran'[g] = ran[g]
        /\ Len(ran[f]) \in Nat
    BY <2>1, <2>2, AppendAt
  <2>4. LastRan(f)' = fcur[f] + 1
    <3>1. ran'[f] # <<>> BY <2>3
    <3> QED BY <2>3, <3>1 DEF LastRan
  <2>5. \A g \in Fuzzers : g # f => LastRan(g)' = LastRan(g) BY <2>3 DEF LastRan
  <2>6. UpToDate(f)' BY <1>1, <2>4 DEF UpToDate
  <2> QED BY <1>1, <2>5, <2>6 DEF CopiesInv, FuzzersUpToDate, UpToDate
<1> QED BY <1>3, <1>4

\* The broker hooks the next message of a client.
LEMMA CopiesBroker ==
  ASSUME TypeOK, CopiesInv, NEW c \in Clients, BrokerMsg(c)
  PROVE  CursorsBehind' /\ FuzzersUpToDate'
<1>1. /\ seen[c] < Len(out[c]) /\ seen' = [seen EXCEPT ![c] = seen[c] + 1]
      /\ UNCHANGED <<out, up, got, down, ran, fcur>>
  BY DEF BrokerMsg
<1>2. \A d \in Clients : Len(out[d]) \in Nat /\ seen[d] \in Nat BY DEF TypeOK
<1>3. CursorsBehind' BY <1>1, <1>2 DEF CopiesInv, CursorsBehind, TypeOK
<1>4. /\ Len(bcast) <= Len(bcast') /\ Len(bcast) \in Nat /\ Len(bcast') \in Nat
      /\ \A p \in 1..Len(bcast) : bcast'[p] = bcast[p]
  BY BcastGrows DEF TypeOK
<1>5. ASSUME NEW f \in Fuzzers PROVE UpToDate(f)'
  <2>1. LastRan(f)' = LastRan(f) /\ fcur'[f] = fcur[f] BY <1>1 DEF LastRan
  <2>2. UpToDate(f) /\ fcur[f] \in Nat BY DEF CopiesInv, FuzzersUpToDate, TypeOK
  <2>3. \A p \in (LastRan(f) + 1)..fcur[f] : p \in 1..Len(bcast) BY <1>4, <2>2 DEF UpToDate
  <2> QED BY <1>4, <2>1, <2>2, <2>3 DEF UpToDate
<1> QED BY <1>3, <1>5 DEF FuzzersUpToDate

\* The steps of a worker that leave messages and stream as they are.
QuietWorkerStep(k) ==
  \/ WorkerSkip(k) \/ WorkerForwardFails(k) \/ WorkerEmpty(k) \/ WorkerBrokerGone(k)
  \/ WorkerRecvFails(k) \/ WorkerLosesPlace(k) \/ WorkerRecvDies(k)

LEMMA QuietWorker ==
  ASSUME TypeOK, NEW k \in Conns, QuietWorkerStep(k)
  PROVE  /\ UNCHANGED <<brokerVars, out, fuzzerVars, start, down, peerVars>>
         /\ wpc[k] # "none" /\ wpc'[k] # "none"
         /\ \A j \in Conns : j # k => wpc'[j] = wpc[j]
BY DEF QuietWorkerStep, WorkerSkip, WorkerForwardFails, WorkerEmpty, WorkerBrokerGone,
       WorkerRecvFails, WorkerLosesPlace, WorkerRecvDies, HasNext, Panic, TypeOK

\* Every step keeps the copies in agreement.
LEMMA CopiesStep ==
  ASSUME TypeOK, CopiesInv, [Next]_vars
  PROVE  CopiesInv'
<1>1. UNCHANGED <<out, up>> => Numbered' /\ NeverKept'
  BY DEF CopiesInv, Numbered, NeverKept
<1>2. UNCHANGED <<out, up, seen, got, down>> => CursorsBehind'
  BY DEF CopiesInv, CursorsBehind
<1>3. UNCHANGED <<wpc, ppc>> => PeerHasWorker' BY DEF CopiesInv, PeerHasWorker
<1>4. UNCHANGED <<ran, fcur, bcast>> => FuzzersUpToDate'
  BY DEF CopiesInv, FuzzersUpToDate, UpToDate, LastRan
<1>5. ASSUME NEW f \in Fuzzers, FuzzerFire(f) PROVE CopiesInv'
  <2>1. UNCHANGED <<wpc, ppc, ran, fcur, bcast>> BY <1>5 DEF FuzzerFire
  <2> QED BY <1>3, <1>4, <1>5, <2>1, CopiesFire DEF CopiesInv
<1>6. ASSUME NEW f \in Fuzzers, FuzzerProcess(f) PROVE CopiesInv'
  <2>1. UNCHANGED <<out, up, seen, got, down, wpc, ppc>> BY <1>6 DEF FuzzerProcess
  <2> QED BY <1>1, <1>2, <1>3, <1>6, <2>1, CopiesProcess DEF CopiesInv
<1>7. ASSUME NEW c \in Clients, BrokerMsg(c) PROVE CopiesInv'
  <2>1. UNCHANGED <<out, up, wpc, ppc>> BY <1>7 DEF BrokerMsg
  <2> QED BY <1>1, <1>3, <1>7, <2>1, CopiesBroker DEF CopiesInv
<1>8. CASE BrokerExit
  BY <1>1, <1>2, <1>3, <1>4, <1>8 DEF BrokerExit, CopiesInv
<1>9. ASSUME NEW k \in Conns, Connect(k) PROVE CopiesInv'
  <2>1. UNCHANGED <<out, up, seen, got, down, ran, fcur, bcast>> BY <1>9 DEF Connect
  <2>2. PeerHasWorker' BY <1>9 DEF Connect, CopiesInv, PeerHasWorker, TypeOK
  <2> QED BY <1>1, <1>2, <1>4, <2>1, <2>2 DEF CopiesInv
<1>10. ASSUME NEW k \in Conns, WorkerForward(k) PROVE CopiesInv'
  <2>1. /\ UNCHANGED <<out, up, seen, got, wpc, ppc, ran, fcur, bcast>>
        /\ down' = [down EXCEPT ![k] = Append(down[k], cur[k] + 1)]
    BY <1>10 DEF WorkerForward
  <2>2. down \in [Conns -> Seq(Nat)] /\ cur[k] + 1 \in Nat BY DEF TypeOK
  <2>3. \A j \in Conns : Len(down[j]) \in Nat /\ Len(down'[j]) \in Nat /\ Len(down[j]) <= Len(down'[j])
    BY <2>1, <2>2, AppendAt
  <2>4. CursorsBehind' BY <2>1, <2>3 DEF CopiesInv, CursorsBehind, TypeOK
  <2> QED BY <1>1, <1>3, <1>4, <2>1, <2>4 DEF CopiesInv
<1>11. ASSUME NEW k \in Conns, WorkerRecv(k) \/ WorkerRecvGarbled(k) PROVE CopiesInv'
  <2>1. UNCHANGED <<up, seen, got, down, ppc, ran, fcur, bcast>>
    BY <1>11 DEF WorkerRecv, WorkerRecvGarbled
  <2>2. PeerHasWorker'
    BY <1>11 DEF WorkerRecv, WorkerRecvGarbled, CopiesInv, PeerHasWorker, TypeOK
  <2>3. Numbered' /\ NeverKept' /\ CursorsBehind' BY <1>11, <2>1, HandedOver, CopiesHandOver
  <2> QED BY <1>4, <2>1, <2>2, <2>3 DEF CopiesInv
<1>12. ASSUME NEW k \in Conns, QuietWorkerStep(k) PROVE CopiesInv'
  <2>1. UNCHANGED <<out, up, seen, got, down, ppc, ran, fcur, bcast>>
    BY <1>12, QuietWorker
  <2>2. wpc[k] # "none" /\ \A j \in Conns : j # k => wpc'[j] = wpc[j]
    BY <1>12, QuietWorker
  <2>3. wpc'[k] # "none" BY <1>12, QuietWorker
  <2>4. PeerHasWorker' BY <2>1, <2>2, <2>3 DEF CopiesInv, PeerHasWorker
  <2> QED BY <1>1, <1>2, <1>4, <2>1, <2>4 DEF CopiesInv
<1>13. ASSUME NEW k \in Conns, PeerSendDone(k) PROVE CopiesInv'
  <2>1. UNCHANGED <<wpc, ran, fcur, bcast>> BY <1>13 DEF PeerSendDone
  <2>2. PeerHasWorker' BY <1>13 DEF PeerSendDone, CopiesInv, PeerHasWorker, TypeOK
  <2> QED BY <1>4, <1>13, <2>1, <2>2, CopiesSend DEF CopiesInv
<1>14. ASSUME NEW k \in Conns, PeerRecvDone(k) PROVE CopiesInv'
  <2>1. /\ UNCHANGED <<out, up, seen, down, wpc, ppc, ran, fcur, bcast>>
        /\ got[k] < Len(down[k]) /\ got' = [got EXCEPT ![k] = got[k] + 1]
    BY <1>14 DEF PeerRecvDone
  <2>2. \A j \in Conns : got[j] \in Nat /\ Len(down[j]) \in Nat BY DEF TypeOK
  <2>3. \A j \in Conns : got'[j] <= Len(down[j])
    BY <2>1, <2>2 DEF CopiesInv, CursorsBehind, TypeOK
  <2>4. CursorsBehind' BY <2>1, <2>3 DEF CopiesInv, CursorsBehind
  <2> QED BY <1>1, <1>3, <1>4, <2>1, <2>4 DEF CopiesInv
<1>15. ASSUME NEW k \in Conns,
              PeerSend(k) \/ PeerSendFails(k) \/ PeerLosesPlace(k) \/ PeerClose(k)
       PROVE  CopiesInv'
  <2>1. UNCHANGED <<out, up, seen, got, down, wpc, ran, fcur, bcast>>
    BY <1>15 DEF PeerSend, PeerSendFails, PeerLosesPlace, PeerClose
  <2>2. ppc[k] # "off" /\ \A j \in Conns : j # k => ppc'[j] = ppc[j]
    BY <1>15 DEF PeerSend, PeerSendFails, PeerLosesPlace, PeerClose, TypeOK
  <2>3. PeerHasWorker' BY <2>1, <2>2 DEF CopiesInv, PeerHasWorker
  <2> QED BY <1>1, <1>2, <1>4, <2>1, <2>3 DEF CopiesInv
<1>16. CASE UNCHANGED vars
  BY <1>1, <1>2, <1>3, <1>4, <1>16 DEF vars, CopiesInv
<1>17. ASSUME NEW f \in Fuzzers, FuzzerFails(f) PROVE CopiesInv'
  BY <1>1, <1>2, <1>3, <1>4, <1>17 DEF FuzzerFails, CopiesInv
<1> QED
  BY <1>5, <1>6, <1>7, <1>8, <1>9, <1>10, <1>11, <1>12, <1>13, <1>14, <1>15, <1>16, <1>17
  DEF Next, WorkerStep, PeerStep, QuietWorkerStep

\* The copies of a message agree, and no cursor is past what it reads.
THEOREM CopiesInvariant == Spec => []CopiesInv
<1>1. Init => CopiesInv
  <2> SUFFICES ASSUME Init PROVE CopiesInv
    OBVIOUS
  <2>1. /\ \A c \in Clients : DOMAIN out[c] = {} /\ Len(out[c]) = 0 /\ seen[c] = 0
        /\ \A k \in Conns : DOMAIN up[k] = {} /\ Len(up[k]) = 0 /\ Len(down[k]) = 0 /\ got[k] = 0
        /\ \A k \in Conns : DOMAIN out[k] = {} /\ Len(out[k]) = 0 /\ ppc[k] = "off"
        /\ \A f \in Fuzzers : fcur[f] = 0 /\ LastRan(f) = 0
        /\ Len(bcast) = 0
    BY DEF Init, LastRan, Clients
  <2>2. FuzzersUpToDate BY <2>1 DEF FuzzersUpToDate, UpToDate
  <2> QED BY <2>1, <2>2 DEF CopiesInv, Numbered, NeverKept, CursorsBehind, PeerHasWorker
<1>2. TypeOK /\ CopiesInv /\ [Next]_vars => CopiesInv' BY CopiesStep
<1> QED BY <1>1, <1>2, TypeCorrect, PTL DEF Spec

-----------------------------------------------------------------------------
(***************************************************************************)
(* The steps.  A fuzzer's event and a peer's finished write submit, the    *)
(* broker's hook publishes or keeps, an attachment joins, a fuzzer and a   *)
(* peer that read are delivered to; all other steps change nothing that    *)
(* NnFeed sees.                                                            *)
(***************************************************************************)

FeedVars == <<submittedBar, seen, logBar, joinedBar, startBar, inboxBar>>

\* What each part of the mapping depends on.
LEMMA BarsUnchanged ==
  /\ UNCHANGED <<out, up>> => UNCHANGED submittedBar
  /\ UNCHANGED bcast => UNCHANGED logBar
  /\ UNCHANGED wpc => UNCHANGED joinedBar
  /\ UNCHANGED start => UNCHANGED startBar
  /\ UNCHANGED <<down, got, ran>> => UNCHANGED inboxBar
BY DEF submittedBar, Sent, logBar, joinedBar, startBar, inboxBar

\* A fuzzer that fires submits (NNEventManager::fire).
LEMMA MapFire ==
  ASSUME TypeOK, NEW f \in Fuzzers, FuzzerFire(f)
  PROVE  Feed!Submit(f)
<1>1. PICK kind \in Kinds : out' = [out EXCEPT ![f] = Append(out[f], Fired(f, kind))]
  BY DEF FuzzerFire
<1>2. UNCHANGED <<seen, bcast, wpc, start, down, got, ran, up>> BY DEF FuzzerFire
<1>3. Fired(f, kind) \in Msg /\ out \in [Clients -> Seq(Msg)] /\ f \in Clients /\ f \notin Conns
  BY FiredType, ClientsDisjoint DEF TypeOK, Clients
<1>4. Len(out'[f]) = Len(out[f]) + 1 /\ \A c \in Clients : c # f => out'[c] = out[c]
  BY <1>1, <1>3, AppendAt
<1>5. submittedBar' = [submittedBar EXCEPT ![f] = submittedBar[f] + 1]
  BY <1>2, <1>3, <1>4 DEF submittedBar, Sent
<1>6. f \in joinedBar BY DEF joinedBar
<1> QED BY <1>2, <1>5, <1>6, BarsUnchanged DEF Feed!Submit

\* What a network has submitted is the longer of what its peer has sent and what its
\* worker has handed over, so that one more on one side is one more or the same.
LEMMA SentMoves ==
  ASSUME TypeOK, NEW k \in Conns,
         \/ /\ Len(up'[k]) = Len(up[k]) + 1 /\ out' = out
            /\ \A j \in Conns : j # k => up'[j] = up[j]
         \/ /\ Len(out'[k]) = Len(out[k]) + 1 /\ up' = up
            /\ \A c \in Clients : c # k => out'[c] = out[c]
  PROVE  \/ UNCHANGED submittedBar
         \/ submittedBar' = [submittedBar EXCEPT ![k] = submittedBar[k] + 1]
<1>1. k \in Clients /\ Len(out[k]) \in Nat /\ Len(up[k]) \in Nat BY DEF Clients, TypeOK
<1>2. Sent(k)' = Sent(k) \/ Sent(k)' = Sent(k) + 1 BY <1>1 DEF Sent
<1>3. \A c \in Clients : c # k => Sent(c)' = Sent(c) BY DEF Sent
<1>4. submittedBar = [c \in Clients |-> Sent(c)] /\ submittedBar' = [c \in Clients |-> Sent(c)']
  BY DEF submittedBar
<1> QED BY <1>1, <1>2, <1>3, <1>4

\* A peer whose send_input returns submits: its worker is there.  What the worker
\* has handed over in advance of it, out of place, has been submitted already.
LEMMA MapSend ==
  ASSUME TypeOK, CopiesInv, NEW k \in Conns, PeerSendDone(k)
  PROVE  Feed!Submit(k) \/ UNCHANGED FeedVars
<1>1. /\ up' = [up EXCEPT ![k] = Append(up[k], Generated(k))]
      /\ ppc[k] = "sending"
      /\ UNCHANGED <<seen, bcast, wpc, start, down, got, ran, out>>
  BY DEF PeerSendDone
<1>2. Generated(k) \in Msg /\ up \in [Conns -> Seq(Msg)] BY GeneratedType DEF TypeOK
<1>3. Len(up'[k]) = Len(up[k]) + 1 /\ \A j \in Conns : j # k => up'[j] = up[j]
  BY <1>1, <1>2, AppendAt
<1>4. k \in joinedBar BY <1>1 DEF joinedBar, CopiesInv, PeerHasWorker
<1> QED BY <1>1, <1>3, <1>4, SentMoves, BarsUnchanged DEF Feed!Submit, FeedVars

\* A worker that hands over a message of its peer submits nothing new, one out of
\* place may.
LEMMA MapHandOver ==
  ASSUME TypeOK, CopiesInv, NEW k \in Conns, WorkerRecv(k) \/ WorkerRecvGarbled(k)
  PROVE  Feed!Submit(k) \/ UNCHANGED FeedVars
<1>1. PICK m \in Msg : out' = [out EXCEPT ![k] = Append(out[k], m)] BY HandedOver
<1>2. /\ wpc[k] = "recv" /\ wpc' = [wpc EXCEPT ![k] = "drain"]
      /\ UNCHANGED <<seen, bcast, start, down, got, ran, up>>
  BY DEF WorkerRecv, WorkerRecvGarbled
<1>3. out \in [Clients -> Seq(Msg)] /\ k \in Clients BY DEF TypeOK, Clients
<1>4. Len(out'[k]) = Len(out[k]) + 1 /\ \A c \in Clients : c # k => out'[c] = out[c]
  BY <1>1, <1>3, AppendAt
<1>5. k \in joinedBar /\ UNCHANGED joinedBar BY <1>2 DEF joinedBar, TypeOK
<1> QED BY <1>2, <1>4, <1>5, SentMoves, BarsUnchanged DEF Feed!Submit, FeedVars

\* A worker that attaches joins, at its first cursor (run_service).
LEMMA MapConnect ==
  ASSUME TypeOK, NEW k \in Conns, Connect(k)
  PROVE  Feed!Join(k)
<1>1. PICK p \in 0..Len(bcast) : start' = [start EXCEPT ![k] = p]
  BY DEF Connect
<1>2. /\ wpc[k] = "none" /\ wpc' = [wpc EXCEPT ![k] = "drain"]
      /\ UNCHANGED <<seen, bcast, out, up, down, got, ran>>
  BY DEF Connect
<1>3. k \notin joinedBar BY <1>2, ClientsDisjoint DEF joinedBar
<1>4. joinedBar' = joinedBar \cup {k} BY <1>2 DEF joinedBar, TypeOK
<1>5. startBar' = [startBar EXCEPT ![k] = p] BY <1>1 DEF startBar, Clients, TypeOK
<1>6. Len(logBar) = Len(bcast)
  <2>1. Len(bcast) \in Nat BY DEF TypeOK
  <2> QED BY <2>1 DEF logBar
<1> QED BY <1>2, <1>3, <1>4, <1>5, <1>6, BarsUnchanged DEF Feed!Join

\* The abstract log is the broadcast, and grows with it.
LEMMA LogBar ==
  ASSUME TypeOK
  PROVE  /\ Len(bcast) \in Nat /\ Len(logBar) = Len(bcast) /\ DOMAIN logBar = 1..Len(bcast)
         /\ logBar \in Seq([client: Clients, n: Nat])
         /\ \A p \in 1..Len(bcast) :
              logBar[p].client = bcast[p].client /\ logBar[p].n = bcast[p].n
<1>1. Len(bcast) \in Nat /\ \A p \in 1..Len(bcast) : bcast[p] \in Msg BY DEF TypeOK
<1>2. logBar \in [1..Len(bcast) -> [client: Clients, n: Nat]]
  BY <1>1 DEF logBar, Msg
<1> QED BY <1>1, <1>2, SeqDef DEF logBar

\* Broadcasting a message publishes it.
LEMMA LogBarAppend ==
  ASSUME TypeOK, NEW m \in Msg, bcast' = Append(bcast, m)
  PROVE  logBar' = Append(logBar, [client |-> m.client, n |-> m.n])
<1> DEFINE e == [client |-> m.client, n |-> m.n]
<1>1. /\ bcast \in Seq(Msg) /\ Len(bcast) \in Nat
      /\ Len(bcast') = Len(bcast) + 1 /\ bcast'[Len(bcast) + 1] = m
      /\ \A p \in 1..Len(bcast) : bcast'[p] = bcast[p]
  BY AppendProperties DEF TypeOK
<1>2. e \in [client: Clients, n: Nat] BY DEF Msg
<1>3. /\ logBar \in Seq([client: Clients, n: Nat]) /\ Len(logBar) = Len(bcast)
      /\ \A p \in 1..Len(bcast) : logBar[p] = [client |-> bcast[p].client, n |-> bcast[p].n]
  BY LogBar DEF logBar
<1>4. /\ Append(logBar, e) \in Seq([client: Clients, n: Nat])
      /\ Len(Append(logBar, e)) = Len(bcast) + 1
      /\ Append(logBar, e)[Len(bcast) + 1] = e
      /\ \A p \in 1..Len(bcast) : Append(logBar, e)[p] = logBar[p]
  <2> HIDE DEF e
  <2> QED BY <1>2, <1>3, AppendProperties
<1>5. logBar' = [p \in 1..(Len(bcast) + 1) |-> [client |-> bcast'[p].client, n |-> bcast'[p].n]]
  BY <1>1 DEF logBar
<1>6. \A p \in 1..(Len(bcast) + 1) : logBar'[p] = Append(logBar, e)[p]
  <2> TAKE p \in 1..(Len(bcast) + 1)
  <2>1. CASE p = Len(bcast) + 1 BY <1>1, <1>4, <1>5, <2>1
  <2>2. CASE p # Len(bcast) + 1
    <3>1. p \in 1..Len(bcast) BY <1>1, <2>2
    <3> QED BY <1>1, <1>3, <1>4, <1>5, <3>1
  <2> QED BY <2>1, <2>2
<1>7. Append(logBar, e) = [p \in 1..(Len(bcast) + 1) |-> Append(logBar, e)[p]]
  <2> HIDE DEF e
  <2> QED BY <1>4, LenProperties
<1> QED BY <1>5, <1>6, <1>7

\* The hook publishes or keeps the next message of a client; it keeps none of a
\* neural network's, whose tag it does not look into (broker_loop).
LEMMA MapBroker ==
  ASSUME TypeOK, CopiesInv, NEW c \in Clients, BrokerMsg(c)
  PROVE  Feed!Publish(c) \/ Feed!Keep(c)
<1> DEFINE m == out[c][seen[c] + 1]
<1>1. /\ seen[c] < Len(out[c]) /\ seen' = [seen EXCEPT ![c] = seen[c] + 1]
      /\ bcast' = IF Forwarded(m) THEN Append(bcast, m) ELSE bcast
      /\ UNCHANGED <<wpc, start, down, got, ran, out, up>>
  BY DEF BrokerMsg
<1>2. seen[c] + 1 \in DOMAIN out[c] /\ out[c] \in Seq(Msg) BY <1>1 DEF TypeOK
<1>3. m \in Msg /\ m.client = c /\ m.n = seen[c] + 1
  BY <1>2 DEF CopiesInv, Numbered
<1>4. seen[c] < submittedBar[c]
  <2>1. seen[c] \in Nat /\ Len(out[c]) \in Nat /\ (c \in Conns => Len(up[c]) \in Nat)
    BY DEF TypeOK
  <2> QED BY <1>1, <2>1 DEF submittedBar, Sent
<1>5. UNCHANGED <<submittedBar, joinedBar, startBar, inboxBar>> BY <1>1, BarsUnchanged
<1>6. CASE Forwarded(m)
  <2> HIDE DEF m
  <2>1. bcast' = Append(bcast, m) BY <1>1, <1>6
  <2>2. logBar' = Append(logBar, [client |-> c, n |-> seen[c] + 1])
    BY <1>3, <2>1, LogBarAppend
  <2>3. Feed!Publish(c) BY <1>1, <1>4, <1>5, <2>2 DEF Feed!Publish
  <2> QED BY <2>3
<1>7. CASE ~Forwarded(m)
  <2>1. bcast' = bcast BY <1>1, <1>7
  <2>2. c \notin Conns BY <1>2, <1>7 DEF CopiesInv, NeverKept, Forwarded
  <2>3. Feed!Keep(c) BY <1>1, <1>4, <1>5, <2>1, <2>2, BarsUnchanged DEF Feed!Keep
  <2> QED BY <2>3
<1> QED BY <1>6, <1>7

\* A fuzzer that takes in a message is handed the next one of the others.
LEMMA MapProcess ==
  ASSUME TypeOK, CopiesInv, NEW f \in Fuzzers, FuzzerProcess(f),
         bcast[fcur[f] + 1].client # f
  PROVE  Feed!Deliver(f)
<1> DEFINE p == fcur[f] + 1
<1>1. /\ fcur[f] < Len(bcast) /\ ran' = [ran EXCEPT ![f] = Append(ran[f], p)]
      /\ UNCHANGED <<seen, bcast, out, up, wpc, start, down, got>>
  BY DEF FuzzerProcess
<1>2. f \in Clients /\ f \notin Conns /\ f \in joinedBar
  BY ClientsDisjoint DEF Clients, joinedBar
<1>3. UpToDate(f) /\ fcur[f] \in Nat BY DEF CopiesInv, FuzzersUpToDate, TypeOK
<1>4. inboxBar[f] = ran[f] /\ startBar[f] = 0 BY <1>2 DEF inboxBar, startBar
<1>5. Feed!Reached(f) = LastRan(f) BY <1>4 DEF Feed!Reached, LastRan
<1>6. p \in (LastRan(f) + 1)..Len(logBar) /\ logBar[p].client # f
  BY <1>1, <1>3, LogBar DEF UpToDate
<1>7. \A q \in (LastRan(f) + 1)..(p - 1) : logBar[q].client = f
  <2> TAKE q \in (LastRan(f) + 1)..(p - 1)
  <2>1. q \in (LastRan(f) + 1)..fcur[f] /\ q \in 1..Len(bcast) BY <1>1, <1>3, LogBar DEF UpToDate
  <2> QED BY <1>3, <2>1, LogBar DEF UpToDate
<1>8. inboxBar' = [inboxBar EXCEPT ![f] = Append(inboxBar[f], p)]
  <2>1. inboxBar' = [c \in Clients |-> IF c \in Conns THEN SubSeq(down[c], 1, got[c]) ELSE ran'[c]]
    BY <1>1 DEF inboxBar
  <2>2. \A c \in Clients \ Conns : ran'[c] = IF c = f THEN Append(ran[f], p) ELSE ran[c]
    BY <1>1 DEF TypeOK, Clients
  <2> HIDE DEF p
  <2> QED BY <1>2, <1>4, <2>1, <2>2 DEF inboxBar
<1> HIDE DEF p
<1>9. UNCHANGED <<submittedBar, seen, logBar, joinedBar, startBar>> BY <1>1, BarsUnchanged
<1>10. \E q \in (Feed!Reached(f) + 1)..Len(logBar) :
         /\ logBar[q].client # f
         /\ \A r \in (Feed!Reached(f) + 1)..(q - 1) : logBar[r].client = f
         /\ inboxBar' = [inboxBar EXCEPT ![f] = Append(inboxBar[f], q)]
  <2>1. p \in (Feed!Reached(f) + 1)..Len(logBar) BY <1>5, <1>6
  <2>2. \A r \in (Feed!Reached(f) + 1)..(p - 1) : logBar[r].client = f BY <1>5, <1>7
  <2> QED BY <1>6, <1>8, <2>1, <2>2, Zenon
<1> QED BY <1>2, <1>9, <1>10 DEF Feed!Deliver

\* A peer that reads is handed the next message of the others: what lies between
\* it and the one before in the broadcast is the peer's own.
LEMMA MapRecv ==
  ASSUME FeedInv, CopiesInv, NEW k \in Conns, PeerRecvDone(k)
  PROVE  Feed!Deliver(k)
<1> DEFINE p == down[k][got[k] + 1]
           last == IF got[k] = 0 THEN start[k] ELSE down[k][got[k]]
<1>1. /\ got[k] < Len(down[k]) /\ got' = [got EXCEPT ![k] = got[k] + 1]
      /\ ppc[k] = "idle"
      /\ UNCHANGED <<seen, bcast, out, up, wpc, start, down, ran>>
  BY DEF PeerRecvDone
<1>2. /\ TypeOK /\ k \in Clients /\ got[k] \in Nat /\ down[k] \in Seq(Nat)
      /\ Len(down[k]) \in Nat /\ DOMAIN down[k] = 1..Len(down[k])
      /\ start[k] \in Nat /\ cur[k] \in Nat /\ cur[k] <= Len(bcast) /\ Len(bcast) \in Nat
  BY DEF FeedInv, TypeOK, Clients, CursorsInLog
<1>3. k \in joinedBar BY <1>1 DEF joinedBar, CopiesInv, PeerHasWorker
<1>4. got[k] + 1 \in DOMAIN down[k] BY <1>1, <1>2
<1>5. p \in (start[k] + 1)..cur[k] /\ p \in Nat BY <1>2, <1>4 DEF FeedInv, FeedInOrder
<1>6. \A i \in 1..got[k] : i \in DOMAIN down[k] /\ down[k][i] < p /\ down[k][i] \in Nat
  <2> TAKE i \in 1..got[k]
  <2>1. i \in DOMAIN down[k] /\ i < got[k] + 1 BY <1>1, <1>2
  <2>2. down[k][i] < p BY <1>4, <2>1 DEF FeedInv, FeedInOrder
  <2>3. down[k][i] \in Nat BY <1>2, <2>1
  <2> QED BY <2>1, <2>2, <2>3
<1>7. last \in Nat /\ start[k] <= last /\ last < p
  <2>1. CASE got[k] = 0 BY <1>2, <1>5, <2>1
  <2>2. CASE got[k] # 0
    <3>1. got[k] \in 1..got[k] BY <1>2, <2>2
    <3>2. down[k][got[k]] \in (start[k] + 1)..cur[k] BY <1>6, <3>1 DEF FeedInv, FeedInOrder
    <3>3. down[k][got[k]] < p BY <1>6, <3>1
    <3>4. last = down[k][got[k]] BY <2>2
    <3> HIDE DEF p, last
    <3>5. last \in (start[k] + 1)..cur[k] /\ last < p BY <3>2, <3>3, <3>4
    <3> QED BY <1>2, <3>5
  <2> QED BY <2>1, <2>2
<1>8. \A i \in 1..got[k] : down[k][i] <= last
  <2> TAKE i \in 1..got[k]
  <2>1. got[k] # 0 /\ got[k] \in 1..got[k] BY <1>2
  <2>2. CASE i = got[k] BY <1>6, <2>1, <2>2
  <2>3. CASE i # got[k]
    <3>1. i < got[k] BY <1>2, <2>3
    <3>2. down[k][i] < down[k][got[k]] BY <1>6, <2>1, <3>1 DEF FeedInv, FeedInOrder
    <3> QED BY <1>6, <2>1, <3>2
  <2> QED BY <2>2, <2>3
<1>9. bcast[p].client # k BY <1>4 DEF FeedInv, NoEcho
<1>10. ASSUME NEW q \in (last + 1)..(p - 1) PROVE bcast[q].client = k
  <2>1. NoGap(k, p) BY <1>4 DEF FeedInv, FeedComplete
  <2>2. q \in (start[k] + 1)..p
    <3> HIDE DEF p, last
    <3> QED BY <1>2, <1>5, <1>7
  <2>3. ASSUME NEW i \in DOMAIN down[k], down[k][i] = q PROVE FALSE
    <3>1. CASE i <= got[k]
      <4>1. i \in 1..got[k] BY <1>2, <3>1
      <4>2. q <= last BY <1>8, <2>3, <4>1
      <4> HIDE DEF p, last
      <4> QED BY <1>5, <1>7, <4>2
    <3>2. CASE i = got[k] + 1
      <4>1. q = p BY <2>3, <3>2
      <4> HIDE DEF p, last
      <4> QED BY <1>5, <1>7, <4>1
    <3>3. CASE i > got[k] + 1
      <4>1. p < down[k][i] BY <1>2, <1>4, <3>3 DEF FeedInv, FeedInOrder
      <4>2. p < q BY <2>3, <4>1
      <4> HIDE DEF p, last
      <4> QED BY <1>5, <1>7, <4>2
    <3> QED BY <1>2, <3>1, <3>2, <3>3
  <2> QED BY <2>1, <2>2, <2>3 DEF NoGap
<1>11. inboxBar[k] = SubSeq(down[k], 1, got[k]) /\ startBar[k] = start[k]
  BY <1>2 DEF inboxBar, startBar
<1>12. /\ SubSeq(down[k], 1, got[k]) \in Seq(Nat)
       /\ Len(SubSeq(down[k], 1, got[k])) = got[k]
       /\ \A i \in 1..got[k] : SubSeq(down[k], 1, got[k])[i] = down[k][i]
       /\ SubSeq(down[k], 1, got[k] + 1) \in Seq(Nat)
       /\ Len(SubSeq(down[k], 1, got[k] + 1)) = got[k] + 1
       /\ \A i \in 1..(got[k] + 1) : SubSeq(down[k], 1, got[k] + 1)[i] = down[k][i]
  <2>1. \A i \in 1..(got[k] + 1) : down[k][i] \in Nat BY <1>5, <1>6, <1>2
  <2>2. \A i \in 1..got[k] : down[k][i] \in Nat BY <1>6
  <2> QED BY <1>2, <2>1, <2>2, SubSeqProperties
<1>13. SubSeq(down[k], 1, got[k] + 1) = Append(SubSeq(down[k], 1, got[k]), p)
  <2> DEFINE s == SubSeq(down[k], 1, got[k])
             t == SubSeq(down[k], 1, got[k] + 1)
  <2>1. /\ Append(s, p) \in Seq(Nat) /\ Len(Append(s, p)) = got[k] + 1
        /\ Append(s, p)[got[k] + 1] = p
        /\ \A i \in 1..got[k] : Append(s, p)[i] = s[i]
    <3> HIDE DEF s, p
    <3>1. s \in Seq(Nat) /\ Len(s) = got[k] BY <1>12 DEF s
    <3>2. p \in Nat BY <1>5
    <3> QED BY <3>1, <3>2, AppendProperties
  <2>2. \A i \in 1..(got[k] + 1) : t[i] = Append(s, p)[i]
    <3> TAKE i \in 1..(got[k] + 1)
    <3>1. i \in 1..got[k] \/ i = got[k] + 1 BY <1>2
    <3> QED BY <1>2, <1>12, <2>1, <3>1
  <2>3. t \in Seq(Nat) /\ Len(t) = got[k] + 1 BY <1>12
  <2> HIDE DEF s, t, p
  <2>4. t = Append(s, p) BY <2>1, <2>2, <2>3, SeqEqual
  <2> QED BY <2>4 DEF s, t
<1>14. inboxBar' = [inboxBar EXCEPT ![k] = Append(inboxBar[k], p)]
  <2>1. inboxBar' = [c \in Clients |-> IF c \in Conns THEN SubSeq(down[c], 1, got'[c]) ELSE ran[c]]
    BY <1>1 DEF inboxBar
  <2>2. \A c \in Conns : got'[c] = IF c = k THEN got[k] + 1 ELSE got[c]
    BY <1>1, <1>2 DEF TypeOK
  <2> HIDE DEF p
  <2> QED BY <1>2, <1>11, <1>13, <2>1, <2>2 DEF inboxBar
<1>15. Feed!Reached(k) = last
  <2>1. inboxBar[k] = <<>> <=> got[k] = 0
    BY <1>11, <1>12, <1>2, EmptySeq
  <2>2. CASE got[k] = 0 BY <1>11, <2>1, <2>2 DEF Feed!Reached
  <2>3. CASE got[k] # 0
    <3>1. got[k] \in 1..got[k] BY <1>2, <2>3
    <3> QED BY <1>11, <1>12, <2>1, <2>3, <3>1 DEF Feed!Reached
  <2> QED BY <2>2, <2>3
<1>16. p \in (last + 1)..Len(logBar) /\ logBar[p].client # k
  <2>1. p \in 1..Len(bcast) BY <1>2, <1>5
  <2>2. logBar[p].client # k BY <1>2, <1>9, <2>1, LogBar
  <2>3. Len(logBar) = Len(bcast) BY <1>2, LogBar
  <2> HIDE DEF p, last
  <2> QED BY <1>5, <1>7, <2>1, <2>2, <2>3
<1>17. \A q \in (last + 1)..(p - 1) : logBar[q].client = k
  <2> TAKE q \in (last + 1)..(p - 1)
  <2>1. q \in 1..Len(bcast)
    <3> HIDE DEF p, last
    <3> QED BY <1>2, <1>5, <1>7
  <2> QED BY <1>2, <1>10, <2>1, LogBar
<1> HIDE DEF p, last
<1> QED BY <1>1, <1>2, <1>3, <1>14, <1>15, <1>16, <1>17, BarsUnchanged DEF Feed!Deliver

\* Every step of the bridge is one of the feed, or one it does not see.
LEMMA MapStep ==
  ASSUME FeedInv, CopiesInv, [Next]_vars
  PROVE  [Feed!Next]_FeedVars
<1>1. TypeOK BY DEF FeedInv
<1>2. UNCHANGED <<out, up, seen, bcast, wpc, start, down, got, ran>> => UNCHANGED FeedVars
  BY BarsUnchanged DEF FeedVars
<1>3. ASSUME NEW f \in Fuzzers, FuzzerFire(f) PROVE Feed!Next
  BY <1>1, <1>3, MapFire DEF Feed!Next, Clients
<1>4. ASSUME NEW f \in Fuzzers, FuzzerProcess(f) PROVE [Feed!Next]_FeedVars
  <2>1. CASE bcast[fcur[f] + 1].client = f
    BY <1>2, <1>4, <2>1 DEF FuzzerProcess
  <2>2. CASE bcast[fcur[f] + 1].client # f
    BY <1>1, <1>4, <2>2, MapProcess DEF Feed!Next, Clients
  <2> QED BY <2>1, <2>2
<1>5. ASSUME NEW c \in Clients, BrokerMsg(c) PROVE Feed!Next
  BY <1>1, <1>5, MapBroker DEF Feed!Next
<1>6. CASE BrokerExit BY <1>2, <1>6 DEF BrokerExit
<1>7. ASSUME NEW k \in Conns, Connect(k) PROVE Feed!Next
  BY <1>1, <1>7, MapConnect DEF Feed!Next, Clients
<1>8. ASSUME NEW k \in Conns, WorkerForward(k) PROVE UNCHANGED FeedVars
  <2>1. /\ UNCHANGED <<out, up, seen, bcast, wpc, start, got, ran>>
        /\ down' = [down EXCEPT ![k] = Append(down[k], cur[k] + 1)]
    BY <1>8 DEF WorkerForward
  <2>2. down \in [Conns -> Seq(Nat)] /\ cur[k] + 1 \in Nat BY <1>1 DEF TypeOK
  <2>3. /\ \A i \in 1..Len(down[k]) : down'[k][i] = down[k][i]
        /\ \A i \in Conns : i # k => down'[i] = down[i]
        /\ \A i \in Conns : Len(down[i]) \in Nat
    BY <2>1, <2>2, AppendAt
  <2>4. ASSUME NEW j \in Conns PROVE SubSeq(down'[j], 1, got[j]) = SubSeq(down[j], 1, got[j])
    <3>1. got[j] \in Nat /\ got[j] <= Len(down[j])
      BY <1>1 DEF TypeOK, CopiesInv, CursorsBehind
    <3>2. \A i \in 1..got[j] : down'[j][i] = down[j][i] /\ down[j][i] \in Nat
      <4>1. /\ DOMAIN down[j] = 1..Len(down[j]) /\ Len(down[j]) \in Nat
            /\ \A i \in DOMAIN down[j] : down[j][i] \in Nat
        BY <2>2
      <4>2. \A i \in 1..got[j] : i \in 1..Len(down[j]) BY <3>1, <4>1
      <4>3. CASE j = k BY <2>3, <4>1, <4>2, <4>3
      <4>4. CASE j # k BY <2>3, <4>1, <4>2, <4>4
      <4> QED BY <4>3, <4>4
    <3>3. /\ SubSeq(down[j], 1, got[j]) \in Seq(Nat)
          /\ SubSeq(down'[j], 1, got[j]) \in Seq(Nat)
          /\ Len(SubSeq(down[j], 1, got[j])) = got[j]
          /\ Len(SubSeq(down'[j], 1, got[j])) = got[j]
          /\ \A i \in 1..got[j] : SubSeq(down[j], 1, got[j])[i] = down[j][i]
          /\ \A i \in 1..got[j] : SubSeq(down'[j], 1, got[j])[i] = down'[j][i]
      BY <3>1, <3>2, SubSeqProperties
    <3> QED BY <3>2, <3>3, SeqEqual
  <2>5. UNCHANGED inboxBar BY <2>1, <2>4 DEF inboxBar
  <2> QED BY <2>1, <2>5, BarsUnchanged DEF FeedVars
<1>13. ASSUME NEW k \in Conns, QuietWorkerStep(k) PROVE UNCHANGED FeedVars
  <2>1. UNCHANGED <<out, up, seen, bcast, start, down, got, ran>> BY <1>1, <1>13, QuietWorker
  <2>2. \A j \in Conns : wpc'[j] # "none" <=> wpc[j] # "none" BY <1>1, <1>13, QuietWorker
  <2>3. UNCHANGED joinedBar BY <2>2 DEF joinedBar
  <2> QED BY <2>1, <2>3, BarsUnchanged DEF FeedVars
<1>14. ASSUME NEW k \in Conns, WorkerRecv(k) \/ WorkerRecvGarbled(k)
       PROVE  [Feed!Next]_FeedVars
  BY <1>1, <1>14, MapHandOver DEF Feed!Next, Clients
<1>15. ASSUME NEW f \in Fuzzers, FuzzerFails(f) PROVE UNCHANGED FeedVars
  BY <1>2, <1>15 DEF FuzzerFails
<1>9. ASSUME NEW k \in Conns, PeerSendDone(k) PROVE [Feed!Next]_FeedVars
  BY <1>1, <1>9, MapSend DEF Feed!Next, Clients
<1>10. ASSUME NEW k \in Conns, PeerRecvDone(k) PROVE Feed!Next
  BY <1>10, MapRecv DEF Feed!Next, Clients
<1>11. ASSUME NEW k \in Conns,
              PeerSend(k) \/ PeerSendFails(k) \/ PeerLosesPlace(k) \/ PeerClose(k)
       PROVE  UNCHANGED FeedVars
  BY <1>2, <1>11 DEF PeerSend, PeerSendFails, PeerLosesPlace, PeerClose
<1>12. CASE UNCHANGED vars BY <1>2, <1>12 DEF vars
<1> QED
  BY <1>3, <1>4, <1>5, <1>6, <1>7, <1>8, <1>9, <1>10, <1>11, <1>12, <1>13, <1>14, <1>15
  DEF Next, WorkerStep, QuietWorkerStep, PeerStep

\* Broker, workers, streams and peers together keep the promise of NnFeed: every
\* client is handed everybody else's published messages, in log order, once each.
THEOREM Refinement == Spec => ImplementsFeed
<1>1. Init => Feed!Init
  <2> SUFFICES ASSUME Init PROVE Feed!Init
    OBVIOUS
  <2>1. submittedBar = [c \in Clients |-> 0] BY DEF Init, submittedBar, Sent, Clients
  <2>2. logBar = <<>> BY DEF Init, logBar
  <2>3. joinedBar = Clients \ Conns BY ClientsDisjoint DEF Init, joinedBar, Clients
  <2>4. startBar = [c \in Clients |-> 0] BY DEF Init, startBar
  <2>5. inboxBar = [c \in Clients |-> <<>>]
    <3>1. \A k \in Conns : SubSeq(down[k], 1, got[k]) = <<>>
      BY SubSeqEmpty DEF Init
    <3> QED BY <3>1 DEF Init, inboxBar, Clients
  <2>6. seen = [c \in Clients |-> 0] BY DEF Init
  <2> QED BY <2>1, <2>2, <2>3, <2>4, <2>5, <2>6 DEF Feed!Init
<1>2. FeedInv /\ CopiesInv /\ [Next]_vars => [Feed!Next]_FeedVars BY MapStep
<1> QED
  BY <1>1, <1>2, FeedInvariant, CopiesInvariant, PTL
  DEF Spec, ImplementsFeed, Feed!Spec, Feed!vars, FeedVars

-----------------------------------------------------------------------------
(* What the feed promises holds of the bridge *)

FeedFacts == INSTANCE NnFeedProofs WITH
  Remote <- Conns, submitted <- submittedBar, settled <- seen, log <- logBar,
  joined <- joinedBar, start <- startBar, inbox <- inboxBar

\* A fuzzer has taken in, and a peer has read, exactly what the others published
\* from where it joined to where it is, in the order of the broadcast, each once.
THEOREM HandedExactlyAlways == Spec => []Feed!HandedExactly
<1> QED
  BY Refinement, FeedFacts!HandedExactlyAlways, PTL
  DEF ImplementsFeed, Feed!HandedExactly, FeedFacts!HandedExactly,
      Feed!Spec, Feed!Init, Feed!Next, Feed!vars, Feed!Join, Feed!Submit, Feed!Publish, Feed!Keep,
      Feed!Deliver, Feed!Reached,
      FeedFacts!Spec, FeedFacts!Init, FeedFacts!Next, FeedFacts!vars, FeedFacts!Join,
      FeedFacts!Submit, FeedFacts!Publish, FeedFacts!Keep, FeedFacts!Deliver, FeedFacts!Reached

\* From one end to the other: the inputs of a network arrive at every fuzzer and
\* at every other peer in the order sent, without a gap and each once.
THEOREM InputsInOrderAlways == Spec => []InputsInOrder
<1> QED
  BY Refinement, FeedFacts!InputsInOrderAlways, PTL
  DEF ImplementsFeed, InputsInOrder, Feed!InputsInOrder, FeedFacts!InputsInOrder,
      Feed!Spec, Feed!Init, Feed!Next, Feed!vars, Feed!Join, Feed!Submit, Feed!Publish, Feed!Keep,
      Feed!Deliver, Feed!Reached,
      FeedFacts!Spec, FeedFacts!Init, FeedFacts!Next, FeedFacts!vars, FeedFacts!Join,
      FeedFacts!Submit, FeedFacts!Publish, FeedFacts!Keep, FeedFacts!Deliver, FeedFacts!Reached
=============================================================================
